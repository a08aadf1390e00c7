------------------------- MODULE AlignedAllocProofs -------------------------
(***************************************************************************)
(* The aligned allocation functions, for any size_t, any alignments and    *)
(* sizes, and any number of objects: every object is inside a block of its *)
(* own (InsideItsBlock), blocks are given back (NoLeak), and the objects   *)
(* behave as if there were no headers and blocks (ImplementsObjects).      *)
(*                                                                         *)
(* The argument is one of frames.  Blocks are disjoint intervals and a     *)
(* step writes into one block only, so that it leaves alone what belongs   *)
(* to the others, headers and contents (Untouched, Kept).                  *)
(***************************************************************************)
EXTENDS AlignedAlloc, TLAPS

(* Blocks that are disjoint and end within the addresses.                  *)
Arena(used) ==
  /\ DOMAIN used \subseteq Addr
  /\ \A u \in DOMAIN used : used[u] \in Addr /\ u + used[u] <= SizeMax
  /\ \A u, v \in DOMAIN used : u # v => u + used[u] <= v \/ v + used[v] <= u

(* The header of object p makes sense, and the block that it names has     *)
(* room for header and object.                                             *)
Owns(p) ==
  /\ mem[p - 3] \in DOMAIN blocks
  /\ mem[p - 2] \in Nat
  /\ mem[p - 1] \in Nat \ {0}
  /\ p % mem[p - 1] = 0
  /\ mem[p - 3] + 3 <= p
  /\ p + mem[p - 2] <= mem[p - 3] + blocks[mem[p - 3]]

IInv ==
  /\ TypeOK
  /\ Arena(blocks)
  /\ \A p \in handles : Owns(p)
  /\ \A p, q \in handles : mem[p - 3] = mem[q - 3] => p = q
  /\ NoLeak
-----------------------------------------------------------------------------
(* Rounding down reaches the last multiple.                                *)
LEMMA RoundsDown ==
  ASSUME NEW x \in Nat, NEW n \in Nat \ {0}
  PROVE  /\ RoundDown(x, n) \in Nat
         /\ RoundDown(x, n) <= x /\ x - n < RoundDown(x, n)
         /\ RoundDown(x, n) % n = 0
<1>1. x % n \in 0 .. n - 1
  OBVIOUS
<1>2. x % n <= x
  OBVIOUS
<1>3. (x - (x % n)) % n = 0
  <2>1. x - (x % n) = n * (x \div n) /\ x \div n \in Nat
    OBVIOUS
  <2>2. ASSUME NEW k \in Nat PROVE (n * k) % n = 0
    OBVIOUS
  <2> QED BY <2>1, <2>2
<1> QED BY <1>1, <1>2, <1>3 DEF RoundDown

(* The size of the block does not wrap, and the block has room for the     *)
(* header and the object at its aligned place.                             *)
LEMMA Layout ==
  ASSUME NEW sz \in 0 .. SizeMax, NEW alignment \in 0 .. SizeMax, NEW u \in Nat,
         ~AlignmentBad(alignment), ~SizeBad(sz, alignment)
  PROVE  LET p == AlignedIn(u, alignment) IN
         /\ alignment >= 1
         /\ BlockSize(sz, alignment) = sz + ExtraBytes(alignment)
         /\ BlockSize(sz, alignment) \in Nat /\ BlockSize(sz, alignment) <= SizeMax
         /\ p \in Nat /\ p % alignment = 0
         /\ u + Header <= p
         /\ p + sz <= u + BlockSize(sz, alignment)
<1>1. alignment >= 1 /\ ExtraBytes(alignment) \in Nat /\ sz + ExtraBytes(alignment) <= SizeMax
  BY LayoutAssumption DEF AlignmentBad, SizeBad, ExtraBytes
<1>2. \A x \in 0 .. SizeMax : x % (SizeMax + 1) = x
  BY LayoutAssumption
<1>3. BlockSize(sz, alignment) = sz + ExtraBytes(alignment)
  BY <1>1, <1>2 DEF BlockSize
<1>4. u + ExtraBytes(alignment) \in Nat /\ alignment \in Nat \ {0}
  BY <1>1
<1> QED BY <1>1, <1>3, <1>4, RoundsDown, LayoutAssumption DEF AlignedIn, ExtraBytes
-----------------------------------------------------------------------------
(* Blocks that have no cell in common are one before the other.            *)
LEMMA Apart ==
  ASSUME NEW b \in Nat, NEW m \in Nat \ {0}, NEW u \in Nat, NEW n \in Nat \ {0},
         Cells(b, m) \cap Cells(u, n) = {}
  PROVE  b + m <= u \/ u + n <= b
<1> SUFFICES ASSUME u < b + m, b < u + n PROVE FALSE
  OBVIOUS
<1>1. CASE b <= u
  BY <1>1, u \in Cells(b, m), u \in Cells(u, n) DEF Cells
<1>2. CASE u < b
  BY <1>2, b \in Cells(b, m), b \in Cells(u, n) DEF Cells
<1> QED BY <1>1, <1>2

(* A block that fits is a new one, and the arena stays one with it.        *)
LEMMA FitsArena ==
  ASSUME NEW used, Arena(used), NEW u \in Addr, NEW n \in Addr, Fits(u, n, used)
  PROVE  /\ u \notin DOMAIN used
         /\ \A b \in DOMAIN used : b + used[b] <= u \/ u + n <= b
         /\ Arena(With(used, u, n))
<1> USE LayoutAssumption DEF Addr
<1>1. \A b \in DOMAIN used : b + used[b] <= u \/ u + n <= b
  BY Apart DEF Arena, Fits
<1>2. u \notin DOMAIN used
  BY <1>1 DEF Arena
<1>3. /\ DOMAIN With(used, u, n) = DOMAIN used \cup {u}
      /\ With(used, u, n)[u] = n
      /\ \A b \in DOMAIN used : With(used, u, n)[b] = used[b]
  BY <1>2 DEF With
<1>4. Arena(With(used, u, n))
  BY <1>1, <1>3 DEF Arena, Fits
<1> QED BY <1>1, <1>2, <1>4

(* Giving a block back leaves the others as they are.                      *)
LEMMA WithoutArena ==
  ASSUME NEW used, Arena(used), NEW u
  PROVE  /\ DOMAIN Without(used, u) = DOMAIN used \ {u}
         /\ \A b \in DOMAIN used \ {u} : Without(used, u)[b] = used[b]
         /\ Arena(Without(used, u))
BY DEF Without, Arena

(* The step writes nothing into the block of object r, and keeps it.       *)
Untouched(r) ==
  /\ \A a \in Cells(mem[r - 3], blocks[mem[r - 3]]) : mem'[a] = mem[a]
  /\ mem[r - 3] \in DOMAIN blocks'
  /\ blocks'[mem[r - 3]] = blocks[mem[r - 3]]

(* Then the object is what it was, header and contents.                    *)
LEMMA Kept ==
  ASSUME IInv, NEW r \in handles, Untouched(r), r \in handles'
  PROVE  /\ mem'[r - 3] = mem[r - 3]
         /\ Owns(r)'
         /\ objectsBar'[r] = objectsBar[r]
<1> DEFINE u == mem[r - 3]
           n == mem[r - 2]
<1>1. /\ r \in Nat /\ u \in Nat /\ blocks[u] \in Nat /\ n \in Nat
      /\ u + 3 <= r /\ r + n <= u + blocks[u]
  <2>1. Owns(r) /\ r \in Addr /\ u \in Addr /\ blocks[u] \in Addr
    BY DEF IInv, TypeOK, Arena, Owns
  <2> QED BY <2>1, LayoutAssumption DEF Owns, Addr
<1>2. /\ r - 3 \in Cells(u, blocks[u]) /\ r - 2 \in Cells(u, blocks[u])
      /\ r - 1 \in Cells(u, blocks[u])
      /\ \A i \in 0 .. n - 1 : r + i \in Cells(u, blocks[u])
  BY <1>1 DEF Cells
<1>3. /\ mem'[r - 3] = mem[r - 3] /\ mem'[r - 2] = mem[r - 2] /\ mem'[r - 1] = mem[r - 1]
      /\ \A i \in 0 .. n - 1 : mem'[r + i] = mem[r + i]
  BY <1>2 DEF Untouched
<1>4. Owns(r)'
  BY <1>3 DEF Owns, Untouched, IInv
<1>5. objectsBar'[r] = objectsBar[r]
  BY <1>3 DEF objectsBar
<1> QED BY <1>3, <1>4, <1>5
-----------------------------------------------------------------------------
(* One new object q, in a block of its own, and those of rest untouched:   *)
(* what ns_aligned_malloc and ns_aligned_realloc have in common.           *)
LEMMA Joined ==
  ASSUME IInv, NEW rest \in SUBSET handles, NEW q \in Addr, handles' = rest \cup {q},
         \A r \in rest : Untouched(r),
         Owns(q)', mem'[q - 3] \notin {mem[r - 3] : r \in rest},
         mem' \in [Addr -> Int], Arena(blocks'), callbacks' = callbacks,
         "onFree" \in callbacks => DOMAIN blocks' = {mem[r - 3] : r \in rest} \cup {mem'[q - 3]}
  PROVE  /\ IInv'
         /\ q \notin rest
         /\ objectsBar' = Obj!Put([r \in rest |-> objectsBar[r]], q, objectsBar'[q])
<1>1. \A r \in rest : /\ mem'[r - 3] = mem[r - 3] /\ Owns(r)'
                      /\ objectsBar'[r] = objectsBar[r]
  BY Kept
<1>2. q \notin rest
  BY <1>1
<1>3. TypeOK'
  BY DEF IInv, TypeOK, Arena
<1>4. \A r \in handles' : Owns(r)'
  BY <1>1
<1>5. (\A p, r \in handles : mem[p - 3] = mem[r - 3] => p = r)'
  BY <1>1 DEF IInv
<1>6. NoLeak'
  BY <1>1 DEF NoLeak
<1>7. IInv'
  BY <1>3, <1>4, <1>5, <1>6 DEF IInv
<1>8. objectsBar' = Obj!Put([r \in rest |-> objectsBar[r]], q, objectsBar'[q])
  <2> DEFINE put == Obj!Put([r \in rest |-> objectsBar[r]], q, objectsBar'[q])
  <2> SUFFICES objectsBar' = put
    OBVIOUS
  <2>1. DOMAIN objectsBar' = rest \cup {q} /\ DOMAIN put = rest \cup {q}
    BY DEF objectsBar, Obj!Put
  <2>2. put[q] = objectsBar'[q] /\ \A r \in rest : put[r] = objectsBar'[r]
    BY <1>1, <1>2 DEF Obj!Put
  <2>3. objectsBar' = [r \in DOMAIN objectsBar' |-> objectsBar'[r]]
    BY DEF objectsBar
  <2>4. put = [r \in DOMAIN put |-> put[r]]
    BY DEF Obj!Put
  <2> HIDE DEF put
  <2>5. \A r \in rest \cup {q} : objectsBar'[r] = put[r]
    BY <2>2
  <2> QED BY <2>1, <2>3, <2>4, <2>5
<1> QED BY <1>2, <1>7, <1>8

(* The block of an object, and where in it the object is.                  *)
LEMMA Footprint ==
  ASSUME IInv, NEW r \in handles
  PROVE  LET u == mem[r - 3] IN
         /\ u \in DOMAIN blocks /\ u \in Addr /\ blocks[u] \in Addr /\ u + blocks[u] <= SizeMax
         /\ r \in Nat /\ mem[r - 2] \in Nat /\ mem[r - 1] \in Nat \ {0} /\ r % mem[r - 1] = 0
         /\ u + 3 <= r /\ r + mem[r - 2] <= u + blocks[u]
<1>1. Owns(r) /\ r \in Addr /\ mem[r - 3] \in Addr /\ blocks[mem[r - 3]] \in Addr
  BY DEF IInv, TypeOK, Arena, Owns
<1>2. mem[r - 3] + blocks[mem[r - 3]] <= SizeMax
  BY <1>1 DEF IInv, Arena, Owns
<1> QED BY <1>1, <1>2, LayoutAssumption DEF Owns, Addr

(* ns_aligned_malloc                                                       *)
LEMMA MallocStep ==
  ASSUME IInv, NEW sz \in Sizes, NEW alignment \in Alignments,
         AlignedMallocSucceeds(sz, alignment)
  PROVE  IInv' /\ \E p \in DOMAIN objectsBar' : Obj!Malloc(p, objectsBar'[p])
<1> DEFINE n == BlockSize(sz, alignment)
<1>1. PICK u \in Addr :
        LET p == AlignedIn(u, alignment) IN
        /\ Fits(u, n, blocks)
        /\ blocks' = With(blocks, u, n)
        /\ mem' = WriteHeader(mem, p, u, sz, alignment)
        /\ handles' = handles \cup {p}
  BY DEF AlignedMallocSucceeds
<1> DEFINE p == AlignedIn(u, alignment)
<1>2. /\ alignment \in Nat \ {0} /\ sz \in Nat /\ n \in Addr
      /\ p \in Nat /\ p % alignment = 0 /\ u + 3 <= p /\ p + sz <= u + n
  <2>1. sz \in 0 .. SizeMax /\ alignment \in 0 .. SizeMax /\ u \in Nat
    BY SizeAssumption DEF Addr
  <2>2. ~AlignmentBad(alignment) /\ ~SizeBad(sz, alignment)
    BY DEF AlignedMallocSucceeds
  <2>3. /\ alignment >= 1 /\ n = sz + ExtraBytes(alignment) /\ n <= SizeMax
        /\ p \in Nat /\ p % alignment = 0 /\ u + Header <= p /\ p + sz <= u + n
    BY <2>1, <2>2, Layout
  <2>4. n \in Addr
    BY <2>1, <2>3, LayoutAssumption, SizeAssumption DEF Addr, ExtraBytes
  <2> HIDE DEF n, p
  <2> QED BY <2>1, <2>3, <2>4, SizeAssumption
<1> HIDE DEF n, p
<1>3. /\ u \notin DOMAIN blocks /\ Arena(blocks')
      /\ \A b \in DOMAIN blocks : b + blocks[b] <= u \/ u + n <= b
  BY <1>1, <1>2, FitsArena DEF IInv
<1>4. /\ DOMAIN blocks' = DOMAIN blocks \cup {u} /\ blocks'[u] = n
      /\ \A b \in DOMAIN blocks : blocks'[b] = blocks[b]
  BY <1>1, <1>3 DEF With
<1>5. u + n <= SizeMax
  BY <1>1 DEF Fits
<1>6. /\ p - 3 \in Addr /\ p - 2 \in Addr /\ p - 1 \in Addr /\ p \in Addr
  BY <1>2, <1>5, LayoutAssumption DEF Addr
<1>7. /\ mem' \in [Addr -> Int]
      /\ mem'[p - 3] = u /\ mem'[p - 2] = sz /\ mem'[p - 1] = alignment
      /\ \A a \in Addr \ {p - 3, p - 2, p - 1} : mem'[a] = mem[a]
  <2>1. mem' = WriteHeader(mem, p, u, sz, alignment) /\ mem \in [Addr -> Int]
    BY <1>1 DEF p, n, IInv, TypeOK
  <2>2. u \in Int /\ sz \in Int /\ alignment \in Int /\ p \in Int
    BY <1>2 DEF Addr
  <2> QED BY <2>1, <2>2, <1>6 DEF WriteHeader
<1>8. ASSUME NEW r \in handles PROVE Untouched(r)
  <2> DEFINE b == mem[r - 3]
  <2>1. b \in DOMAIN blocks /\ b \in Addr /\ blocks[b] \in Addr /\ b + blocks[b] <= SizeMax
    BY Footprint
  <2>2. b + blocks[b] <= u \/ u + n <= b
    BY <1>3, <2>1
  <2>3. \A a \in Cells(b, blocks[b]) : a \in Addr \ {p - 3, p - 2, p - 1}
    BY <1>2, <2>1, <2>2, LayoutAssumption DEF Cells, Addr
  <2> QED BY <1>4, <1>7, <2>1, <2>3 DEF Untouched
<1>9. Owns(p)'
  BY <1>2, <1>4, <1>7 DEF Owns
<1>10. mem'[p - 3] \notin {mem[r - 3] : r \in handles}
  BY <1>3, <1>7, Footprint
<1>11. /\ IInv'
       /\ p \notin handles
       /\ objectsBar' = Obj!Put([r \in handles |-> objectsBar[r]], p, objectsBar'[p])
  <2>1. handles' = handles \cup {p} /\ callbacks' = callbacks
    BY <1>1 DEF AlignedMallocSucceeds, p
  <2>2. "onFree" \in callbacks
          => DOMAIN blocks' = {mem[r - 3] : r \in handles} \cup {mem'[p - 3]}
    BY <1>4, <1>7 DEF IInv, NoLeak
  <2> QED BY <1>3, <1>6, <1>7, <1>8, <1>9, <1>10, <2>1, <2>2, Joined
<1>12. Obj!Malloc(p, objectsBar'[p]) /\ p \in DOMAIN objectsBar'
  <2>1. p \in handles' /\ DOMAIN objectsBar' = handles' /\ DOMAIN objectsBar = handles
    BY <1>1 DEF objectsBar, p
  <2>2. objectsBar'[p].alignment = alignment
    BY <1>7, <2>1 DEF objectsBar
  <2>3. objectsBar = [r \in handles |-> objectsBar[r]]
    BY DEF objectsBar
  <2> QED BY <1>2, <1>11, <2>1, <2>2, <2>3 DEF Obj!Malloc, Obj!Aligned
<1> QED BY <1>11, <1>12

(* An object of len at p, in a block of room at old, moves to q, in a      *)
(* block of n at u, where it will have sz: each is inside its block, and   *)
(* so is the data at its old offset in the new one.                        *)
MayMove(p, old, room, len, q, u, n, sz) ==
  /\ old \in Addr /\ room \in Addr /\ old + room <= SizeMax
  /\ p \in Nat /\ len \in Nat /\ old + 3 <= p /\ p + len <= old + room
  /\ u \in Addr /\ n \in Addr /\ u + n <= SizeMax
  /\ q \in Nat /\ sz \in Nat /\ u + 3 <= q /\ q + sz <= u + n
  /\ p - old + sz <= n

(* What ns_aligned_realloc leaves in memory: the new header, the contents  *)
(* at their new place, and all that is in neither block.  That the data is *)
(* read inside the new block is due to the test of the old offset.         *)
LEMMA ReallocContents ==
  ASSUME mem \in [Addr -> Int],
         NEW p, NEW old, NEW room, NEW len, NEW q, NEW u, NEW sz, NEW alignment \in Nat,
         blocks[old] = room, mem[p - 2] = len,
         MayMove(p, old, room, len, q, u, BlockSize(sz, alignment), sz),
         mem' = NewContents(p, q, old, u, sz, alignment)
  PROVE  /\ mem' \in [Addr -> Int]
         /\ mem'[q - 3] = u /\ mem'[q - 2] = sz /\ mem'[q - 1] = alignment
         /\ \A i \in 0 .. sz - 1 : i < len => mem'[q + i] = mem[p + i]
         /\ \A a \in Addr \ (Cells(old, room) \cup Cells(u, BlockSize(sz, alignment))) :
              mem'[a] = mem[a]
<1> USE DEF MayMove
<1> DEFINE n    == BlockSize(sz, alignment)
           m    == Reallocated(old, u, n)
           kept == IF mem[p - 2] < sz THEN mem[p - 2] ELSE sz
           src  == u + (p - old)
           data == IF q # src THEN Moved(m, q, src, kept) ELSE m
           Outside == Addr \ (Cells(old, room) \cup Cells(u, n))
<1>1. mem' = WriteHeader(data, q, u, sz, alignment)
  BY DEF NewContents
<1> HIDE DEF n
<1>2. /\ n \in Addr /\ u + n <= SizeMax /\ u + 3 <= q /\ q + sz <= u + n
      /\ p - old + sz <= n
  BY DEF n
<1>3. /\ m \in [Addr -> Int]
      /\ \A a \in Cells(u, n) : a - u < room => m[a] = mem[old + (a - u)]
      /\ \A a \in Outside : m[a] = mem[a]
  <2>1. \A a \in Cells(u, n) : a \in Addr
    BY <1>2, LayoutAssumption DEF Cells, Addr
  <2>2. \A a \in Cells(u, n) : a - u < room => old + (a - u) \in Addr
    BY <1>2, LayoutAssumption DEF Cells, Addr
  <2>3. Junk \in Int
    BY DEF Junk
  <2> QED BY <2>1, <2>2, <2>3 DEF Reallocated
<1>4. kept \in Nat /\ kept <= sz /\ kept <= len
  OBVIOUS
<1>5. \A i \in 0 .. sz - 1 : i < len => i \in 0 .. kept - 1
  OBVIOUS
<1> HIDE DEF m, kept
<1>6. \A i \in 0 .. kept - 1 : src + i \in Addr /\ m[src + i] = mem[p + i]
  <2> TAKE i \in 0 .. kept - 1
  <2>1. i \in Nat /\ i < sz /\ i < len
    BY <1>4
  <2>2. src + i \in Int /\ u <= src + i
    BY <2>1 DEF Addr
  <2>3. src + i < u + n
    BY <1>2, <2>1 DEF Addr
  <2>4. (src + i) - u < room
    BY <2>1, LayoutAssumption DEF Addr
  <2>5. src + i <= SizeMax
    BY <1>2, <2>2, <2>3, LayoutAssumption DEF Addr
  <2>6. src + i \in Cells(u, n) /\ src + i \in Addr
    BY <1>2, <2>2, <2>3, <2>5 DEF Cells, Addr
  <2>7. old + ((src + i) - u) = p + i
    BY <2>1 DEF Addr
  <2> QED BY <1>3, <2>4, <2>6, <2>7
<1>7. /\ data \in [Addr -> Int]
      /\ \A i \in 0 .. kept - 1 : data[q + i] = mem[p + i]
      /\ \A a \in Outside : data[a] = mem[a]
  <2>1. CASE q = src
    BY <1>3, <1>6, <2>1
  <2>2. CASE q # src
    <3>1. data = [a \in Addr |-> IF a \in Cells(q, kept) THEN m[src + (a - q)] ELSE m[a]]
      BY <2>2 DEF Moved
    <3> HIDE DEF data, src
    <3>2. \A a \in Cells(q, kept) :
            /\ a \in Addr /\ a \in Cells(u, n)
            /\ a - q \in 0 .. kept - 1 /\ q + (a - q) = a
      BY <1>2, <1>4, LayoutAssumption DEF Cells, Addr
    <3>3. data \in [Addr -> Int]
      BY <1>3, <1>6, <3>1, <3>2
    <3>4. \A i \in 0 .. kept - 1 : q + i \in Cells(q, kept) /\ (q + i) - q = i
      BY <1>4 DEF Cells
    <3> QED BY <1>3, <1>6, <3>1, <3>2, <3>3, <3>4
  <2> QED BY <2>1, <2>2
<1> HIDE DEF data
<1>8. /\ q - 3 \in Addr /\ q - 2 \in Addr /\ q - 1 \in Addr
      /\ q - 3 \in Cells(u, n) /\ q - 2 \in Cells(u, n) /\ q - 1 \in Cells(u, n)
  BY <1>2, LayoutAssumption DEF Cells, Addr
<1>9. /\ mem' \in [Addr -> Int]
      /\ mem'[q - 3] = u /\ mem'[q - 2] = sz /\ mem'[q - 1] = alignment
      /\ \A a \in Addr \ {q - 3, q - 2, q - 1} : mem'[a] = data[a]
  <2>1. u \in Int /\ sz \in Int /\ alignment \in Int /\ q \in Int
    BY DEF Addr
  <2> QED BY <2>1, <1>1, <1>7, <1>8 DEF WriteHeader
<1>10. \A i \in 0 .. sz - 1 : i < len => mem'[q + i] = mem[p + i]
  <2> TAKE i \in 0 .. sz - 1
  <2>1. i \in Nat /\ i < sz
    OBVIOUS
  <2>2. q + i \notin {q - 3, q - 2, q - 1}
    BY <2>1
  <2>3. q + i \in Int /\ 1 <= q + i
    BY <2>1 DEF Addr
  <2>4. q + i <= SizeMax
    BY <1>2, <2>1, LayoutAssumption DEF Addr
  <2>5. mem'[q + i] = data[q + i]
    BY <1>9, <2>2, <2>3, <2>4 DEF Addr
  <2> QED BY <1>5, <1>7, <2>5
<1>11. \A a \in Outside : mem'[a] = mem[a]
  BY <1>7, <1>8, <1>9
<1> QED BY <1>9, <1>10, <1>11 DEF n

(* ns_aligned_realloc of an object                                         *)
LEMMA ReallocStep ==
  ASSUME IInv, NEW sz \in Sizes, NEW alignment \in Alignments, NEW p \in handles,
         AlignedReallocSucceeds(p, sz, alignment)
  PROVE  IInv' /\ \E q \in DOMAIN objectsBar' : Obj!Realloc(p, q, objectsBar'[q])
<1> DEFINE n    == BlockSize(sz, alignment)
           old  == mem[p - 3]
           len  == mem[p - 2]
           room == blocks[old]
           rest == handles \ {p}
<1>1. PICK u \in Addr :
        LET q == AlignedIn(u, alignment) IN
        /\ Fits(u, n, Without(blocks, old))
        /\ blocks' = With(Without(blocks, old), u, n)
        /\ mem' = NewContents(p, q, old, u, sz, alignment)
        /\ handles' = rest \cup {q}
  BY DEF AlignedReallocSucceeds
<1> DEFINE q == AlignedIn(u, alignment)
<1>2. /\ alignment \in Nat \ {0} /\ sz \in Nat /\ n \in Addr
      /\ q \in Nat /\ q % alignment = 0 /\ u + 3 <= q /\ q + sz <= u + n
      /\ n = sz + ExtraBytes(alignment)
  <2>1. sz \in 0 .. SizeMax /\ alignment \in 0 .. SizeMax /\ u \in Nat
    BY SizeAssumption DEF Addr
  <2>2. ~AlignmentBad(alignment) /\ ~SizeBad(sz, alignment)
    BY DEF AlignedReallocSucceeds
  <2>3. /\ alignment >= 1 /\ n = sz + ExtraBytes(alignment) /\ n <= SizeMax
        /\ q \in Nat /\ q % alignment = 0 /\ u + Header <= q /\ q + sz <= u + n
    BY <2>1, <2>2, Layout
  <2>4. n \in Addr
    BY <2>1, <2>3, LayoutAssumption, SizeAssumption DEF Addr, ExtraBytes
  <2> HIDE DEF n, q
  <2> QED BY <2>1, <2>3, <2>4, SizeAssumption
<1>3. /\ old \in DOMAIN blocks /\ old \in Addr /\ room \in Addr /\ old + room <= SizeMax
      /\ p \in Nat /\ len \in Nat /\ old + 3 <= p /\ p + len <= old + room
  BY Footprint
<1>4. p - old <= ExtraBytes(alignment) /\ mem[p - 1] = alignment
  BY DEF AlignedReallocSucceeds
<1>5. u + n <= SizeMax
  BY <1>1 DEF Fits
<1>6. /\ mem' \in [Addr -> Int]
      /\ mem'[q - 3] = u /\ mem'[q - 2] = sz /\ mem'[q - 1] = alignment
      /\ \A i \in 0 .. sz - 1 : i < len => mem'[q + i] = mem[p + i]
      /\ \A a \in Addr \ (Cells(old, room) \cup Cells(u, n)) : mem'[a] = mem[a]
  <2>1. mem \in [Addr -> Int] /\ mem' = NewContents(p, q, old, u, sz, alignment)
    BY <1>1 DEF IInv, TypeOK
  <2>2. p - old + sz <= n
    <3> HIDE DEF old, n
    <3> QED BY <1>2, <1>3, <1>4, SizeAssumption DEF ExtraBytes, Addr
  <2>3. alignment \in Nat
    BY <1>2
  <2>4. blocks[old] = room /\ mem[p - 2] = len
    OBVIOUS
  <2>5. MayMove(p, old, room, len, q, u, n, sz)
    BY <1>2, <1>3, <1>5, <2>2 DEF MayMove
  <2> HIDE DEF q, old, len, room
  <2> QED BY <2>1, <2>3, <2>4, <2>5, ReallocContents
<1>7. /\ u \notin DOMAIN Without(blocks, old) /\ Arena(blocks')
      /\ \A b \in DOMAIN blocks \ {old} : b + blocks[b] <= u \/ u + n <= b
  <2> DEFINE used == Without(blocks, old)
  <2>1. /\ DOMAIN used = DOMAIN blocks \ {old} /\ Arena(used)
        /\ \A b \in DOMAIN blocks \ {old} : used[b] = blocks[b]
    BY WithoutArena DEF IInv
  <2>2. /\ u \notin DOMAIN used /\ Arena(With(used, u, n))
        /\ \A b \in DOMAIN used : b + used[b] <= u \/ u + n <= b
    BY <1>1, <1>2, <2>1, FitsArena
  <2>3. blocks' = With(used, u, n)
    BY <1>1
  <2> HIDE DEF used
  <2>4. \A b \in DOMAIN blocks \ {old} : b + blocks[b] <= u \/ u + n <= b
    BY <2>1, <2>2
  <2> QED BY <2>2, <2>3, <2>4 DEF used
<1> HIDE DEF n, q
<1>8. /\ DOMAIN blocks' = (DOMAIN blocks \ {old}) \cup {u} /\ blocks'[u] = n
      /\ \A b \in DOMAIN blocks \ {old} : blocks'[b] = blocks[b]
  BY <1>1, <1>7 DEF With, Without, n
<1>9. q - 1 \in Addr /\ q \in Addr
  BY <1>2, <1>5, LayoutAssumption DEF Addr
<1>10. ASSUME NEW r \in rest PROVE Untouched(r) /\ mem[r - 3] # old
  <2> DEFINE b == mem[r - 3]
  <2>1. b \in DOMAIN blocks /\ b \in Addr /\ blocks[b] \in Addr /\ b + blocks[b] <= SizeMax
    BY Footprint
  <2>2. b # old
    BY DEF IInv
  <2>3. b + blocks[b] <= u \/ u + n <= b
    BY <1>7, <2>1, <2>2
  <2>4. b + blocks[b] <= old \/ old + room <= b
    BY <1>3, <2>1, <2>2 DEF IInv, Arena
  <2>5. \A a \in Cells(b, blocks[b]) : a \in Addr \ (Cells(old, room) \cup Cells(u, n))
    <3> HIDE DEF b, old, room
    <3> QED BY <1>2, <1>3, <2>1, <2>3, <2>4, LayoutAssumption DEF Cells, Addr
  <2> QED BY <1>6, <1>8, <2>1, <2>2, <2>5 DEF Untouched
<1>11. Owns(q)'
  BY <1>2, <1>6, <1>8 DEF Owns
<1>12. mem'[q - 3] \notin {mem[r - 3] : r \in rest}
  BY <1>6, <1>7, <1>10, Footprint DEF Without
<1>13. /\ IInv'
       /\ q \notin rest
       /\ objectsBar' = Obj!Put([r \in rest |-> objectsBar[r]], q, objectsBar'[q])
  <2>1. handles' = rest \cup {q} /\ callbacks' = callbacks
    BY <1>1 DEF AlignedReallocSucceeds, q
  <2>2. ASSUME "onFree" \in callbacks
        PROVE  DOMAIN blocks' = {mem[r - 3] : r \in rest} \cup {mem'[q - 3]}
    <3>1. DOMAIN blocks = {mem[r - 3] : r \in handles}
      BY <2>2 DEF IInv, NoLeak
    <3>2. DOMAIN blocks \ {old} = {mem[r - 3] : r \in rest}
      BY <3>1, <1>10
    <3> QED BY <1>6, <1>8, <3>2
  <2> HIDE DEF rest
  <2>3. rest \in SUBSET handles
    BY DEF rest
  <2> QED BY <1>6, <1>7, <1>9, <1>10, <1>11, <1>12, <2>1, <2>2, <2>3, Joined
<1>14. Obj!Realloc(p, q, objectsBar'[q]) /\ q \in DOMAIN objectsBar'
  <2>1. q \in handles' /\ DOMAIN objectsBar' = handles' /\ DOMAIN objectsBar = handles
    BY <1>1 DEF objectsBar, q
  <2>2. /\ objectsBar'[q].alignment = alignment
        /\ objectsBar'[q].data = [i \in 0 .. sz - 1 |-> mem'[q + i]]
    BY <1>6, <2>1 DEF objectsBar
  <2>3. /\ objectsBar[p].alignment = alignment
        /\ objectsBar[p].data = [i \in 0 .. len - 1 |-> mem[p + i]]
    BY <1>4, <2>1 DEF objectsBar
  <2>4. \A i \in DOMAIN objectsBar'[q].data \cap DOMAIN objectsBar[p].data :
          objectsBar'[q].data[i] = objectsBar[p].data[i]
    <3> HIDE DEF len
    <3> SUFFICES ASSUME NEW i \in 0 .. sz - 1, i \in 0 .. len - 1
                 PROVE  mem'[q + i] = mem[p + i]
      BY <2>2, <2>3
    <3>1. i < len
      BY <1>3
    <3> QED BY <1>6, <3>1
  <2>5. Obj!Drop(objectsBar, p) = [r \in rest |-> objectsBar[r]]
    BY <2>1 DEF Obj!Drop
  <2> QED BY <1>2, <1>13, <2>1, <2>2, <2>3, <2>4, <2>5 DEF Obj!Realloc, Obj!Aligned
<1> QED BY <1>13, <1>14

(* ns_aligned_free                                                         *)
LEMMA FreeStep ==
  ASSUME IInv, NEW p \in handles, AlignedFree(p)
  PROVE  IInv' /\ Obj!Free(p)
<1> DEFINE u    == mem[p - 3]
           rest == handles \ {p}
<1>1. handles' = rest /\ callbacks' = callbacks
  BY DEF AlignedFree
<1>2. u \in DOMAIN blocks /\ u \in Addr /\ blocks[u] \in Addr /\ u + blocks[u] <= SizeMax
  BY Footprint
<1>3. \/ /\ "onFree" \in callbacks
         /\ blocks' = Without(blocks, u)
         /\ mem' = [a \in Addr |-> IF a \in Cells(u, blocks[u]) THEN Junk ELSE mem[a]]
      \/ "onFree" \notin callbacks /\ blocks' = blocks /\ mem' = mem
  BY DEF AlignedFree
<1>4. /\ mem' \in [Addr -> Int] /\ Arena(blocks')
      /\ DOMAIN blocks \ {u} \subseteq DOMAIN blocks'
      /\ \A b \in DOMAIN blocks \ {u} : blocks'[b] = blocks[b]
      /\ \A a \in Addr \ Cells(u, blocks[u]) : mem'[a] = mem[a]
      /\ "onFree" \in callbacks => DOMAIN blocks' = DOMAIN blocks \ {u}
  <2>1. mem \in [Addr -> Int] /\ Arena(blocks) /\ Junk \in Int
    BY DEF IInv, TypeOK, Junk
  <2>2. Arena(Without(blocks, u))
    BY <2>1, WithoutArena
  <2> HIDE DEF u
  <2> QED BY <1>3, <2>1, <2>2 DEF Without
<1>5. ASSUME NEW r \in rest PROVE Untouched(r) /\ mem[r - 3] # u
  <2> DEFINE b == mem[r - 3]
  <2>1. b \in DOMAIN blocks /\ b \in Addr /\ blocks[b] \in Addr /\ b + blocks[b] <= SizeMax
    BY Footprint
  <2>2. b # u
    BY DEF IInv
  <2>3. b + blocks[b] <= u \/ u + blocks[u] <= b
    BY <1>2, <2>1, <2>2 DEF IInv, Arena
  <2>4. \A a \in Cells(b, blocks[b]) : a \in Addr \ Cells(u, blocks[u])
    <3> HIDE DEF b, u
    <3> QED BY <1>2, <2>1, <2>3, LayoutAssumption DEF Cells, Addr
  <2> QED BY <1>4, <2>1, <2>2, <2>4 DEF Untouched
<1>6. \A r \in rest : /\ mem'[r - 3] = mem[r - 3] /\ Owns(r)'
                      /\ objectsBar'[r] = objectsBar[r]
  BY <1>1, <1>5, Kept
<1>7. TypeOK'
  BY <1>1, <1>4 DEF IInv, TypeOK, Arena
<1>8. NoLeak'
  <2> SUFFICES ASSUME "onFree" \in callbacks
               PROVE  DOMAIN blocks' = {mem'[r - 3] : r \in rest}
    BY <1>1 DEF NoLeak
  <2>1. DOMAIN blocks = {mem[r - 3] : r \in handles}
    BY DEF IInv, NoLeak
  <2>2. DOMAIN blocks \ {u} = {mem[r - 3] : r \in rest}
    BY <2>1, <1>5
  <2> QED BY <1>4, <1>6, <2>2
<1>9. (\A r, s \in handles : mem[r - 3] = mem[s - 3] => r = s)'
  BY <1>1, <1>6 DEF IInv
<1>10. IInv'
  BY <1>1, <1>4, <1>6, <1>7, <1>8, <1>9 DEF IInv
<1>11. Obj!Free(p)
  <2>1. DOMAIN objectsBar = handles /\ objectsBar' = [r \in rest |-> objectsBar'[r]]
    BY <1>1 DEF objectsBar
  <2>2. Obj!Drop(objectsBar, p) = [r \in rest |-> objectsBar[r]]
    BY <2>1 DEF Obj!Drop
  <2> QED BY <1>6, <2>1, <2>2 DEF Obj!Free
<1> QED BY <1>10, <1>11

(* The user writes into an object.                                         *)
LEMMA WriteStep ==
  ASSUME IInv, NEW p \in handles, NEW a \in Addr, NEW v \in Values, UserWrites(p, a, v)
  PROVE  IInv' /\ \E i \in DOMAIN objectsBar[p].data : Obj!Write(p, i, v)
<1> DEFINE u   == mem[p - 3]
           len == mem[p - 2]
<1>1. /\ u \in DOMAIN blocks /\ u \in Addr /\ blocks[u] \in Addr
      /\ p \in Nat /\ len \in Nat /\ u + 3 <= p /\ p + len <= u + blocks[u]
      /\ u + blocks[u] <= SizeMax
  BY Footprint
<1>2. /\ a \in Cells(p, len) /\ mem' = [mem EXCEPT ![a] = v]
      /\ blocks' = blocks /\ handles' = handles /\ callbacks' = callbacks
  BY DEF UserWrites
<1>3. mem \in [Addr -> Int] /\ v \in Int
  BY SizeAssumption DEF IInv, TypeOK
<1>4. /\ p - 3 \in Addr \ {a} /\ p - 2 \in Addr \ {a} /\ p - 1 \in Addr \ {a}
      /\ a - p \in 0 .. len - 1 /\ p + (a - p) = a
      /\ \A i \in 0 .. len - 1 : i # a - p => p + i \in Addr \ {a}
  <2> HIDE DEF u, len
  <2>1. a \in Int /\ p <= a /\ a < p + len
    BY <1>1, <1>2 DEF Cells
  <2> QED BY <1>1, <2>1, LayoutAssumption DEF Addr
<1>5. /\ mem'[p - 3] = u /\ mem'[p - 2] = len /\ mem'[p - 1] = mem[p - 1]
      /\ mem'[a] = v
      /\ \A i \in 0 .. len - 1 : mem'[p + i] = IF i = a - p THEN v ELSE mem[p + i]
  BY <1>2, <1>3, <1>4
<1>6. ASSUME NEW r \in handles \ {p} PROVE Untouched(r)
  <2> DEFINE b == mem[r - 3]
  <2>1. b \in DOMAIN blocks /\ b \in Addr /\ blocks[b] \in Addr /\ b + blocks[b] <= SizeMax
    BY Footprint
  <2>2. b + blocks[b] <= u \/ u + blocks[u] <= b
    BY <1>1, <2>1 DEF IInv, Arena
  <2>3. \A c \in Cells(b, blocks[b]) : c \in Addr \ {a}
    <3> HIDE DEF b, u, len
    <3> QED BY <1>1, <1>2, <2>1, <2>2, LayoutAssumption DEF Cells, Addr
  <2> QED BY <1>2, <1>3, <2>1, <2>3 DEF Untouched
<1>7. Owns(p)'
  BY <1>2, <1>5 DEF IInv, Owns
<1>8. \A r \in handles \ {p} : /\ mem'[r - 3] = mem[r - 3] /\ Owns(r)'
                                /\ objectsBar'[r] = objectsBar[r]
  BY <1>2, <1>6, Kept
<1>9. \A r \in handles : mem'[r - 3] = mem[r - 3]
  BY <1>5, <1>8
<1>10. IInv'
  <2>1. TypeOK'
    BY <1>2, <1>3 DEF IInv, TypeOK
  <2>2. NoLeak'
    BY <1>2, <1>9 DEF IInv, NoLeak
  <2>3. (\A r, s \in handles : mem[r - 3] = mem[s - 3] => r = s)'
    BY <1>2, <1>9 DEF IInv
  <2> QED BY <1>2, <1>7, <1>8, <2>1, <2>2, <2>3 DEF IInv
<1>11. /\ a - p \in DOMAIN objectsBar[p].data
       /\ Obj!Write(p, a - p, v)
  <2>1. DOMAIN objectsBar = handles /\ DOMAIN objectsBar' = handles
    BY <1>2 DEF objectsBar
  <2>2. objectsBar[p] = [size |-> len, alignment |-> mem[p - 1],
                         data |-> [i \in 0 .. len - 1 |-> mem[p + i]]]
    BY DEF objectsBar
  <2>3. objectsBar'[p] = [size |-> len, alignment |-> mem[p - 1],
                          data |-> [i \in 0 .. len - 1 |-> mem'[p + i]]]
    BY <1>2, <1>5 DEF objectsBar
  <2>4. objectsBar'[p] = [objectsBar[p] EXCEPT !.data[a - p] = v]
    <3> DEFINE d == [i \in 0 .. len - 1 |-> mem[p + i]]
               e == [i \in 0 .. len - 1 |-> mem'[p + i]]
    <3>1. e = [d EXCEPT ![a - p] = v]
      BY <1>4, <1>5
    <3> HIDE DEF d, e
    <3>2. /\ objectsBar[p] = [size |-> len, alignment |-> mem[p - 1], data |-> d]
          /\ objectsBar'[p] = [size |-> len, alignment |-> mem[p - 1], data |-> e]
      BY <2>2, <2>3 DEF d, e
    <3> QED BY <3>1, <3>2
  <2>5. objectsBar' = [objectsBar EXCEPT ![p] = [objectsBar[p] EXCEPT !.data[a - p] = v]]
    <3>1. objectsBar = [r \in handles |-> objectsBar[r]]
      BY DEF objectsBar
    <3>2. objectsBar' = [r \in handles |-> objectsBar'[r]]
      BY <1>2 DEF objectsBar
    <3> QED BY <1>8, <2>4, <3>1, <3>2
  <2>6. a - p \in DOMAIN objectsBar[p].data
    BY <1>4, <2>2
  <2> QED BY <2>1, <2>5, <2>6 DEF Obj!Write
<1> QED BY <1>10, <1>11
-----------------------------------------------------------------------------
(* Each step keeps the invariant, and is a step of the abstract objects.   *)
LEMMA NextStep ==
  ASSUME IInv, [Next]_vars
  PROVE  IInv' /\ [Obj!Next]_objectsBar
<1>1. ASSUME NEW sz \in Sizes, NEW alignment \in Alignments,
             AlignedMallocSucceeds(sz, alignment)
      PROVE  IInv' /\ Obj!Next
  BY <1>1, MallocStep DEF Obj!Next
<1>2. ASSUME NEW sz \in Sizes, NEW alignment \in Alignments, NEW p \in handles,
             AlignedReallocSucceeds(p, sz, alignment)
      PROVE  IInv' /\ Obj!Next
  <2>1. p \in DOMAIN objectsBar
    BY DEF objectsBar
  <2> QED BY <1>2, <2>1, ReallocStep DEF Obj!Next
<1>3. ASSUME NEW p \in handles, AlignedFree(p) PROVE IInv' /\ Obj!Next
  <2>1. p \in DOMAIN objectsBar
    BY DEF objectsBar
  <2> QED BY <1>3, <2>1, FreeStep DEF Obj!Next
<1>4. ASSUME NEW p \in handles, NEW a \in Addr, NEW v \in Values, UserWrites(p, a, v)
      PROVE  IInv' /\ Obj!Next
  <2>1. p \in DOMAIN objectsBar
    BY DEF objectsBar
  <2> QED BY <1>4, <2>1, WriteStep DEF Obj!Next
<1>5. CASE UNCHANGED vars
  <2>1. IInv'
    BY <1>5 DEF vars, IInv, TypeOK, Arena, Owns, NoLeak
  <2>2. objectsBar' = objectsBar
    BY <1>5 DEF vars, objectsBar
  <2> QED BY <2>1, <2>2
<1> QED BY <1>1, <1>2, <1>3, <1>4, <1>5 DEF Next, AlignedFails

(* It holds of an empty heap.                                              *)
LEMMA InitInv == Init => IInv
<1> SUFFICES ASSUME Init PROVE IInv
  OBVIOUS
<1>1. handles = {} /\ DOMAIN blocks = {} /\ callbacks \subseteq Callbacks
  BY DEF Init
<1>2. mem \in [Addr -> Int]
  BY DEF Init, Junk
<1> QED BY <1>1, <1>2 DEF IInv, TypeOK, Arena, NoLeak

(* Every reachable state satisfies the inductive invariant.                *)
THEOREM Invariant == Spec => []IInv
<1>1. IInv /\ [Next]_vars => IInv'
  BY NextStep
<1> QED BY <1>1, InitInv, PTL DEF Spec

(* The variables keep their types (allocation_callbacks.c:72-276).         *)
THEOREM TypeCorrect == Spec => []TypeOK
<1>1. IInv => TypeOK
  BY DEF IInv
<1> QED BY <1>1, Invariant, PTL

(* Header and object are inside a block that is no other object's, and the *)
(* object is where its alignment allows.                                   *)
THEOREM Containment == Spec => []InsideItsBlock
<1>1. ASSUME IInv PROVE InsideItsBlock
  <2>1. ASSUME NEW p \in handles
        PROVE  LET u == mem[p - 3] IN
               /\ u \in DOMAIN blocks
               /\ Cells(p - Header, Header + mem[p - 2]) \subseteq Cells(u, blocks[u])
               /\ p % mem[p - 1] = 0
    <3> DEFINE u == mem[p - 3]
               len == mem[p - 2]
               room == blocks[u]
    <3>1. /\ u \in DOMAIN blocks /\ u \in Addr /\ room \in Addr
          /\ p \in Nat /\ len \in Nat /\ p % mem[p - 1] = 0
          /\ u + 3 <= p /\ p + len <= u + room
      BY <1>1, Footprint
    <3>2. Cells(p - Header, Header + len) \subseteq Cells(u, room)
      <4> HIDE DEF u, len, room
      <4> QED BY <3>1, SizeAssumption, LayoutAssumption DEF Cells, Addr
    <3> QED BY <3>1, <3>2
  <2> QED BY <1>1, <2>1 DEF IInv, InsideItsBlock
<1> QED BY <1>1, Invariant, PTL

(* With an onFree, the blocks that are handed out are those of the live    *)
(* objects.                                                                *)
THEOREM BlocksGivenBack == Spec => []NoLeak
<1>1. IInv => NoLeak
  BY DEF IInv
<1> QED BY <1>1, Invariant, PTL

(* The three functions implement objects without headers and blocks.       *)
THEOREM Implements == Spec => ImplementsObjects
<1>1. Init => Obj!Init
  BY DEF Init, Obj!Init, objectsBar
<1>2. IInv /\ [Next]_vars => [Obj!Next]_objectsBar
  BY NextStep
<1> QED BY <1>1, <1>2, Invariant, PTL DEF Spec, ImplementsObjects, Obj!Spec
=============================================================================
