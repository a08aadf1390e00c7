----------------------------- MODULE AllocTests -----------------------------
(***************************************************************************)
(* allocation_callbacks.c, the tests: main runs eleven of them, each a     *)
(* list of calls and checks that ends at the first one that fails, after   *)
(* the cleanup that stands at that place in the source.  The calls go to   *)
(* ns_malloc, ns_calloc, ns_realloc and ns_free, directly or by way of the *)
(* aligned functions, and from there to libc, to the callbacks that count, *)
(* or to those that also move every block.  Any call of libc's malloc or   *)
(* realloc may fail.                                                       *)
(*                                                                         *)
(* Sizes are in bytes.  A test holds one pointer at a time.  What matters  *)
(* of a block's contents is where the bytes are that a test will verify,   *)
(* and how many are left of them.                                          *)
(***************************************************************************)
EXTENDS AlignedLayout, Sequences

CONSTANT Places   \* the addresses at which libc may put a block

(* A test has two blocks at most, the larger of them of 2048 + 63 + 24.    *)
(* None is at NULL, and each ends before memory does.                      *)
ASSUME PlacesAssumption ==
  /\ Header = 24 /\ SizeMax >= 4095
  /\ \A u \in Places : /\ u \in Nat \ {0} /\ u % 16 = 0
                       /\ u + 2048 + 63 + Header <= SizeMax
  /\ \A u, v \in Places : u < v => u + 2048 + 63 + Header <= v

VARIABLES
  test, step,  \* which test is running, and where it is
  p,           \* the pointer that it holds, or Null
  header,      \* the header in front of p, if p is aligned
  heap,        \* the blocks: for each its size, and the bytes to be verified
  user,        \* the test_allocator_state of the test
  passed,      \* passedTests
  starved      \* history: the tests that ended because malloc or realloc failed

vars == <<test, step, p, header, heap, user, passed, starved>>

Null == 0
-----------------------------------------------------------------------------
(* A command: what is called or checked, two numbers, and what is done     *)
(* before the test returns 0 if it fails: none, ns_free, ns_aligned_free.  *)
Cmd(op, n, a, onFail) == [op |-> op, n |-> n, a |-> a, onFail |-> onFail]

Malloc(n)            == Cmd("malloc", n, 1, "none")
Calloc(n)            == Cmd("calloc", n, 1, "none")
Realloc(n)           == Cmd("realloc", n, 1, "free")
AlignedMalloc(n, a)  == Cmd("aligned_malloc", n, a, "none")
AlignedRealloc(n, a) == Cmd("aligned_realloc", n, a, "afree")
FromNull(n, a)       == Cmd("aligned_malloc", n, a, "none")
Rejected(n, a)       == Cmd("rejected", n, a, "afree")
Write(n)             == Cmd("write", n, 1, "none")
Verify(n, a)         == Cmd("verify", n, a, "afree")
Zeroed(n)            == Cmd("zeroed", n, 1, "free")
Aligned(a)           == Cmd("aligned", 0, a, "afree")
Moves                == Cmd("moved", 1, 1, "afree")
Mallocs(n, onFail)   == Cmd("mallocs", n, 1, onFail)
Reallocs(n, onFail)  == Cmd("reallocs", n, 1, onFail)
Frees(n, onFail)     == Cmd("frees", n, 1, onFail)
Initialised(from)    == Cmd(from, 0, 1, "none")
Free                 == Cmd("free", 0, 1, "none")
AlignedFree          == Cmd("afree", 0, 1, "none")

BasicMallocFree == <<Malloc(100), Free>>

BasicCalloc == <<Calloc(100), Zeroed(100), Free>>

(* A mutant: the block is not given back when it could not be resized. *)
BasicReallocLeaks == <<Malloc(100), Cmd("realloc", 200, 1, "none"), Free>>

BasicRealloc == <<Malloc(100), Realloc(200), Free>>

CustomAllocator ==
  <<Malloc(100), Mallocs(1, "free"), Realloc(200), Reallocs(1, "free"), Free, Frees(1, "none")>>

EachAlignment(n) ==
  [k \in 1 .. 3 * n |->
     LET round == (k - 1) \div 3
         a == 2 ^ round
     IN  <<AlignedMalloc(100, a), Aligned(a), AlignedFree>>[k - 3 * round]]

(* A mutant: the loop does not end at 256. *)
AlignedMallocFreePast256 == EachAlignment(10)

AlignedMallocFree == EachAlignment(9)

AlignedReallocs ==
  <<AlignedMalloc(100, 64), Write(100), AlignedRealloc(200, 64), Aligned(64),
    Verify(100, 64), AlignedFree>>

DifferentPointer ==
  <<AlignedMalloc(64, 64), Write(64), AlignedRealloc(2048, 64), Moves, Aligned(64),
    Verify(64, 64), Reallocs(1, "afree"), AlignedFree>>

ReallocFromNull == <<FromNull(100, 32), Aligned(32), AlignedFree>>

RejectedRequests ==
  <<AlignedMalloc(32, 64), Write(32), Rejected(64, 32), Rejected(SizeMax, 64),
    Verify(32, 64), AlignedFree, Rejected(SizeMax, 64), Rejected(32, 3)>>

FreeNull == <<Free>>

(* Neither the default callbacks nor a copy of NULL may lack one.          *)
CallbacksInit == <<Initialised("default"), Initialised("copy")>>

Tests ==
  <<BasicMallocFree, BasicCalloc, BasicRealloc, CustomAllocator, AlignedMallocFree,
    AlignedReallocs, DifferentPointer, ReallocFromNull, RejectedRequests,
    FreeNull, CallbacksInit>>

(* The callbacks that each test passes. *)
callbacks == CASE test = 4 -> "counting" [] test = 7 -> "moving" [] OTHER -> "default"

(* The callbacks that ns_allocation_callbacks_init_default sets, and those *)
(* that ns_allocation_callbacks_init_copy does, given NULL ({}) or a set.  *)
InitDefault == {"onMalloc", "onRealloc", "onFree"}

InitCopy(given) == IF given # {} THEN given ELSE InitDefault

NoState == [mallocs |-> 0, reallocs |-> 0, frees |-> 0, size |-> 0, moved |-> FALSE]

NoHeader == [pUnaligned |-> Null, size |-> 0, alignment |-> 1]

cmd == Tests[test][step]
-----------------------------------------------------------------------------
Least(m, n) == IF m < n THEN m ELSE n

With(f, x, v) == [y \in DOMAIN f \cup {x} |-> IF y = x THEN v ELSE f[y]]
Without(f, x) == [y \in DOMAIN f \ {x} |-> f[y]]

(* A block of n bytes; len bytes from at on are the ones to be verified,   *)
(* and what is in them is zero or what the test wrote.                     *)
Block(n, what, at, len) == [size |-> n, what |-> what, at |-> at, len |-> len]

(* Only the first n bytes of a block have been copied. *)
Cut(block, n) ==
  [block EXCEPT !.len = IF n > block.at THEN Least(block.len, n - block.at) ELSE 0]

(* Mutant of MovedTo: the data stays where it was. *)
MovedToNowhere(block, from, to, n) == block

(* memmove of n bytes from one offset in a block to another. *)
MovedTo(block, from, to, n) ==
  IF from = to THEN block
  ELSE [block EXCEPT !.at = to, !.len = IF from = block.at THEN Least(block.len, n) ELSE 0]

(* ns_malloc: test_malloc and test_moving_malloc count, the latter also    *)
(* notes the size.                                                         *)
UserAfterMalloc(n) ==
  IF callbacks = "default" THEN user
  ELSE [user EXCEPT !.mallocs = @ + 1,
                    !.size = IF callbacks = "moving" THEN n ELSE @]

(* ns_realloc of block u to v: test_realloc and test_moving_realloc. *)
UserAfterRealloc(u, v, n) ==
  IF callbacks = "default" THEN user
  ELSE [user EXCEPT !.reallocs = @ + 1,
                    !.size  = IF callbacks = "moving" THEN n ELSE @,
                    !.moved = IF callbacks = "moving" THEN v # u ELSE @]

UserAfterFree ==
  IF callbacks = "default" THEN user ELSE [user EXCEPT !.frees = @ + 1]

(* Where ns_realloc may put block u; the callbacks that move use malloc,   *)
(* while they still have the old block.                                    *)
NewPlaces(u) ==
  (Places \ DOMAIN heap) \cup (IF callbacks = "moving" THEN {} ELSE {u})

(* What ns_realloc makes of the contents of block u. *)
Resized(u, n) ==
  LET copied == IF callbacks = "moving" THEN Least(user.size, n) ELSE Least(heap[u].size, n)
  IN  [Cut(heap[u], copied) EXCEPT !.size = n]
-----------------------------------------------------------------------------
TypeOK ==
  /\ test \in 1 .. Len(Tests) + 1
  /\ step \in 1 .. 28
  /\ p \in 0 .. SizeMax
  /\ DOMAIN heap \subseteq Places
  /\ \A u \in DOMAIN heap : heap[u].at + heap[u].len <= heap[u].size
  /\ {passed, starved} \subseteq 0 .. test - 1

Init ==
  /\ test = 1 /\ step = 1
  /\ p = Null /\ header = NoHeader
  /\ heap = << >>
  /\ user = NoState
  /\ passed = 0 /\ starved = 0

Running == test <= Len(Tests)

At(ops) == Running /\ step <= Len(Tests[test]) /\ cmd.op \in ops

Advance == step' = step + 1 /\ UNCHANGED <<test, passed, starved>>

EndTest ==
  /\ test' = test + 1 /\ step' = 1
  /\ p' = Null /\ header' = NoHeader
  /\ user' = NoState

(* The end of a test: "return 1". *)
Pass ==
  /\ Running /\ step = Len(Tests[test]) + 1
  /\ passed' = passed + 1
  /\ EndTest
  /\ UNCHANGED <<heap, starved>>

Cleanup ==
  heap' = CASE cmd.onFail = "none"  -> heap
            [] cmd.onFail = "free"  -> Without(heap, p)
            [] cmd.onFail = "afree" -> Without(heap, header.pUnaligned)

(* "FAILED": the cleanup, and "return 0". *)
Fail == Cleanup /\ EndTest /\ UNCHANGED <<passed, starved>>
-----------------------------------------------------------------------------
(* ns_aligned_malloc and ns_aligned_realloc turn the request down.         *)
RequestBad ==
  \/ AlignmentBad(cmd.a) \/ SizeBad(cmd.n, cmd.a)
  \/ p # Null /\ cmd.a # header.alignment
  \/ p # Null /\ p - header.pUnaligned > ExtraBytes(cmd.a)

(* malloc or realloc returns NULL, and the test fails. *)
Starve ==
  /\ At({"malloc", "calloc", "realloc", "aligned_malloc", "aligned_realloc"})
  /\ cmd.op \in {"aligned_malloc", "aligned_realloc"} => ~RequestBad
  /\ starved' = starved + 1
  /\ Cleanup /\ EndTest
  /\ UNCHANGED passed

(* ns_malloc and ns_calloc *)
NsMalloc ==
  /\ At({"malloc", "calloc"})
  /\ \E u \in Places \ DOMAIN heap :
       /\ p' = u
       /\ heap' = With(heap, u, IF cmd.op = "calloc" THEN Block(cmd.n, "zero", 0, cmd.n)
                                                    ELSE Block(cmd.n, "junk", 0, 0))
  /\ user' = UserAfterMalloc(cmd.n)
  /\ Advance /\ UNCHANGED header

(* ns_realloc *)
NsRealloc ==
  /\ At({"realloc"})
  /\ \E v \in NewPlaces(p) :
       /\ p' = v
       /\ heap' = With(Without(heap, p), v, Resized(p, cmd.n))
       /\ user' = UserAfterRealloc(p, v, cmd.n)
  /\ Advance /\ UNCHANGED header

HeaderOf(u) == [pUnaligned |-> u, size |-> cmd.n, alignment |-> cmd.a]

NsAlignedMalloc ==
  /\ At({"aligned_malloc"})
  /\ IF RequestBad THEN Fail
     ELSE /\ \E u \in Places \ DOMAIN heap :
               /\ p' = AlignedIn(u, cmd.a)
               /\ header' = HeaderOf(u)
               /\ heap' = With(heap, u, Block(BlockSize(cmd.n, cmd.a), "junk", 0, 0))
          /\ user' = UserAfterMalloc(BlockSize(cmd.n, cmd.a))
          /\ Advance

NsAlignedRealloc ==
  LET old == header.pUnaligned
      sz  == BlockSize(cmd.n, cmd.a)
  IN
  /\ At({"aligned_realloc"})
  /\ IF RequestBad THEN Fail
     ELSE /\ \E v \in NewPlaces(old) :
               LET q == AlignedIn(v, cmd.a) IN
               /\ p' = q
               /\ header' = HeaderOf(v)
               /\ heap' = With(Without(heap, old), v,
                               MovedTo(Resized(old, sz), p - old, q - v,
                                       Least(header.size, cmd.n)))
               /\ user' = UserAfterRealloc(old, v, sz)
          /\ Advance

(* A request that has to be turned down.  If it is not, the test frees     *)
(* what it got, which is all it has, and fails.                            *)
NsRejects ==
  /\ At({"rejected"})
  /\ IF RequestBad
       THEN Advance /\ UNCHANGED <<p, header, heap, user>>
       ELSE heap' = << >> /\ EndTest /\ UNCHANGED <<passed, starved>>

(* The test writes into all of its object. *)
WriteObject ==
  /\ At({"write"})
  /\ heap' = [heap EXCEPT ![header.pUnaligned].what = "written",
                          ![header.pUnaligned].at = p - header.pUnaligned,
                          ![header.pUnaligned].len = cmd.n]
  /\ Advance /\ UNCHANGED <<p, header, user>>

Keeps(u, what, at) ==
  heap[u].what = what /\ heap[u].at = at /\ heap[u].len >= cmd.n

(* What is not known to be there is taken not to be. *)
Holds ==
  CASE cmd.op = "zeroed"   -> Keeps(p, "zero", 0)
    [] cmd.op = "verify"   -> Keeps(header.pUnaligned, "written", p - header.pUnaligned)
    [] cmd.op = "aligned"  -> p % cmd.a = 0
    [] cmd.op = "moved"    -> user.moved
    [] cmd.op = "mallocs"  -> user.mallocs = cmd.n
    [] cmd.op = "reallocs" -> user.reallocs = cmd.n
    [] cmd.op = "frees"    -> user.frees = cmd.n
    [] cmd.op = "default"  -> {"onMalloc", "onRealloc", "onFree"} \subseteq InitDefault
    [] cmd.op = "copy"     -> {"onMalloc", "onRealloc", "onFree"} \subseteq InitCopy({})

(* A check: the test goes on or fails. *)
Check ==
  /\ At({"zeroed", "verify", "aligned", "moved", "mallocs", "reallocs", "frees",
         "default", "copy"})
  /\ IF Holds THEN Advance /\ UNCHANGED <<p, header, heap, user>> ELSE Fail

(* ns_free, which returns at once for NULL *)
NsFree ==
  /\ At({"free"})
  /\ IF p = Null THEN UNCHANGED <<heap, user>>
     ELSE heap' = Without(heap, p) /\ user' = UserAfterFree
  /\ p' = Null
  /\ Advance /\ UNCHANGED header

NsAlignedFree ==
  /\ At({"afree"})
  /\ heap' = Without(heap, header.pUnaligned)
  /\ user' = UserAfterFree
  /\ p' = Null /\ header' = NoHeader
  /\ Advance

(* main has printed the numbers and returned. *)
Returned == ~Running /\ UNCHANGED vars

Next ==
  \/ NsMalloc \/ NsRealloc \/ NsFree
  \/ NsAlignedMalloc \/ NsAlignedRealloc \/ NsAlignedFree
  \/ NsRejects \/ Starve
  \/ WriteObject \/ Check
  \/ Pass \/ Returned

Spec == Init /\ [][Next]_vars
-----------------------------------------------------------------------------
(* The blocks that libc has handed out are those that the running test     *)
(* still has a pointer to, the aligned ones by way of the header, and what *)
(* it uses lies inside them.  So no test leaks, whatever allocation of it  *)
(* fails and wherever it gives up, and none frees a block that it uses.    *)
HeapIsHeld ==
  IF p = Null THEN heap = << >>
  ELSE LET u == IF header = NoHeader THEN p ELSE header.pUnaligned IN
       /\ DOMAIN heap = {u}
       /\ header # NoHeader => /\ u + Header <= p
                               /\ p + header.size <= u + heap[u].size

(* A test only fails when an allocation has: wherever libc puts and moves  *)
(* the blocks, each check of main's tests is passed.                       *)
FailsOnlyWhenStarved == passed + starved = test - 1
=============================================================================
