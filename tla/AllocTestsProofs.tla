-------------------------- MODULE AllocTestsProofs --------------------------
(***************************************************************************)
(* The tests of allocation_callbacks.c, wherever libc puts the blocks and  *)
(* whichever of its calls fail.                                            *)
(*                                                                         *)
(* Plan has, for each test and each place in it, what the test holds there *)
(* if it gets that far: nothing, a block or an aligned object, of which    *)
(* size, and how many of its bytes are known.  That the commands of a test *)
(* lead from one place of its plan to the next, whatever the state, is a   *)
(* matter of looking at them (Scripts); that the calls do what is expected *)
(* of them is shown once for each operation.                               *)
(***************************************************************************)
EXTENDS AllocTests, TLAPS

Sizes == 1 .. 2048
Alignments == {1, 2, 4, 8, 16, 32, 64, 128, 256}

Nothing == [kind |-> "nothing", n |-> 0, a |-> 1, kept |-> 0]
Raw(n, kept) == [kind |-> "raw", n |-> n, a |-> 1, kept |-> kept]
Object(n, a, kept) == [kind |-> "object", n |-> n, a |-> a, kept |-> kept]

MallocPlan == <<Nothing, Raw(100, 0), Nothing>>

CallocPlan == <<Nothing, Raw(100, 100), Raw(100, 100), Nothing>>

ReallocPlan == <<Nothing, Raw(100, 0), Raw(200, 0), Nothing>>

CustomPlan ==
  <<Nothing, Raw(100, 0), Raw(100, 0), Raw(200, 0), Raw(200, 0), Nothing, Nothing>>

AlignmentsPlan ==
  [s \in 1 .. 28 |-> LET round == (s - 1) \div 3
                     IN  IF s = 3 * round + 1 THEN Nothing ELSE Object(100, 2 ^ round, 0)]

ReallocsPlan ==
  <<Nothing, Object(100, 64, 0), Object(100, 64, 100), Object(200, 64, 100),
    Object(200, 64, 100), Object(200, 64, 100), Nothing>>

MovingPlan ==
  <<Nothing, Object(64, 64, 0), Object(64, 64, 64), Object(2048, 64, 64),
    Object(2048, 64, 64), Object(2048, 64, 64), Object(2048, 64, 64),
    Object(2048, 64, 64), Nothing>>

FromNullPlan == <<Nothing, Object(100, 32, 0), Object(100, 32, 0), Nothing>>

RejectedPlan ==
  <<Nothing, Object(32, 64, 0), Object(32, 64, 32), Object(32, 64, 32),
    Object(32, 64, 32), Object(32, 64, 32), Nothing, Nothing, Nothing>>

FreeNullPlan == <<Nothing, Nothing>>

InitPlan == <<Nothing, Nothing, Nothing>>

Plan ==
  <<MallocPlan, CallocPlan, ReallocPlan, CustomPlan, AlignmentsPlan, ReallocsPlan,
    MovingPlan, FromNullPlan, RejectedPlan, FreeNullPlan, InitPlan>>

(* The calls that tests 4 and 7 have counted.                              *)
Calls(m, r, f) == [mallocs |-> m, reallocs |-> r, frees |-> f]

Counted(t, s) ==
  IF s = 1 THEN Calls(0, 0, 0)
  ELSE IF s <= 3 THEN Calls(1, 0, 0)
  ELSE IF s <= (IF t = 4 THEN 5 ELSE 8) THEN Calls(1, 1, 0)
  ELSE Calls(1, 1, 1)

(* Command c leads from e to f, if allocations succeed, and the cleanup of *)
(* its failure is the one for e.                                           *)
Leads(c, e, f) ==
  /\ c.op = "malloc" =>
       c.n \in Sizes /\ c.onFail = "none" /\ e = Nothing /\ f = Raw(c.n, 0)
  /\ c.op = "calloc" =>
       c.n \in Sizes /\ c.onFail = "none" /\ e = Nothing /\ f = Raw(c.n, c.n)
  /\ c.op = "realloc" =>
       c.n \in Sizes /\ c.onFail = "free" /\ e.kind = "raw" /\ f = Raw(c.n, 0)
  /\ c.op = "aligned_malloc" =>
       /\ c.n \in Sizes /\ c.a \in Alignments /\ c.onFail = "none"
       /\ e = Nothing /\ f = Object(c.n, c.a, 0)
  /\ c.op = "aligned_realloc" =>
       /\ c.n \in Sizes /\ c.onFail = "afree"
       /\ e.kind = "object" /\ e.kept = e.n /\ e.n <= c.n /\ e.a = c.a
       /\ f = Object(c.n, c.a, e.n)
  /\ c.op = "rejected" =>
       /\ f = e
       /\ c.a = 3 \/ (c.n = SizeMax /\ c.a = 64) \/ (e.kind = "object" /\ e.a # c.a)
  /\ c.op = "write" => e.kind = "object" /\ c.n = e.n /\ f = Object(e.n, e.a, e.n)
  /\ c.op = "zeroed" => e.kind = "raw" /\ e.kept > 0 /\ c.n \in 0 .. e.kept /\ f = e
  /\ c.op = "verify" => e.kind = "object" /\ e.kept > 0 /\ c.n \in 0 .. e.kept /\ f = e
  /\ c.op = "aligned" => e.kind = "object" /\ e.a = c.a /\ f = e
  /\ c.op \in {"moved", "mallocs", "reallocs", "frees", "default", "copy"} => f = e
  /\ c.op = "free" => e.kind # "object" /\ f = Nothing
  /\ c.op = "afree" => e.kind = "object" /\ f = Nothing

(* Command c makes l of the calls k that were counted, and a check of them *)
(* asks for k.                                                             *)
Counts(c, e, k, l) ==
  /\ c.op \in {"malloc", "calloc", "aligned_malloc"} =>
       l = Calls(k.mallocs + 1, k.reallocs, k.frees)
  /\ c.op \in {"realloc", "aligned_realloc"} =>
       l = Calls(k.mallocs, k.reallocs + 1, k.frees)
  /\ c.op \in {"free", "afree"} =>
       e.kind # "nothing" /\ l = Calls(k.mallocs, k.reallocs, k.frees + 1)
  /\ c.op \notin {"malloc", "calloc", "aligned_malloc", "realloc", "aligned_realloc",
                  "free", "afree"} => l = k

(* What the checks of the counts ask for.                                  *)
AsksFor(t, c, k) ==
  /\ c.op = "mallocs" => t \in {4, 7} /\ c.n = k.mallocs
  /\ c.op = "reallocs" => t \in {4, 7} /\ c.n = k.reallocs
  /\ c.op = "frees" => t \in {4, 7} /\ c.n = k.frees
  /\ c.op = "moved" => t = 7 /\ k.reallocs > 0

Follows(t, s) ==
  /\ Leads(Tests[t][s], Plan[t][s], Plan[t][s + 1])
  /\ t \in {4, 7} => Counts(Tests[t][s], Plan[t][s], Counted(t, s), Counted(t, s + 1))
  /\ AsksFor(t, Tests[t][s], Counted(t, s))

(* Test t follows its plan from its beginning to its end.                  *)
FollowsPlan(t) ==
  /\ Len(Tests[t]) \in 0 .. 27
  /\ \A s \in 1 .. Len(Tests[t]) : Follows(t, s)
  /\ Plan[t][1] = Nothing
  /\ Plan[t][Len(Tests[t]) + 1] = Nothing
-----------------------------------------------------------------------------
(* What a block of n bytes looks like.                                     *)
IsBlock(b, n) ==
  /\ b = Block(n, b.what, b.at, b.len)
  /\ b.at \in Nat /\ b.len \in Nat /\ b.at + b.len <= n

(* The test holds what e says.                                             *)
HoldsRaw(e) ==
  /\ e.n \in Sizes /\ e.kept \in 0 .. e.n
  /\ p \in Places /\ header = NoHeader
  /\ DOMAIN heap = {p} /\ IsBlock(heap[p], e.n) /\ heap[p].at = 0
  /\ e.kept > 0 => heap[p].what = "zero" /\ heap[p].len >= e.kept

HoldsObject(e) ==
  LET u == header.pUnaligned IN
  /\ e.n \in Sizes /\ e.a \in Alignments /\ e.kept \in 0 .. e.n
  /\ u \in Places /\ header = [pUnaligned |-> u, size |-> e.n, alignment |-> e.a]
  /\ p = AlignedIn(u, e.a)
  /\ DOMAIN heap = {u} /\ IsBlock(heap[u], e.n + ExtraBytes(e.a))
  /\ e.kept > 0 => heap[u].what = "written" /\ heap[u].at = p - u /\ heap[u].len >= e.kept

Held(e) ==
  \/ e = Nothing /\ p = Null /\ header = NoHeader /\ heap = << >>
  \/ e.kind = "raw" /\ HoldsRaw(e)
  \/ e.kind = "object" /\ HoldsObject(e)

(* The callbacks have counted the calls, and know the size.                *)
UserKnows(t, e, k) ==
  t \in {4, 7} =>
    /\ user = [mallocs |-> k.mallocs, reallocs |-> k.reallocs, frees |-> k.frees,
               size |-> user.size, moved |-> user.moved]
    /\ t = 7 => /\ e.kind = "object" => user.size = e.n + ExtraBytes(e.a)
                /\ k.reallocs > 0 => user.moved

IInv ==
  /\ test \in 1 .. 12
  /\ passed \in Nat /\ starved \in Nat /\ passed + starved = test - 1
  /\ Running => /\ step \in 1 .. Len(Tests[test]) + 1
                /\ Held(Plan[test][step])
                /\ UserKnows(test, Plan[test][step], Counted(test, step))
  /\ ~Running => step = 1 /\ Held(Nothing)
-----------------------------------------------------------------------------
(* The alignments of test 5.                                               *)
LEMMA Powers == \A k \in 0 .. 8 : 2 ^ k \in Alignments
<1>1. 2 ^ 0 = 1
  OBVIOUS
<1>2. 2 ^ 1 = 2
  OBVIOUS
<1>3. 2 ^ 2 = 4
  OBVIOUS
<1>4. 2 ^ 3 = 8
  OBVIOUS
<1>5. 2 ^ 4 = 16
  OBVIOUS
<1>6. 2 ^ 5 = 32
  OBVIOUS
<1>7. 2 ^ 6 = 64
  OBVIOUS
<1>8. 2 ^ 7 = 128
  OBVIOUS
<1>9. 2 ^ 8 = 256
  OBVIOUS
<1>10. ASSUME NEW k \in 0 .. 8 PROVE 2 ^ k \in Alignments
  <2>1. \/ k = 0 \/ k = 1 \/ k = 2 \/ k = 3 \/ k = 4 \/ k = 5 \/ k = 6 \/ k = 7 \/ k = 8
    OBVIOUS
  <2>2. CASE k = 0
    BY <1>1, <2>2 DEF Alignments
  <2>3. CASE k = 1
    BY <1>2, <2>3 DEF Alignments
  <2>4. CASE k = 2
    BY <1>3, <2>4 DEF Alignments
  <2>5. CASE k = 3
    BY <1>4, <2>5 DEF Alignments
  <2>6. CASE k = 4
    BY <1>5, <2>6 DEF Alignments
  <2>7. CASE k = 5
    BY <1>6, <2>7 DEF Alignments
  <2>8. CASE k = 6
    BY <1>7, <2>8 DEF Alignments
  <2>9. CASE k = 7
    BY <1>8, <2>9 DEF Alignments
  <2>10. CASE k = 8
    BY <1>9, <2>10 DEF Alignments
  <2> QED BY <2>1, <2>2, <2>3, <2>4, <2>5, <2>6, <2>7, <2>8, <2>9, <2>10
<1> QED BY <1>10

(* Round r of test 5, AlignedMallocFree.                                   *)
LEMMA Round ==
  ASSUME NEW r \in 0 .. 8
  PROVE  /\ Tests[5][3 * r + 1] = AlignedMalloc(100, 2 ^ r)
         /\ Tests[5][3 * r + 2] = Aligned(2 ^ r)
         /\ Tests[5][3 * r + 3] = AlignedFree
         /\ Plan[5][3 * r + 1] = Nothing
         /\ Plan[5][3 * r + 2] = Object(100, 2 ^ r, 0)
         /\ Plan[5][3 * r + 3] = Object(100, 2 ^ r, 0)
         /\ Plan[5][3 * r + 4] = Nothing
<1> DEFINE command(k, m) == <<AlignedMalloc(100, 2 ^ m), Aligned(2 ^ m), AlignedFree>>[k - 3 * m]
           place(k, m) == IF k = 3 * m + 1 THEN Nothing ELSE Object(100, 2 ^ m, 0)
<1>1. \A k \in 1 .. 27 : Tests[5][k] = command(k, (k - 1) \div 3)
  BY DEF Tests, AlignedMallocFree, EachAlignment
<1>2. \A k \in 1 .. 28 : Plan[5][k] = place(k, (k - 1) \div 3)
  BY DEF Plan, AlignmentsPlan
<1> HIDE DEF command, place
<1>3. /\ (3 * r + 1 - 1) \div 3 = r /\ (3 * r + 2 - 1) \div 3 = r /\ (3 * r + 3 - 1) \div 3 = r
      /\ (3 * r + 4 - 1) \div 3 = r + 1
  OBVIOUS
<1>4. /\ 3 * r + 1 \in 1 .. 27 /\ 3 * r + 2 \in 1 .. 27 /\ 3 * r + 3 \in 1 .. 27
      /\ 3 * r + 4 \in 1 .. 28
  OBVIOUS
<1>5. /\ Tests[5][3 * r + 1] = command(3 * r + 1, r)
      /\ Tests[5][3 * r + 2] = command(3 * r + 2, r)
      /\ Tests[5][3 * r + 3] = command(3 * r + 3, r)
  BY <1>1, <1>3, <1>4
<1>6. /\ Plan[5][3 * r + 1] = place(3 * r + 1, r)
      /\ Plan[5][3 * r + 2] = place(3 * r + 2, r)
      /\ Plan[5][3 * r + 3] = place(3 * r + 3, r)
      /\ Plan[5][3 * r + 4] = place(3 * r + 4, r + 1)
  <2>1. 1 .. 27 \subseteq 1 .. 28
    OBVIOUS
  <2> QED BY <1>2, <1>3, <1>4, <2>1
<1>7. 3 * r + 1 - 3 * r = 1 /\ 3 * r + 2 - 3 * r = 2 /\ 3 * r + 3 - 3 * r = 3
  OBVIOUS
<1>8. /\ command(3 * r + 1, r) = AlignedMalloc(100, 2 ^ r)
      /\ command(3 * r + 2, r) = Aligned(2 ^ r)
      /\ command(3 * r + 3, r) = AlignedFree
  BY <1>7 DEF command
<1>9. /\ place(3 * r + 1, r) = Nothing
      /\ place(3 * r + 2, r) = Object(100, 2 ^ r, 0)
      /\ place(3 * r + 3, r) = Object(100, 2 ^ r, 0)
      /\ place(3 * r + 4, r + 1) = Nothing
  BY DEF place
<1> QED BY <1>5, <1>6, <1>8, <1>9

(* Such a round leads from nothing to nothing, and counts no calls.        *)
LEMMA RoundLeads ==
  ASSUME NEW a \in Alignments
  PROVE  /\ Leads(AlignedMalloc(100, a), Nothing, Object(100, a, 0))
         /\ Leads(Aligned(a), Object(100, a, 0), Object(100, a, 0))
         /\ Leads(AlignedFree, Object(100, a, 0), Nothing)
         /\ \A k : /\ AsksFor(5, AlignedMalloc(100, a), k)
                   /\ AsksFor(5, Aligned(a), k)
                   /\ AsksFor(5, AlignedFree, k)
BY DEF Leads, AsksFor, AlignedMalloc, Aligned, AlignedFree, Cmd, Nothing, Object, Sizes

(* Test 5, AlignedMallocFree, round by round.                              *)
LEMMA AlignedMallocFreeFollows == FollowsPlan(5)
<1>1. Len(Tests[5]) = 27
  BY DEF Tests, AlignedMallocFree, EachAlignment
<1>2. ASSUME NEW r \in 0 .. 8
      PROVE  Follows(5, 3 * r + 1) /\ Follows(5, 3 * r + 2) /\ Follows(5, 3 * r + 3)
  <2>1. 3 * r + 1 + 1 = 3 * r + 2 /\ 3 * r + 2 + 1 = 3 * r + 3 /\ 3 * r + 3 + 1 = 3 * r + 4
    OBVIOUS
  <2>2. 2 ^ r \in Alignments
    BY Powers
  <2>3. /\ Leads(Tests[5][3 * r + 1], Plan[5][3 * r + 1], Plan[5][3 * r + 2])
        /\ Leads(Tests[5][3 * r + 2], Plan[5][3 * r + 2], Plan[5][3 * r + 3])
        /\ Leads(Tests[5][3 * r + 3], Plan[5][3 * r + 3], Plan[5][3 * r + 4])
    BY <2>2, Round, RoundLeads
  <2>4. \A k : /\ AsksFor(5, Tests[5][3 * r + 1], k)
               /\ AsksFor(5, Tests[5][3 * r + 2], k)
               /\ AsksFor(5, Tests[5][3 * r + 3], k)
    BY <2>2, Round, RoundLeads
  <2> QED BY <2>1, <2>3, <2>4 DEF Follows
<1>3. ASSUME NEW s \in 1 .. 27 PROVE Follows(5, s)
  <2>1. PICK r \in 0 .. 8 : s = 3 * r + 1 \/ s = 3 * r + 2 \/ s = 3 * r + 3
    <3>1. /\ (s - 1) \div 3 \in 0 .. 8
          /\ \/ s = 3 * ((s - 1) \div 3) + 1
             \/ s = 3 * ((s - 1) \div 3) + 2
             \/ s = 3 * ((s - 1) \div 3) + 3
      OBVIOUS
    <3> QED BY <3>1
  <2> QED BY <1>2, <2>1
<1>4. Plan[5][1] = Nothing
  BY Round, 3 * 0 + 1 = 1
<1>5. Plan[5][28] = Nothing
  BY Round, 3 * 8 + 4 = 28
<1> QED BY <1>1, <1>3, <1>4, <1>5 DEF FollowsPlan

(* The tests follow their plans, command by command.                       *)
USE DEF Counts, AsksFor, Counted, Calls, Leads, Nothing, Raw, Object, Sizes, Alignments,
        Cmd, Malloc, Calloc, Realloc, AlignedMalloc, AlignedRealloc, FromNull, Rejected,
        Write, Verify, Zeroed, Aligned, Moves, Mallocs, Reallocs, Frees, Initialised, Free, AlignedFree

(* Test 1, BasicMallocFree.                                                *)
LEMMA BasicMallocFreeFollows == FollowsPlan(1)
<1> USE DEF BasicMallocFree, MallocPlan
<1>1. Tests[1] = BasicMallocFree /\ Plan[1] = MallocPlan /\ Len(Tests[1]) = 2
  BY DEF Tests, Plan
<1>2. Follows(1, 1)
  BY <1>1 DEF Follows
<1>3. Follows(1, 2)
  BY <1>1 DEF Follows
<1>4. Plan[1][1] = Nothing /\ Plan[1][3] = Nothing
  BY <1>1
<1> HIDE DEF BasicMallocFree, MallocPlan
<1> QED BY <1>1, <1>2, <1>3, <1>4 DEF FollowsPlan

(* Test 2, BasicCalloc.                                                    *)
LEMMA BasicCallocFollows == FollowsPlan(2)
<1> USE DEF BasicCalloc, CallocPlan
<1>1. Tests[2] = BasicCalloc /\ Plan[2] = CallocPlan /\ Len(Tests[2]) = 3
  BY DEF Tests, Plan
<1>2. Follows(2, 1)
  BY <1>1 DEF Follows
<1>3. Follows(2, 2)
  BY <1>1 DEF Follows
<1>4. Follows(2, 3)
  BY <1>1 DEF Follows
<1>5. Plan[2][1] = Nothing /\ Plan[2][4] = Nothing
  BY <1>1
<1> HIDE DEF BasicCalloc, CallocPlan
<1> QED BY <1>1, <1>2, <1>3, <1>4, <1>5 DEF FollowsPlan

(* Test 3, BasicRealloc.                                                   *)
LEMMA BasicReallocFollows == FollowsPlan(3)
<1> USE DEF BasicRealloc, ReallocPlan
<1>1. Tests[3] = BasicRealloc /\ Plan[3] = ReallocPlan /\ Len(Tests[3]) = 3
  BY DEF Tests, Plan
<1>2. Follows(3, 1)
  BY <1>1 DEF Follows
<1>3. Follows(3, 2)
  BY <1>1 DEF Follows
<1>4. Follows(3, 3)
  BY <1>1 DEF Follows
<1>5. Plan[3][1] = Nothing /\ Plan[3][4] = Nothing
  BY <1>1
<1> HIDE DEF BasicRealloc, ReallocPlan
<1> QED BY <1>1, <1>2, <1>3, <1>4, <1>5 DEF FollowsPlan

(* Test 4, CustomAllocator.                                                *)
LEMMA CustomAllocatorFollows == FollowsPlan(4)
<1> USE DEF CustomAllocator, CustomPlan
<1>1. Tests[4] = CustomAllocator /\ Plan[4] = CustomPlan /\ Len(Tests[4]) = 6
  BY DEF Tests, Plan
<1>2. Follows(4, 1)
  BY <1>1 DEF Follows
<1>3. Follows(4, 2)
  BY <1>1 DEF Follows
<1>4. Follows(4, 3)
  BY <1>1 DEF Follows
<1>5. Follows(4, 4)
  BY <1>1 DEF Follows
<1>6. Follows(4, 5)
  BY <1>1 DEF Follows
<1>7. Follows(4, 6)
  BY <1>1 DEF Follows
<1>8. Plan[4][1] = Nothing /\ Plan[4][7] = Nothing
  BY <1>1
<1> HIDE DEF CustomAllocator, CustomPlan
<1> QED BY <1>1, <1>2, <1>3, <1>4, <1>5, <1>6, <1>7, <1>8 DEF FollowsPlan

(* Test 6, AlignedReallocs.                                                *)
LEMMA AlignedReallocsFollows == FollowsPlan(6)
<1> USE DEF AlignedReallocs, ReallocsPlan
<1>1. Tests[6] = AlignedReallocs /\ Plan[6] = ReallocsPlan /\ Len(Tests[6]) = 6
  BY DEF Tests, Plan
<1>2. Follows(6, 1)
  BY <1>1 DEF Follows
<1>3. Follows(6, 2)
  BY <1>1 DEF Follows
<1>4. Follows(6, 3)
  BY <1>1 DEF Follows
<1>5. Follows(6, 4)
  BY <1>1 DEF Follows
<1>6. Follows(6, 5)
  BY <1>1 DEF Follows
<1>7. Follows(6, 6)
  BY <1>1 DEF Follows
<1>8. Plan[6][1] = Nothing /\ Plan[6][7] = Nothing
  BY <1>1
<1> HIDE DEF AlignedReallocs, ReallocsPlan
<1> QED BY <1>1, <1>2, <1>3, <1>4, <1>5, <1>6, <1>7, <1>8 DEF FollowsPlan

(* Test 7, DifferentPointer.                                               *)
LEMMA DifferentPointerFollows == FollowsPlan(7)
<1> USE DEF DifferentPointer, MovingPlan
<1>1. Tests[7] = DifferentPointer /\ Plan[7] = MovingPlan /\ Len(Tests[7]) = 8
  BY DEF Tests, Plan
<1>2. Follows(7, 1)
  BY <1>1 DEF Follows
<1>3. Follows(7, 2)
  BY <1>1 DEF Follows
<1>4. Follows(7, 3)
  BY <1>1 DEF Follows
<1>5. Follows(7, 4)
  BY <1>1 DEF Follows
<1>6. Follows(7, 5)
  BY <1>1 DEF Follows
<1>7. Follows(7, 6)
  BY <1>1 DEF Follows
<1>8. Follows(7, 7)
  BY <1>1 DEF Follows
<1>9. Follows(7, 8)
  BY <1>1 DEF Follows
<1>10. Plan[7][1] = Nothing /\ Plan[7][9] = Nothing
  BY <1>1
<1> HIDE DEF DifferentPointer, MovingPlan
<1> QED BY <1>1, <1>2, <1>3, <1>4, <1>5, <1>6, <1>7, <1>8, <1>9, <1>10 DEF FollowsPlan

(* Test 8, ReallocFromNull.                                                *)
LEMMA ReallocFromNullFollows == FollowsPlan(8)
<1> USE DEF ReallocFromNull, FromNullPlan
<1>1. Tests[8] = ReallocFromNull /\ Plan[8] = FromNullPlan /\ Len(Tests[8]) = 3
  BY DEF Tests, Plan
<1>2. Follows(8, 1)
  BY <1>1 DEF Follows
<1>3. Follows(8, 2)
  BY <1>1 DEF Follows
<1>4. Follows(8, 3)
  BY <1>1 DEF Follows
<1>5. Plan[8][1] = Nothing /\ Plan[8][4] = Nothing
  BY <1>1
<1> HIDE DEF ReallocFromNull, FromNullPlan
<1> QED BY <1>1, <1>2, <1>3, <1>4, <1>5 DEF FollowsPlan

(* Test 9, RejectedRequests.                                               *)
LEMMA RejectedRequestsFollows == FollowsPlan(9)
<1> USE DEF RejectedRequests, RejectedPlan
<1>1. Tests[9] = RejectedRequests /\ Plan[9] = RejectedPlan /\ Len(Tests[9]) = 8
  BY DEF Tests, Plan
<1>2. Follows(9, 1)
  BY <1>1 DEF Follows
<1>3. Follows(9, 2)
  BY <1>1 DEF Follows
<1>4. Follows(9, 3)
  BY <1>1 DEF Follows
<1>5. Follows(9, 4)
  BY <1>1 DEF Follows
<1>6. Follows(9, 5)
  BY <1>1 DEF Follows
<1>7. Follows(9, 6)
  BY <1>1 DEF Follows
<1>8. Follows(9, 7)
  BY <1>1 DEF Follows
<1>9. Follows(9, 8)
  BY <1>1 DEF Follows
<1>10. Plan[9][1] = Nothing /\ Plan[9][9] = Nothing
  BY <1>1
<1> HIDE DEF RejectedRequests, RejectedPlan
<1> QED BY <1>1, <1>2, <1>3, <1>4, <1>5, <1>6, <1>7, <1>8, <1>9, <1>10 DEF FollowsPlan

(* Test 10, FreeNull.                                                      *)
LEMMA FreeNullFollows == FollowsPlan(10)
<1> USE DEF FreeNull, FreeNullPlan
<1>1. Tests[10] = FreeNull /\ Plan[10] = FreeNullPlan /\ Len(Tests[10]) = 1
  BY DEF Tests, Plan
<1>2. Follows(10, 1)
  BY <1>1 DEF Follows
<1>3. Plan[10][1] = Nothing /\ Plan[10][2] = Nothing
  BY <1>1
<1> HIDE DEF FreeNull, FreeNullPlan
<1> QED BY <1>1, <1>2, <1>3 DEF FollowsPlan

(* Test 11, CallbacksInit.                                                 *)
LEMMA CallbacksInitFollows == FollowsPlan(11)
<1> USE DEF CallbacksInit, InitPlan
<1>1. Tests[11] = CallbacksInit /\ Plan[11] = InitPlan /\ Len(Tests[11]) = 2
  BY DEF Tests, Plan
<1>2. Follows(11, 1)
  BY <1>1 DEF Follows
<1>3. Follows(11, 2)
  BY <1>1 DEF Follows
<1>4. Plan[11][1] = Nothing /\ Plan[11][3] = Nothing
  BY <1>1
<1> HIDE DEF CallbacksInit, InitPlan
<1> QED BY <1>1, <1>2, <1>3, <1>4 DEF FollowsPlan

HIDE DEF Counts, AsksFor, Counted, Calls, Leads, Nothing, Raw, Object, Sizes, Alignments,
        Cmd, Malloc, Calloc, Realloc, AlignedMalloc, AlignedRealloc, FromNull, Rejected,
        Write, Verify, Zeroed, Aligned, Moves, Mallocs, Reallocs, Frees, Initialised, Free, AlignedFree

(* No test departs from its plan.                                          *)
LEMMA Scripts == Len(Tests) = 11 /\ \A t \in 1 .. 11 : FollowsPlan(t)
<1>1. Len(Tests) = 11
  BY DEF Tests
<1> QED BY <1>1, BasicMallocFreeFollows, BasicCallocFollows, BasicReallocFollows, CustomAllocatorFollows, AlignedMallocFreeFollows, AlignedReallocsFollows, DifferentPointerFollows, ReallocFromNullFollows, RejectedRequestsFollows, FreeNullFollows, CallbacksInitFollows
-----------------------------------------------------------------------------
(* Rounding down reaches the last multiple.                                *)
LEMMA RoundsDown ==
  ASSUME NEW x \in Nat, NEW n \in Nat \ {0}
  PROVE  /\ RoundDown(x, n) \in Nat
         /\ RoundDown(x, n) <= x /\ x - n < RoundDown(x, n)
         /\ RoundDown(x, n) % n = 0
<1>1. x % n \in 0 .. n - 1
  OBVIOUS
<1>2. x % n <= x
  OBVIOUS
<1>3. (x - (x % n)) % n = 0
  <2>1. x - (x % n) = n * (x \div n) /\ x \div n \in Nat
    OBVIOUS
  <2>2. ASSUME NEW k \in Nat PROVE (n * k) % n = 0
    OBVIOUS
  <2> QED BY <2>1, <2>2
<1> QED BY <1>1, <1>2, <1>3 DEF RoundDown

(* The requests that the tests mean to be granted pass the checks.         *)
LEMMA GoodRequest ==
  ASSUME NEW n \in Sizes, NEW a \in Alignments
  PROVE  /\ ~AlignmentBad(a) /\ ~SizeBad(n, a)
         /\ ExtraBytes(a) \in Nat /\ BlockSize(n, a) = n + ExtraBytes(a)
<1>1. Header = 24 /\ SizeMax \in Nat /\ SizeMax >= 4095
  BY LayoutAssumption, PlacesAssumption
<1>2. a \in 1 .. 256 /\ n \in 1 .. 2048 /\ a \in Nat \ {0}
  BY DEF Alignments, Sizes
<1>3. PowerOfTwo(a)
  <2>1. ASSUME NEW k \in 0 .. a, a = 2 ^ k PROVE PowerOfTwo(a)
    BY <2>1 DEF PowerOfTwo
  <2>2. CASE a = 1
    BY <2>1, <2>2, 2 ^ 0 = 1
  <2>3. CASE a = 2
    BY <2>1, <2>3, 2 ^ 1 = 2
  <2>4. CASE a = 4
    BY <2>1, <2>4, 2 ^ 2 = 4
  <2>5. CASE a = 8
    BY <2>1, <2>5, 2 ^ 3 = 8
  <2>6. CASE a = 16
    BY <2>1, <2>6, 2 ^ 4 = 16
  <2>7. CASE a = 32
    BY <2>1, <2>7, 2 ^ 5 = 32
  <2>8. CASE a = 64
    BY <2>1, <2>8, 2 ^ 6 = 64
  <2>9. CASE a = 128
    BY <2>1, <2>9, 2 ^ 7 = 128
  <2>10. CASE a = 256
    BY <2>1, <2>10, 2 ^ 8 = 256
  <2> QED BY <2>2, <2>3, <2>4, <2>5, <2>6, <2>7, <2>8, <2>9, <2>10 DEF Alignments
<1>4. ~AlignmentBad(a)
  BY <1>1, <1>2, <1>3 DEF AlignmentBad
<1>5. ~SizeBad(n, a) /\ ExtraBytes(a) \in Nat /\ n + ExtraBytes(a) \in 0 .. SizeMax
  BY <1>1, <1>2 DEF SizeBad, ExtraBytes
<1>6. BlockSize(n, a) = n + ExtraBytes(a)
  <2>1. \A k \in 0 .. SizeMax : k % (SizeMax + 1) = k
    BY <1>1
  <2> QED BY <1>5, <2>1 DEF BlockSize
<1> QED BY <1>4, <1>5, <1>6

(* An object of a test lies in its block, behind the header.               *)
LEMMA Layout ==
  ASSUME NEW n \in Sizes, NEW a \in Alignments, NEW u \in Places
  PROVE  /\ ExtraBytes(a) \in Nat /\ BlockSize(n, a) = n + ExtraBytes(a)
         /\ AlignedIn(u, a) \in Nat /\ AlignedIn(u, a) % a = 0
         /\ u + Header <= AlignedIn(u, a) /\ AlignedIn(u, a) - u <= ExtraBytes(a)
         /\ AlignedIn(u, a) <= SizeMax
         /\ u \in Nat \ {0} /\ a \in Nat \ {0}
<1>1. /\ Header = 24 /\ SizeMax \in Nat /\ SizeMax >= 4095
      /\ u \in Nat \ {0} /\ u + 2048 + 63 + Header <= SizeMax
  BY LayoutAssumption, PlacesAssumption
<1>2. a \in 1 .. 256 /\ n \in 1 .. 2048 /\ a \in Nat \ {0}
  BY DEF Alignments, Sizes
<1>3. ExtraBytes(a) \in Nat /\ BlockSize(n, a) = n + ExtraBytes(a)
  BY GoodRequest
<1>7. u + ExtraBytes(a) \in Nat
  BY <1>1, <1>3
<1>8. /\ AlignedIn(u, a) \in Nat /\ AlignedIn(u, a) <= u + ExtraBytes(a)
      /\ u + ExtraBytes(a) - a < AlignedIn(u, a) /\ AlignedIn(u, a) % a = 0
  <2>1. ASSUME NEW end \in Nat, end = u + ExtraBytes(a)
        PROVE  /\ AlignedIn(u, a) \in Nat /\ AlignedIn(u, a) <= end
               /\ end - a < AlignedIn(u, a) /\ AlignedIn(u, a) % a = 0
    <3>1. AlignedIn(u, a) = RoundDown(end, a)
      BY <2>1 DEF AlignedIn
    <3>2. a \in Nat \ {0}
      BY <1>2
    <3> QED BY <3>1, <3>2, RoundsDown
  <2>2. u \in Nat /\ ExtraBytes(a) \in Nat /\ a \in Nat
    BY <1>1, <1>2, <1>3
  <2> QED BY <2>1, <2>2
<1>9. ExtraBytes(a) = a - 1 + Header
  BY DEF ExtraBytes
<1> HIDE DEF ExtraBytes
<1> QED BY <1>1, <1>2, <1>3, <1>8, <1>9

(* A heap of one block that is given back is empty. *)
LEMMA Emptied ==
  ASSUME NEW h, NEW u, DOMAIN h = {u}
  PROVE  Without(h, u) = << >> /\ DOMAIN Without(h, u) = {}
BY DEF Without

(* In the running test, the next command and what the plan says of it.     *)
LEMMA Located ==
  ASSUME IInv, NEW ops, At(ops)
  PROVE  \E t \in 1 .. 11, s \in 1 .. 27 :
           /\ test = t /\ step = s /\ s <= Len(Tests[t])
           /\ cmd = Tests[t][s] /\ cmd.op \in ops
           /\ Follows(t, s)
           /\ Held(Plan[t][s]) /\ UserKnows(t, Plan[t][s], Counted(t, s))
<1>1. /\ Running /\ test \in 1 .. 12 /\ step <= Len(Tests[test])
      /\ step \in 1 .. Len(Tests[test]) + 1
      /\ Held(Plan[test][step])
      /\ UserKnows(test, Plan[test][step], Counted(test, step))
      /\ cmd.op \in ops
  BY DEF IInv, At
<1>2. test \in 1 .. 11
  BY <1>1, Scripts DEF Running
<1>3. Len(Tests[test]) \in 0 .. 27 /\ \A s \in 1 .. Len(Tests[test]) : Follows(test, s)
  BY <1>2, Scripts DEF FollowsPlan
<1>4. step \in 1 .. 27 /\ step \in 1 .. Len(Tests[test])
  <2>1. \A l \in 0 .. 27 : step \in 1 .. l + 1 /\ step <= l => step \in 1 .. 27 /\ step \in 1 .. l
    OBVIOUS
  <2> QED BY <1>1, <1>3, <2>1
<1> QED BY <1>1, <1>2, <1>3, <1>4 DEF cmd

(* The test goes on, with what the plan says.                              *)
LEMMA GoesOn ==
  ASSUME IInv, NEW t \in 1 .. 11, NEW s \in 1 .. 27,
         test = t, step = s, s <= Len(Tests[t]), Advance,
         Held(Plan[t][s + 1])', UserKnows(t, Plan[t][s + 1], Counted(t, s + 1))'
  PROVE  IInv'
<1>1. test' = t /\ step' = s + 1 /\ passed' = passed /\ starved' = starved
  BY DEF Advance
<1>2. Len(Tests[t]) \in 0 .. 27 /\ Running'
  BY <1>1, Scripts DEF FollowsPlan, Running
<1>3. step' \in 1 .. Len(Tests[test']) + 1
  BY <1>1, <1>2
<1> QED BY <1>1, <1>2, <1>3 DEF IInv

(* The test ends, with nothing left, and is counted.                       *)
LEMMA Ends ==
  ASSUME IInv, Running, EndTest, heap' = << >>,
         \/ passed' = passed + 1 /\ starved' = starved
         \/ passed' = passed /\ starved' = starved + 1
  PROVE  IInv'
<1>1. /\ test \in 1 .. 11 /\ passed \in Nat /\ starved \in Nat
      /\ passed + starved = test - 1
  BY Scripts DEF IInv, Running
<1>2. test' = test + 1 /\ step' = 1 /\ p' = Null /\ header' = NoHeader /\ user' = NoState
  BY DEF EndTest
<1>3. PICK t : t = test + 1
  OBVIOUS
<1>4. /\ test' = t /\ t \in 1 .. 12
      /\ passed' \in Nat /\ starved' \in Nat /\ passed' + starved' = t - 1
  <2>1. test' = t /\ t \in 1 .. 12
    BY <1>1, <1>2, <1>3
  <2>2. /\ passed \in Nat /\ starved + 1 \in Nat /\ passed + (starved + 1) = t - 1
        /\ passed + 1 \in Nat /\ starved \in Nat /\ passed + 1 + starved = t - 1
    BY <1>1, <1>3
  <2> QED BY <2>1, <2>2, Zenon
<1>5. Held(Nothing)'
  BY <1>2 DEF Held
<1>6. CASE t \in 1 .. 11
  <2>1. Plan[t][1] = Nothing /\ Len(Tests[t]) \in 0 .. 27
    BY <1>6, Scripts DEF FollowsPlan
  <2>2. UserKnows(t, Nothing, Counted(t, 1))'
    BY <1>2 DEF UserKnows, Counted, Calls, NoState, Nothing
  <2>3. 1 \in 1 .. Len(Tests[t]) + 1
    BY <2>1
  <2>4. Running'
    BY <1>4, <1>6, Scripts DEF Running
  <2>5. Held(Plan[t][1])' /\ UserKnows(t, Plan[t][1], Counted(t, 1))'
    BY <1>5, <2>1, <2>2
  <2> QED BY <1>2, <1>4, <2>3, <2>4, <2>5 DEF IInv
<1>7. CASE t = 12
  <2>1. ~Running'
    BY <1>4, <1>7, Scripts DEF Running
  <2> QED BY <1>2, <1>4, <1>5, <2>1 DEF IInv
<1> QED BY <1>4, <1>6, <1>7
-----------------------------------------------------------------------------
(* Sizes are positive. *)
LEMMA SizesAreNumbers == \A k \in Sizes : k \in Nat /\ 0 < k
BY DEF Sizes

(* What is held when nothing is, when a block is, and when an object is.   *)
LEMMA OfNothing ==
  ASSUME Held(Nothing)
  PROVE  p = Null /\ header = NoHeader /\ heap = << >> /\ DOMAIN heap = {}
<1>1. p = Null /\ header = NoHeader /\ heap = << >>
  BY DEF Held, Nothing
<1> QED BY <1>1

(* A block is held by its pointer. *)
LEMMA OfRaw ==
  ASSUME NEW e, Held(e), e.kind = "raw"
  PROVE  HoldsRaw(e) /\ p # Null
<1>1. HoldsRaw(e)
  BY DEF Held, Nothing
<1>2. p # Null
  BY <1>1, PlacesAssumption DEF HoldsRaw, Null
<1> QED BY <1>1, <1>2

(* An object is held by way of its header. *)
LEMMA OfObject ==
  ASSUME NEW e, Held(e), e.kind = "object"
  PROVE  HoldsObject(e) /\ p # Null /\ header # NoHeader
<1>1. HoldsObject(e)
  BY DEF Held, Nothing
<1>2. PICK u \in Places : u = header.pUnaligned
  BY <1>1 DEF HoldsObject
<1>3. p = AlignedIn(u, e.a) /\ e.n \in Sizes /\ e.a \in Alignments
  BY <1>1, <1>2 DEF HoldsObject
<1>4. p \in Nat /\ u + Header <= p /\ u \in Nat \ {0}
  BY <1>3, Layout
<1>5. p # Null
  BY <1>4, LayoutAssumption DEF Null
<1>6. header # NoHeader
  BY <1>2, <1>4 DEF NoHeader, Null
<1> QED BY <1>1, <1>5, <1>6

(* What does not touch the pointer and the heap leaves what is held.       *)
LEMMA HeldSame ==
  ASSUME NEW e, Held(e), UNCHANGED <<p, header, heap>>
  PROVE  Held(e)'
BY DEF Held, HoldsRaw, HoldsObject

(* Nothing is held once the only block is given back.                      *)
LEMMA NothingHeld ==
  ASSUME p' = Null, header' = NoHeader, heap' = << >>
  PROVE  Held(Nothing)'
BY DEF Held

(* Each test whose callbacks move blocks has aligned objects only.         *)
LEMMA MovingObjects ==
  ASSUME NEW s \in 1 .. 9
  PROVE  Plan[7][s].kind \in {"nothing", "object"}
<1>1. Plan[7] = MovingPlan
  BY DEF Plan
<1>2. s \in {1, 2, 3, 4, 5, 6, 7, 8, 9}
  OBVIOUS
<1> QED BY <1>1, <1>2 DEF MovingPlan, Nothing, Object
-----------------------------------------------------------------------------
(* A failing test gives back what it has.                                  *)
LEMMA CleanedUp ==
  ASSUME NEW e, Held(e), Cleanup,
         \/ cmd.onFail = "none" /\ e = Nothing
         \/ cmd.onFail = "free" /\ e.kind = "raw"
         \/ cmd.onFail = "afree" /\ e.kind = "object"
  PROVE  heap' = << >>
<1>1. CASE cmd.onFail = "none" /\ e = Nothing
  BY <1>1, OfNothing DEF Cleanup
<1>2. CASE cmd.onFail = "free" /\ e.kind = "raw"
  <2>1. DOMAIN heap = {p}
    BY <1>2, OfRaw DEF HoldsRaw
  <2>2. heap' = Without(heap, p)
    BY <1>2 DEF Cleanup
  <2> QED BY <2>1, <2>2, Emptied
<1>3. CASE cmd.onFail = "afree" /\ e.kind = "object"
  <2>1. DOMAIN heap = {header.pUnaligned}
    BY <1>3, OfObject DEF HoldsObject
  <2>2. heap' = Without(heap, header.pUnaligned)
    BY <1>3 DEF Cleanup
  <2> QED BY <2>1, <2>2, Emptied
<1> QED BY <1>1, <1>2, <1>3

(* The counts are numbers.                                                 *)
LEMMA CountsAreNumbers ==
  ASSUME NEW t, NEW s
  PROVE  LET k == Counted(t, s)
         IN  k.mallocs \in Nat /\ k.reallocs \in Nat /\ k.frees \in Nat
BY DEF Counted, Calls

(* The callbacks' counts after ns_malloc of n bytes.                       *)
LEMMA KnowsAfterMalloc ==
  ASSUME NEW t \in 1 .. 11, NEW e, NEW m \in Nat, NEW r \in Nat, NEW g \in Nat, NEW f, NEW n,
         test = t, UserKnows(t, e, Calls(m, r, g)), user' = UserAfterMalloc(n),
         f.kind = "object" => n = f.n + ExtraBytes(f.a)
  PROVE  UserKnows(t, f, Calls(m + 1, r, g))'
<1>1. PICK old, new, z, v : old = user /\ new = user' /\ z = user.size /\ v = user.moved
  OBVIOUS
<1>2. CASE t \in {4, 7}
  <2>1. old = [mallocs |-> m, reallocs |-> r, frees |-> g, size |-> z, moved |-> v]
    BY <1>1, <1>2 DEF UserKnows, Calls
  <2>2. t = 7 => (r > 0 => v)
    BY <1>1 DEF UserKnows, Calls
  <2>3. PICK sz : new = [old EXCEPT !.mallocs = @ + 1, !.size = sz] /\ (t = 7 => sz = n)
    <3>1. new = [old EXCEPT !.mallocs = @ + 1,
                            !.size = IF callbacks = "moving" THEN n ELSE @]
      BY <1>1, <1>2 DEF UserAfterMalloc, callbacks
    <3>2. t = 7 => callbacks = "moving"
      BY DEF callbacks
    <3> QED BY <3>1, <3>2, Zenon
  <2>4. new = [mallocs |-> m + 1, reallocs |-> r, frees |-> g, size |-> sz, moved |-> v]
    BY <2>1, <2>3
  <2>5. /\ new = [mallocs |-> m + 1, reallocs |-> r, frees |-> g,
                  size |-> new.size, moved |-> new.moved]
        /\ new.size = sz /\ new.moved = v
    BY <2>4
  <2> QED BY <1>1, <2>2, <2>3, <2>5 DEF UserKnows, Calls
<1>3. CASE t \notin {4, 7}
  BY <1>3 DEF UserKnows
<1> QED BY <1>2, <1>3

(* After ns_realloc, by which the callbacks that move blocks have moved it.*)
LEMMA KnowsAfterRealloc ==
  ASSUME NEW t \in 1 .. 11, NEW e, NEW m \in Nat, NEW r \in Nat, NEW g \in Nat, NEW f, NEW n,
         NEW u, NEW v,
         test = t, UserKnows(t, e, Calls(m, r, g)), user' = UserAfterRealloc(u, v, n),
         f.kind = "object" => n = f.n + ExtraBytes(f.a),
         t = 7 => v # u
  PROVE  UserKnows(t, f, Calls(m, r + 1, g))'
<1>1. PICK old, new, z, w : old = user /\ new = user' /\ z = user.size /\ w = user.moved
  OBVIOUS
<1>2. CASE t \in {4, 7}
  <2>1. old = [mallocs |-> m, reallocs |-> r, frees |-> g, size |-> z, moved |-> w]
    BY <1>1, <1>2 DEF UserKnows, Calls
  <2>2. PICK sz, mv : /\ new = [old EXCEPT !.reallocs = @ + 1, !.size = sz, !.moved = mv]
                      /\ t = 7 => sz = n /\ mv = TRUE
    <3>1. new = [old EXCEPT !.reallocs = @ + 1,
                            !.size = IF callbacks = "moving" THEN n ELSE @,
                            !.moved = IF callbacks = "moving" THEN v # u ELSE @]
      BY <1>1, <1>2 DEF UserAfterRealloc, callbacks
    <3>2. t = 7 => callbacks = "moving" /\ (v # u) = TRUE
      BY DEF callbacks
    <3> QED BY <3>1, <3>2, Zenon
  <2>3. new = [mallocs |-> m, reallocs |-> r + 1, frees |-> g, size |-> sz, moved |-> mv]
    BY <2>1, <2>2
  <2>4. /\ new = [mallocs |-> m, reallocs |-> r + 1, frees |-> g,
                  size |-> new.size, moved |-> new.moved]
        /\ new.size = sz /\ new.moved = mv
    BY <2>3
  <2> QED BY <1>1, <2>2, <2>4 DEF UserKnows, Calls
<1>3. CASE t \notin {4, 7}
  BY <1>3 DEF UserKnows
<1> QED BY <1>2, <1>3

(* After ns_free, with which nothing is left whose size they could know.   *)
LEMMA KnowsAfterFree ==
  ASSUME NEW t \in 1 .. 11, NEW e, NEW m \in Nat, NEW r \in Nat, NEW g \in Nat,
         test = t, UserKnows(t, e, Calls(m, r, g)), user' = UserAfterFree
  PROVE  UserKnows(t, Nothing, Calls(m, r, g + 1))'
<1>1. PICK old, new, z, v : old = user /\ new = user' /\ z = user.size /\ v = user.moved
  OBVIOUS
<1>2. CASE t \in {4, 7}
  <2>1. old = [mallocs |-> m, reallocs |-> r, frees |-> g, size |-> z, moved |-> v]
    BY <1>1, <1>2 DEF UserKnows, Calls
  <2>2. t = 7 => (r > 0 => v)
    BY <1>1 DEF UserKnows, Calls
  <2>3. new = [old EXCEPT !.frees = @ + 1]
    BY <1>1, <1>2 DEF UserAfterFree, callbacks
  <2>4. new = [mallocs |-> m, reallocs |-> r, frees |-> g + 1,
               size |-> z, moved |-> v]
    BY <2>1, <2>3
  <2>5. /\ new = [mallocs |-> m, reallocs |-> r, frees |-> g + 1,
                  size |-> new.size, moved |-> new.moved]
        /\ new.moved = v
    BY <2>4
  <2> QED BY <1>1, <2>2, <2>5 DEF UserKnows, Calls, Nothing
<1>3. CASE t \notin {4, 7}
  BY <1>3 DEF UserKnows
<1> QED BY <1>2, <1>3

(* A command that calls no function of the callbacks.                      *)
LEMMA KnowsSame ==
  ASSUME NEW t \in 1 .. 11, NEW e, NEW k, NEW f,
         UserKnows(t, e, k), user' = user,
         f.kind = "object" => e.kind = "object" /\ f.n = e.n /\ f.a = e.a
  PROVE  UserKnows(t, f, k)'
BY DEF UserKnows
-----------------------------------------------------------------------------
(* ns_malloc and ns_calloc *)
LEMMA MallocStep == ASSUME IInv, NsMalloc PROVE IInv'
<1>1. PICK t \in 1 .. 11, s \in 1 .. 27 :
        /\ test = t /\ step = s /\ s <= Len(Tests[t])
        /\ cmd = Tests[t][s] /\ cmd.op \in {"malloc", "calloc"}
        /\ Follows(t, s)
        /\ Held(Plan[t][s]) /\ UserKnows(t, Plan[t][s], Counted(t, s))
  BY Located DEF NsMalloc
<1>2. /\ cmd.n \in Sizes /\ Plan[t][s] = Nothing
      /\ \/ cmd.op = "malloc" /\ Plan[t][s + 1] = Raw(cmd.n, 0)
         \/ cmd.op = "calloc" /\ Plan[t][s + 1] = Raw(cmd.n, cmd.n)
  BY <1>1 DEF Follows, Leads
<1>3. PICK u \in Places :
        /\ p' = u
        /\ heap' = With(heap, u, IF cmd.op = "calloc" THEN Block(cmd.n, "zero", 0, cmd.n)
                                                     ELSE Block(cmd.n, "junk", 0, 0))
  BY DEF NsMalloc
<1>4. header = NoHeader /\ DOMAIN heap = {}
  BY <1>1, <1>2, OfNothing
<1>5. /\ DOMAIN heap' = {u}
      /\ heap'[u] = IF cmd.op = "calloc" THEN Block(cmd.n, "zero", 0, cmd.n)
                                         ELSE Block(cmd.n, "junk", 0, 0)
  <2>1. PICK h, b : /\ h = heap
                    /\ b = IF cmd.op = "calloc" THEN Block(cmd.n, "zero", 0, cmd.n)
                                                ELSE Block(cmd.n, "junk", 0, 0)
    OBVIOUS
  <2>2. heap' = With(h, u, b)
    BY <1>3, <2>1
  <2>3. DOMAIN With(h, u, b) = {u} /\ With(h, u, b)[u] = b
    <3>1. DOMAIN h = {}
      BY <1>4, <2>1
    <3> QED BY <3>1 DEF With
  <2> QED BY <2>1, <2>2, <2>3
<1>6. header' = NoHeader /\ user' = UserAfterMalloc(cmd.n) /\ Advance
  BY <1>4 DEF NsMalloc
<1>7. PICK n \in Sizes : n = cmd.n
  BY <1>2
<1>8. n \in Nat /\ 0 \in 0 .. n /\ n \in 0 .. n
  BY DEF Sizes
<1>9. Held(Plan[t][s + 1])'
  <2>1. CASE cmd.op = "malloc"
    <3>1. heap'[u] = Block(n, "junk", 0, 0) /\ Plan[t][s + 1] = Raw(n, 0)
      BY <1>2, <1>5, <1>7, <2>1
    <3>2. HoldsRaw(Raw(n, 0))'
      BY <1>3, <1>5, <1>6, <1>8, <3>1 DEF HoldsRaw, Raw, IsBlock, Block
    <3> QED BY <3>1, <3>2 DEF Held, Raw
  <2>2. CASE cmd.op = "calloc"
    <3>1. heap'[u] = Block(n, "zero", 0, n) /\ Plan[t][s + 1] = Raw(n, n)
      BY <1>2, <1>5, <1>7, <2>2
    <3>2. HoldsRaw(Raw(n, n))'
      BY <1>3, <1>5, <1>6, <1>8, <3>1 DEF HoldsRaw, Raw, IsBlock, Block
    <3> QED BY <3>1, <3>2 DEF Held, Raw
  <2> QED BY <1>2, <2>1, <2>2
<1>10. UserKnows(t, Plan[t][s + 1], Counted(t, s + 1))'
  <2>1. Plan[t][s + 1].kind # "object"
    BY <1>2 DEF Raw
  <2>2. t \in {4, 7} =>
          Counted(t, s + 1) = Calls(Counted(t, s).mallocs + 1, Counted(t, s).reallocs,
                                    Counted(t, s).frees)
    BY <1>1 DEF Follows, Counts
  <2>3. UserKnows(t, Plan[t][s], Calls(Counted(t, s).mallocs, Counted(t, s).reallocs,
                                       Counted(t, s).frees))
    BY <1>1 DEF UserKnows, Calls
  <2>4. CASE t \in {4, 7}
    BY <1>1, <1>6, <2>1, <2>2, <2>3, <2>4, CountsAreNumbers, KnowsAfterMalloc
  <2>5. CASE t \notin {4, 7}
    BY <2>5 DEF UserKnows
  <2> QED BY <2>4, <2>5
<1> QED BY <1>1, <1>6, <1>9, <1>10, GoesOn

(* ns_realloc *)
LEMMA ReallocStep == ASSUME IInv, NsRealloc PROVE IInv'
<1>1. PICK t \in 1 .. 11, s \in 1 .. 27 :
        /\ test = t /\ step = s /\ s <= Len(Tests[t])
        /\ cmd = Tests[t][s] /\ cmd.op \in {"realloc"}
        /\ Follows(t, s)
        /\ Held(Plan[t][s]) /\ UserKnows(t, Plan[t][s], Counted(t, s))
  BY Located DEF NsRealloc
<1>2. PICK n \in Sizes : /\ n = cmd.n /\ Plan[t][s].kind = "raw"
                         /\ Plan[t][s + 1] = Raw(n, 0)
  BY <1>1 DEF Follows, Leads
<1>3. PICK v \in NewPlaces(p) :
        /\ p' = v
        /\ heap' = With(Without(heap, p), v, Resized(p, n))
        /\ user' = UserAfterRealloc(p, v, n)
  BY <1>2 DEF NsRealloc
<1>4. HoldsRaw(Plan[t][s])
  BY <1>1, <1>2, OfRaw
<1>5. t # 7
  <2>1. t = 7 => s \in 1 .. 9
    BY <1>1 DEF Tests, DifferentPointer
  <2> QED BY <1>2, <2>1, MovingObjects
<1>6. v \in Places
  BY <1>4 DEF NewPlaces, HoldsRaw
<1>7. DOMAIN heap' = {v} /\ heap'[v] = Resized(p, n)
  <2>1. DOMAIN Without(heap, p) = {}
    BY <1>4, Emptied DEF HoldsRaw
  <2>2. PICK h, b : h = Without(heap, p) /\ b = Resized(p, n)
    OBVIOUS
  <2>3. heap' = With(h, v, b)
    BY <1>3, <2>2
  <2>4. DOMAIN With(h, v, b) = {v} /\ With(h, v, b)[v] = b
    <3>1. DOMAIN h = {}
      BY <2>1, <2>2
    <3> QED BY <3>1 DEF With
  <2> QED BY <2>2, <2>3, <2>4
<1>8. header' = NoHeader /\ Advance
  BY <1>4 DEF NsRealloc, HoldsRaw
<1>9. Held(Plan[t][s + 1])'
  <2>0. PICK m \in Sizes : m = Plan[t][s].n /\ IsBlock(heap[p], m) /\ heap[p].at = 0
    BY <1>4 DEF HoldsRaw
  <2>1. PICK b : m = Plan[t][s].n /\ b = heap[p] /\ IsBlock(b, m) /\ b.at = 0
    BY <2>0
  <2>2. PICK len \in Nat : b = Block(m, b.what, 0, len) /\ len <= m
    <3>1. b.len \in Nat /\ b.len <= m /\ b = Block(m, b.what, 0, b.len)
      <4>1. b = Block(m, b.what, b.at, b.len) /\ b.len \in Nat /\ b.at + b.len <= m
        BY <2>1 DEF IsBlock
      <4> QED BY <2>1, <4>1 DEF Sizes
    <3> QED BY <3>1
  <2>3. Resized(p, n) = [Cut(b, Least(m, n)) EXCEPT !.size = n]
    BY <1>1, <1>5, <2>1, <2>2 DEF Resized, callbacks, Block
  <2>4. Least(m, n) \in Nat \ {0} /\ Least(m, n) <= n
    BY DEF Least, Sizes
  <2>5. PICK len2 \in Nat : len2 = Least(len, Least(m, n)) /\ len2 <= n
    BY <2>4 DEF Least, Sizes
  <2>6. Resized(p, n) = Block(n, b.what, 0, len2)
    <3>1. PICK what, k, c : what = b.what /\ k = Least(m, n) /\ c = Cut(b, Least(m, n))
      OBVIOUS
    <3>2. b = [size |-> m, what |-> what, at |-> 0, len |-> len]
      BY <2>2, <3>1 DEF Block
    <3>3. c = [b EXCEPT !.len = len2]
      BY <2>4, <2>5, <3>1, <3>2 DEF Cut
    <3>4. c = [size |-> m, what |-> what, at |-> 0, len |-> len2]
      BY <3>2, <3>3
    <3>5. PICK r : r = Resized(p, n) /\ r = [c EXCEPT !.size = n]
      BY <2>3, <3>1
    <3>6. r = [size |-> n, what |-> what, at |-> 0, len |-> len2]
      BY <3>4, <3>5
    <3> QED BY <3>1, <3>5, <3>6 DEF Block
  <2>7. IsBlock(Resized(p, n), n) /\ Resized(p, n).at = 0
    BY <2>5, <2>6 DEF IsBlock, Block, Sizes
  <2>8. HoldsRaw(Raw(n, 0))'
    BY <1>3, <1>6, <1>7, <1>8, <2>7 DEF HoldsRaw, Raw, IsBlock, Sizes
  <2> QED BY <1>2, <2>8 DEF Held, Raw
<1>10. UserKnows(t, Plan[t][s + 1], Counted(t, s + 1))'
  <2>1. Plan[t][s + 1].kind # "object"
    BY <1>2 DEF Raw
  <2>2. t \in {4, 7} =>
          Counted(t, s + 1) = Calls(Counted(t, s).mallocs, Counted(t, s).reallocs + 1,
                                    Counted(t, s).frees)
    BY <1>1 DEF Follows, Counts
  <2>3. UserKnows(t, Plan[t][s], Calls(Counted(t, s).mallocs, Counted(t, s).reallocs,
                                       Counted(t, s).frees))
    BY <1>1 DEF UserKnows, Calls
  <2>4. CASE t \in {4, 7}
    BY <1>1, <1>3, <1>5, <2>1, <2>2, <2>3, <2>4, CountsAreNumbers, KnowsAfterRealloc
  <2>5. CASE t \notin {4, 7}
    BY <2>5 DEF UserKnows
  <2> QED BY <2>4, <2>5
<1> QED BY <1>1, <1>8, <1>9, <1>10, GoesOn

(* ns_free *)
LEMMA FreeStep == ASSUME IInv, NsFree PROVE IInv'
<1>1. PICK t \in 1 .. 11, s \in 1 .. 27 :
        /\ test = t /\ step = s /\ s <= Len(Tests[t])
        /\ cmd = Tests[t][s] /\ cmd.op \in {"free"}
        /\ Follows(t, s)
        /\ Held(Plan[t][s]) /\ UserKnows(t, Plan[t][s], Counted(t, s))
  BY Located DEF NsFree
<1>2. Plan[t][s].kind # "object" /\ Plan[t][s + 1] = Nothing
  BY <1>1 DEF Follows, Leads
<1>3. p' = Null /\ header' = header /\ Advance
  BY DEF NsFree
<1>4. /\ Held(Nothing)'
      /\ Plan[t][s].kind # "nothing" => user' = UserAfterFree
  <2>1. CASE Plan[t][s].kind = "raw"
    <3>1. p # Null /\ header = NoHeader /\ DOMAIN heap = {p}
      BY <1>1, <2>1, OfRaw DEF HoldsRaw
    <3>2. heap' = Without(heap, p) /\ user' = UserAfterFree
      BY <3>1 DEF NsFree
    <3>3. heap' = << >>
      BY <3>1, <3>2, Emptied
    <3> QED BY <1>3, <3>1, <3>2, <3>3, NothingHeld
  <2>2. CASE Plan[t][s].kind # "raw"
    <3>1. Plan[t][s] = Nothing
      BY <1>1, <1>2, <2>2 DEF Held
    <3>2. p = Null /\ header = NoHeader /\ heap = << >>
      BY <1>1, <3>1, OfNothing
    <3>3. heap' = << >>
      BY <3>2 DEF NsFree
    <3> QED BY <1>3, <3>1, <3>2, <3>3, NothingHeld DEF Nothing
  <2> QED BY <2>1, <2>2
<1>5. UserKnows(t, Nothing, Counted(t, s + 1))'
  <2>1. t \in {4, 7} =>
          /\ Plan[t][s].kind # "nothing"
          /\ Counted(t, s + 1) = Calls(Counted(t, s).mallocs, Counted(t, s).reallocs,
                                       Counted(t, s).frees + 1)
    BY <1>1 DEF Follows, Counts
  <2>2. UserKnows(t, Plan[t][s], Calls(Counted(t, s).mallocs, Counted(t, s).reallocs,
                                       Counted(t, s).frees))
    BY <1>1 DEF UserKnows, Calls
  <2>3. CASE t \in {4, 7}
    BY <1>1, <1>4, <2>1, <2>2, <2>3, CountsAreNumbers, KnowsAfterFree
  <2>4. CASE t \notin {4, 7}
    BY <2>4 DEF UserKnows
  <2> QED BY <2>3, <2>4
<1> QED BY <1>1, <1>2, <1>3, <1>4, <1>5, GoesOn

(* A good request is not turned down, whether nothing is held or an object *)
(* of the same alignment.                                                  *)
LEMMA NotBad ==
  ASSUME NEW e, Held(e), cmd.n \in Sizes, cmd.a \in Alignments,
         e = Nothing \/ (e.kind = "object" /\ e.a = cmd.a)
  PROVE  ~RequestBad
<1>1. CASE e = Nothing
  <2>1. p = Null
    BY <1>1, OfNothing
  <2>2. ~AlignmentBad(cmd.a) /\ ~SizeBad(cmd.n, cmd.a)
    BY GoodRequest
  <2> QED BY <2>1, <2>2 DEF RequestBad
<1>2. CASE e.kind = "object" /\ e.a = cmd.a
  <2>1. PICK u \in Places :
          u = header.pUnaligned /\ p = AlignedIn(u, cmd.a) /\ header.alignment = cmd.a
    BY <1>2, OfObject DEF HoldsObject
  <2>2. p - u <= ExtraBytes(cmd.a) /\ p \in Nat /\ u \in Nat /\ ExtraBytes(cmd.a) \in Nat
    BY <2>1, Layout
  <2>3. ~AlignmentBad(cmd.a) /\ ~SizeBad(cmd.n, cmd.a)
    BY GoodRequest
  <2> QED BY <2>1, <2>2, <2>3 DEF RequestBad
<1> QED BY <1>1, <1>2

(* ns_aligned_malloc *)
LEMMA AlignedMallocStep == ASSUME IInv, NsAlignedMalloc PROVE IInv'
<1>1. PICK t \in 1 .. 11, s \in 1 .. 27 :
        /\ test = t /\ step = s /\ s <= Len(Tests[t])
        /\ cmd = Tests[t][s] /\ cmd.op \in {"aligned_malloc"}
        /\ Follows(t, s)
        /\ Held(Plan[t][s]) /\ UserKnows(t, Plan[t][s], Counted(t, s))
  BY Located DEF NsAlignedMalloc
<1>2. PICK n \in Sizes, a \in Alignments :
        n = cmd.n /\ a = cmd.a /\ Plan[t][s] = Nothing /\ Plan[t][s + 1] = Object(n, a, 0)
  BY <1>1 DEF Follows, Leads
<1>3. ~RequestBad
  BY <1>1, <1>2, NotBad
<1>4. PICK u \in Places :
        /\ p' = AlignedIn(u, a)
        /\ header' = [pUnaligned |-> u, size |-> n, alignment |-> a]
        /\ heap' = With(heap, u, Block(BlockSize(n, a), "junk", 0, 0))
  BY <1>2, <1>3 DEF NsAlignedMalloc, HeaderOf
<1>5. user' = UserAfterMalloc(BlockSize(n, a)) /\ Advance
  BY <1>2, <1>3 DEF NsAlignedMalloc
<1>6. PICK x \in Nat : x = ExtraBytes(a) /\ BlockSize(n, a) = n + x
  BY Layout
<1>7. DOMAIN heap' = {u} /\ heap'[u] = Block(n + x, "junk", 0, 0)
  <2>1. DOMAIN heap = {}
    BY <1>1, <1>2, OfNothing
  <2>2. PICK h, b : h = heap /\ b = Block(n + x, "junk", 0, 0)
    OBVIOUS
  <2>3. heap' = With(h, u, b)
    BY <1>4, <1>6, <2>2
  <2>4. DOMAIN With(h, u, b) = {u} /\ With(h, u, b)[u] = b
    BY <2>1, <2>2 DEF With
  <2> QED BY <2>2, <2>3, <2>4
<1>8. Held(Plan[t][s + 1])'
  <2>1. IsBlock(heap'[u], n + x)
    BY <1>7 DEF IsBlock, Block, Sizes
  <2>2. 0 \in 0 .. n
    BY DEF Sizes
  <2>3. HoldsObject(Object(n, a, 0))'
    BY <1>4, <1>6, <1>7, <2>1, <2>2 DEF HoldsObject, Object, IsBlock
  <2> QED BY <1>2, <2>3 DEF Held, Object
<1>9. UserKnows(t, Plan[t][s + 1], Counted(t, s + 1))'
  <2>1. BlockSize(n, a) = Plan[t][s + 1].n + ExtraBytes(Plan[t][s + 1].a)
    BY <1>2, <1>6 DEF Object
  <2>2. t \in {4, 7} =>
          Counted(t, s + 1) = Calls(Counted(t, s).mallocs + 1, Counted(t, s).reallocs,
                                    Counted(t, s).frees)
    BY <1>1 DEF Follows, Counts
  <2>3. UserKnows(t, Plan[t][s], Calls(Counted(t, s).mallocs, Counted(t, s).reallocs,
                                       Counted(t, s).frees))
    BY <1>1 DEF UserKnows, Calls
  <2>4. CASE t \in {4, 7}
    BY <1>1, <1>5, <2>1, <2>2, <2>3, <2>4, CountsAreNumbers, KnowsAfterMalloc
  <2>5. CASE t \notin {4, 7}
    BY <2>5 DEF UserKnows
  <2> QED BY <2>4, <2>5
<1> QED BY <1>1, <1>5, <1>8, <1>9, GoesOn

(* The fields of a block. *)
LEMMA BlockFields ==
  ASSUME NEW z, NEW what, NEW at, NEW len
  PROVE  LET b == Block(z, what, at, len)
         IN  b.size = z /\ b.what = what /\ b.at = at /\ b.len = len
BY DEF Block

(* A block that gets another size. *)
LEMMA BlockResized ==
  ASSUME NEW z, NEW what, NEW at, NEW len, NEW y
  PROVE  [Block(z, what, at, len) EXCEPT !.size = y] = Block(y, what, at, len)
<1>1. PICK b, c : b = Block(z, what, at, len) /\ c = [b EXCEPT !.size = y]
  OBVIOUS
<1>2. c = Block(y, what, at, len)
  BY <1>1 DEF Block
<1> QED BY <1>1, <1>2

(* A block of which less is known. *)
LEMMA BlockCut ==
  ASSUME NEW z, NEW what, NEW at, NEW len, NEW k
  PROVE  [Block(z, what, at, len) EXCEPT !.len = k] = Block(z, what, at, k)
<1>1. PICK b, c : b = Block(z, what, at, len) /\ c = [b EXCEPT !.len = k]
  OBVIOUS
<1>2. c = Block(z, what, at, k)
  BY <1>1 DEF Block
<1> QED BY <1>1, <1>2

(* ns_aligned_realloc *)
LEMMA AlignedReallocStep == ASSUME IInv, NsAlignedRealloc PROVE IInv'
<1>1. PICK t \in 1 .. 11, s \in 1 .. 27 :
        /\ test = t /\ step = s /\ s <= Len(Tests[t])
        /\ cmd = Tests[t][s] /\ cmd.op \in {"aligned_realloc"}
        /\ Follows(t, s)
        /\ Held(Plan[t][s]) /\ UserKnows(t, Plan[t][s], Counted(t, s))
  BY Located DEF NsAlignedRealloc
<1>2. /\ Plan[t][s].kind = "object" /\ Plan[t][s].kept = Plan[t][s].n
      /\ Plan[t][s].n <= cmd.n /\ cmd.n \in Sizes /\ Plan[t][s].a = cmd.a
      /\ Plan[t][s + 1] = Object(cmd.n, cmd.a, Plan[t][s].n)
  BY <1>1 DEF Follows, Leads
<1>3. HoldsObject(Plan[t][s])
  BY <1>1, <1>2, OfObject
<1>4. PICK m \in Sizes, n \in Sizes, a \in Alignments, u \in Places :
        /\ m = Plan[t][s].n /\ n = cmd.n /\ a = cmd.a /\ u = header.pUnaligned
        /\ m <= n /\ m \in Nat /\ n \in Nat /\ 0 < m
  <2>1. Plan[t][s].n \in Sizes /\ Plan[t][s].a \in Alignments /\ header.pUnaligned \in Places
    BY <1>3 DEF HoldsObject
  <2> QED BY <1>2, <2>1, SizesAreNumbers
<1>5. /\ header = [pUnaligned |-> u, size |-> m, alignment |-> a]
      /\ p = AlignedIn(u, a) /\ DOMAIN heap = {u} /\ IsBlock(heap[u], m + ExtraBytes(a))
      /\ heap[u].what = "written" /\ heap[u].at = p - u /\ heap[u].len >= m
  <2>1. Plan[t][s].kept > 0
    BY <1>2, <1>4
  <2> QED BY <1>2, <1>3, <1>4, <2>1 DEF HoldsObject
<1>6. ~RequestBad
  BY <1>1, <1>2, <1>4, NotBad
<1>7. PICK v \in NewPlaces(u) :
        /\ p' = AlignedIn(v, a)
        /\ header' = [pUnaligned |-> v, size |-> n, alignment |-> a]
        /\ heap' = With(Without(heap, u), v,
                        MovedTo(Resized(u, BlockSize(n, a)), p - u, AlignedIn(v, a) - v,
                                Least(m, n)))
        /\ user' = UserAfterRealloc(u, v, BlockSize(n, a))
        /\ Advance
  BY <1>4, <1>5, <1>6 DEF NsAlignedRealloc, HeaderOf
<1>8. v \in Places
  BY DEF NewPlaces
<1>9. PICK x \in Nat : x = ExtraBytes(a) /\ BlockSize(n, a) = n + x
  BY Layout
<1>10. PICK from \in 0 .. x, to \in 0 .. x : from = p - u /\ to = AlignedIn(v, a) - v
  <2>1. /\ u + Header <= p /\ p - u <= x /\ p \in Nat /\ u \in Nat
    BY <1>5, <1>9, Layout
  <2>2. /\ v + Header <= AlignedIn(v, a) /\ AlignedIn(v, a) - v <= x
        /\ AlignedIn(v, a) \in Nat /\ v \in Nat
    BY <1>8, <1>9, Layout
  <2>3. p - u \in 0 .. x
    BY <2>1, LayoutAssumption
  <2>4. AlignedIn(v, a) - v \in 0 .. x
    BY <2>2, LayoutAssumption
  <2> QED BY <2>3, <2>4
<1>11. PICK b, len :
         /\ b = heap[u] /\ b = Block(m + x, "written", from, len)
         /\ len \in Nat /\ m <= len /\ from + len <= m + x
  <2>1. PICK b, len : b = heap[u] /\ len = b.len
    OBVIOUS
  <2>2. b = Block(m + x, "written", from, len)
    BY <1>5, <1>9, <1>10, <2>1 DEF IsBlock
  <2>3. len \in Nat /\ b.at = from /\ from + len <= m + x /\ m <= len
    BY <1>4, <1>5, <1>9, <1>10, <2>1 DEF IsBlock
  <2> QED BY <2>1, <2>2, <2>3
<1>12. PICK y, z : y = n + x /\ z = m + x
  OBVIOUS
<1>13. Resized(u, y) = Block(y, "written", from, len)
  <2>1. Least(z, y) = z
    BY <1>4, <1>12 DEF Least
  <2>2. callbacks = "moving" => user.size = z
    BY <1>1, <1>2, <1>4, <1>9, <1>12 DEF callbacks, UserKnows
  <2>3. b = Block(z, "written", from, len) /\ b.size = z /\ b.at = from /\ b.len = len
    BY <1>11, <1>12, BlockFields
  <2>4. Resized(u, y) = [Cut(b, z) EXCEPT !.size = y]
    BY <1>11, <2>1, <2>2, <2>3 DEF Resized
  <2>5. Least(len, z - from) = len /\ z > from
    BY <1>4, <1>11, <1>12 DEF Least
  <2>6. Cut(b, z) = [b EXCEPT !.len = len]
    BY <2>3, <2>5 DEF Cut
  <2>7. Cut(b, z) = b
    BY <2>3, <2>6, BlockCut
  <2> QED BY <2>3, <2>4, <2>7, BlockResized
<1>14. PICK c, d : c = Resized(u, y) /\ d = MovedTo(c, from, to, m)
  OBVIOUS
<1>15. PICK k : /\ d = Block(y, "written", to, k)
                /\ k \in Nat /\ m <= k /\ to + k <= n + x
  <2>1. c = Block(y, "written", from, len) /\ c.at = from /\ c.len = len
    BY <1>13, <1>14, BlockFields
  <2>2. CASE from = to
    BY <1>4, <1>11, <1>14, <2>1, <2>2 DEF MovedTo
  <2>3. CASE from # to
    <3>1. Least(len, m) = m
      BY <1>4, <1>11 DEF Least
    <3>2. d = [c EXCEPT !.at = to, !.len = m]
      BY <1>14, <2>1, <2>3, <3>1 DEF MovedTo
    <3>3. d = Block(y, "written", to, m)
      BY <2>1, <3>2 DEF Block
    <3>4. m \in Nat /\ m <= m /\ to + m <= n + x
      BY <1>4
    <3> QED BY <3>3, <3>4
  <2> QED BY <2>2, <2>3
<1>16. DOMAIN heap' = {v} /\ heap'[v] = d
  <2>1. Least(m, n) = m
    BY <1>4 DEF Least
  <2>2. DOMAIN Without(heap, u) = {}
    BY <1>5, Emptied
  <2>3. PICK h : h = Without(heap, u)
    OBVIOUS
  <2>4. heap' = With(h, v, d)
    BY <1>7, <1>9, <1>10, <1>12, <1>14, <2>1, <2>3
  <2>5. DOMAIN With(h, v, d) = {v} /\ With(h, v, d)[v] = d
    BY <2>2, <2>3 DEF With
  <2> QED BY <2>4, <2>5
<1>17. Held(Plan[t][s + 1])'
  <2>1. m \in 0 .. n
    BY <1>4 DEF Sizes
  <2>2. d.what = "written" /\ d.at = to /\ d.len = k
    BY <1>15, BlockFields
  <2>3. IsBlock(d, n + x) /\ d.len >= m
    BY <1>4, <1>12, <1>15, <2>2 DEF IsBlock
  <2>4. HoldsObject(Object(n, a, m))'
    BY <1>7, <1>8, <1>9, <1>10, <1>16, <2>1, <2>2, <2>3 DEF HoldsObject, Object
  <2> QED BY <1>2, <1>4, <2>4 DEF Held, Object
<1>18. UserKnows(t, Plan[t][s + 1], Counted(t, s + 1))'
  <2>1. BlockSize(n, a) = Plan[t][s + 1].n + ExtraBytes(Plan[t][s + 1].a)
    BY <1>2, <1>4, <1>9 DEF Object
  <2>2. t \in {4, 7} =>
          Counted(t, s + 1) = Calls(Counted(t, s).mallocs, Counted(t, s).reallocs + 1,
                                    Counted(t, s).frees)
    BY <1>1 DEF Follows, Counts
  <2>3. UserKnows(t, Plan[t][s], Calls(Counted(t, s).mallocs, Counted(t, s).reallocs,
                                       Counted(t, s).frees))
    BY <1>1 DEF UserKnows, Calls
  <2>4. t = 7 => v # u
    BY <1>1, <1>5 DEF NewPlaces, callbacks
  <2>5. CASE t \in {4, 7}
    BY <1>1, <1>7, <2>1, <2>2, <2>3, <2>4, <2>5, CountsAreNumbers, KnowsAfterRealloc
  <2>6. CASE t \notin {4, 7}
    BY <2>6 DEF UserKnows
  <2> QED BY <2>5, <2>6
<1> QED BY <1>1, <1>7, <1>17, <1>18, GoesOn

(* ns_aligned_free *)
LEMMA AlignedFreeStep == ASSUME IInv, NsAlignedFree PROVE IInv'
<1>1. PICK t \in 1 .. 11, s \in 1 .. 27 :
        /\ test = t /\ step = s /\ s <= Len(Tests[t])
        /\ cmd = Tests[t][s] /\ cmd.op \in {"afree"}
        /\ Follows(t, s)
        /\ Held(Plan[t][s]) /\ UserKnows(t, Plan[t][s], Counted(t, s))
  BY Located DEF NsAlignedFree
<1>2. Plan[t][s].kind = "object" /\ Plan[t][s + 1] = Nothing
  BY <1>1 DEF Follows, Leads
<1>3. /\ p' = Null /\ header' = NoHeader /\ user' = UserAfterFree /\ Advance
      /\ heap' = Without(heap, header.pUnaligned)
  BY DEF NsAlignedFree
<1>4. Held(Nothing)'
  <2>1. DOMAIN heap = {header.pUnaligned}
    BY <1>1, <1>2, OfObject DEF HoldsObject
  <2>2. heap' = << >>
    BY <1>3, <2>1, Emptied
  <2> QED BY <1>3, <2>2, NothingHeld
<1>5. UserKnows(t, Nothing, Counted(t, s + 1))'
  <2>1. t \in {4, 7} =>
          Counted(t, s + 1) = Calls(Counted(t, s).mallocs, Counted(t, s).reallocs,
                                    Counted(t, s).frees + 1)
    BY <1>1 DEF Follows, Counts
  <2>2. UserKnows(t, Plan[t][s], Calls(Counted(t, s).mallocs, Counted(t, s).reallocs,
                                       Counted(t, s).frees))
    BY <1>1 DEF UserKnows, Calls
  <2>3. CASE t \in {4, 7}
    BY <1>1, <1>3, <2>1, <2>2, <2>3, CountsAreNumbers, KnowsAfterFree
  <2>4. CASE t \notin {4, 7}
    BY <2>4 DEF UserKnows
  <2> QED BY <2>3, <2>4
<1> QED BY <1>1, <1>2, <1>3, <1>4, <1>5, GoesOn

(* The test writes into its object, which it holds then as before. *)
LEMMA WriteStep == ASSUME IInv, WriteObject PROVE IInv'
<1>1. PICK t \in 1 .. 11, s \in 1 .. 27 :
        /\ test = t /\ step = s /\ s <= Len(Tests[t])
        /\ cmd = Tests[t][s] /\ cmd.op \in {"write"}
        /\ Follows(t, s)
        /\ Held(Plan[t][s]) /\ UserKnows(t, Plan[t][s], Counted(t, s))
  BY Located DEF WriteObject
<1>2. PICK n, a : /\ n = Plan[t][s].n /\ a = Plan[t][s].a /\ Plan[t][s].kind = "object"
                  /\ cmd.n = n /\ Plan[t][s + 1] = Object(n, a, n)
  BY <1>1 DEF Follows, Leads
<1>3. HoldsObject(Plan[t][s])
  BY <1>1, <1>2, OfObject
<1>a. PICK u \in Places : u = header.pUnaligned /\ n \in Nat /\ 0 < n
  <2>1. n \in Sizes /\ header.pUnaligned \in Places
    BY <1>2, <1>3 DEF HoldsObject
  <2> QED BY <2>1, SizesAreNumbers
<1>4. PICK b : u = header.pUnaligned /\ b = heap[u] /\ n \in Nat /\ 0 < n
  BY <1>a
<1>5. /\ n \in Sizes /\ a \in Alignments
      /\ header = [pUnaligned |-> u, size |-> n, alignment |-> a]
      /\ p = AlignedIn(u, a) /\ DOMAIN heap = {u} /\ IsBlock(b, n + ExtraBytes(a))
  BY <1>2, <1>3, <1>4 DEF HoldsObject
<1>6. PICK from \in Nat, x \in Nat : from = p - u /\ x = ExtraBytes(a) /\ from <= x
  <2>1. /\ u + Header <= p /\ p - u <= ExtraBytes(a) /\ p \in Nat /\ u \in Nat
        /\ ExtraBytes(a) \in Nat
    BY <1>5, Layout
  <2> QED BY <2>1, LayoutAssumption
<1>7. Advance /\ p' = p /\ header' = header /\ user' = user
  BY DEF WriteObject
<1>8. DOMAIN heap' = {u} /\ heap'[u] = Block(n + x, "written", from, n)
  <2>1. heap' = [heap EXCEPT ![u].what = "written", ![u].at = from, ![u].len = n]
    BY <1>2, <1>4, <1>6 DEF WriteObject
  <2>2. PICK c : c = [b EXCEPT !.what = "written", !.at = from, !.len = n]
    OBVIOUS
  <2>3. heap' = [heap EXCEPT ![u] = c]
    BY <1>4, <1>5, <2>1, <2>2
  <2>4. c = Block(n + x, "written", from, n)
    <3>1. PICK what, at, len : b = Block(n + x, what, at, len)
      BY <1>5, <1>6 DEF IsBlock
    <3>2. PICK y : y = n + x
      OBVIOUS
    <3>3. c = Block(y, "written", from, n)
      BY <2>2, <3>1, <3>2 DEF Block
    <3> QED BY <3>2, <3>3
  <2> QED BY <1>5, <2>3, <2>4
<1>9. Held(Plan[t][s + 1])'
  <2>1. PICK d : /\ d = heap'[u] /\ d.what = "written" /\ d.at = from /\ d.len = n
                 /\ d = Block(n + x, "written", from, n)
    BY <1>8, BlockFields
  <2>2. IsBlock(d, n + x)
    BY <1>4, <1>6, <2>1 DEF IsBlock
  <2>3. n \in 0 .. n /\ n >= n
    BY <1>4
  <2>4. HoldsObject(Object(n, a, n))'
    BY <1>5, <1>6, <1>7, <1>8, <2>1, <2>2, <2>3 DEF HoldsObject, Object
  <2> QED BY <1>2, <2>4 DEF Held, Object
<1>10. UserKnows(t, Plan[t][s + 1], Counted(t, s + 1))'
  <2>1. t \in {4, 7} => Counted(t, s + 1) = Counted(t, s)
    BY <1>1 DEF Follows, Counts
  <2>2. UserKnows(t, Plan[t][s + 1], Counted(t, s))'
    BY <1>1, <1>2, <1>7, KnowsSame DEF Object
  <2> QED BY <2>1, <2>2 DEF UserKnows
<1> QED BY <1>1, <1>7, <1>9, <1>10, GoesOn

(* What leaves the test where it was, apart from its place in the list. *)
LEMMA SameStep ==
  ASSUME IInv, NEW t \in 1 .. 11, NEW s \in 1 .. 27,
         test = t, step = s, s <= Len(Tests[t]), Follows(t, s),
         Held(Plan[t][s]), UserKnows(t, Plan[t][s], Counted(t, s)),
         Plan[t][s + 1] = Plan[t][s],
         t \in {4, 7} => Counted(t, s + 1) = Counted(t, s),
         Advance, UNCHANGED <<p, header, heap, user>>
  PROVE  IInv'
<1>1. Held(Plan[t][s + 1])'
  BY HeldSame
<1>2. UserKnows(t, Plan[t][s + 1], Counted(t, s + 1))'
  <2>1. UserKnows(t, Plan[t][s], Counted(t, s))'
    BY KnowsSame
  <2> QED BY <2>1 DEF UserKnows
<1> QED BY <1>1, <1>2, GoesOn

(* Every check holds. *)
LEMMA CheckStep == ASSUME IInv, Check PROVE IInv'
<1> DEFINE ops == {"zeroed", "verify", "aligned", "moved", "mallocs", "reallocs", "frees",
                   "default", "copy"}
<1>1. PICK t \in 1 .. 11, s \in 1 .. 27 :
        /\ test = t /\ step = s /\ s <= Len(Tests[t])
        /\ cmd = Tests[t][s] /\ cmd.op \in ops
        /\ Follows(t, s)
        /\ Held(Plan[t][s]) /\ UserKnows(t, Plan[t][s], Counted(t, s))
  BY Located DEF Check
<1>2. /\ Leads(cmd, Plan[t][s], Plan[t][s + 1])
      /\ AsksFor(t, cmd, Counted(t, s))
  BY <1>1 DEF Follows
<1>3. Plan[t][s + 1] = Plan[t][s]
  BY <1>1, <1>2 DEF Leads
<1>4. Holds
  <2>1. CASE cmd.op = "zeroed"
    <3>1. /\ Plan[t][s].kind = "raw" /\ Plan[t][s].kept > 0
          /\ cmd.n \in 0 .. Plan[t][s].kept
      BY <1>2, <2>1 DEF Leads
    <3>2. HoldsRaw(Plan[t][s])
      BY <1>1, <3>1, OfRaw
    <3>3. PICK k, len : k = Plan[t][s].kept /\ len = heap[p].len
      OBVIOUS
    <3>4. heap[p].what = "zero" /\ heap[p].at = 0 /\ len >= k /\ k \in Nat /\ len \in Nat
      <4>1. Plan[t][s].n \in Nat /\ Plan[t][s].kept \in 0 .. Plan[t][s].n
        BY <3>2, SizesAreNumbers DEF HoldsRaw
      <4> QED BY <3>1, <3>2, <3>3, <4>1 DEF HoldsRaw, IsBlock
    <3>5. len >= cmd.n
      BY <3>1, <3>3, <3>4
    <3> QED BY <2>1, <3>3, <3>4, <3>5 DEF Holds, Keeps
  <2>2. CASE cmd.op = "verify"
    <3>1. /\ Plan[t][s].kind = "object" /\ Plan[t][s].kept > 0
          /\ cmd.n \in 0 .. Plan[t][s].kept
      BY <1>2, <2>2 DEF Leads
    <3>2. HoldsObject(Plan[t][s])
      BY <1>1, <3>1, OfObject
    <3>3. PICK k, len, u : /\ k = Plan[t][s].kept /\ u = header.pUnaligned
                           /\ len = heap[u].len
      OBVIOUS
    <3>4. /\ heap[u].what = "written" /\ heap[u].at = p - u
          /\ len >= k /\ k \in Nat /\ len \in Nat
      <4>1. Plan[t][s].n \in Nat /\ Plan[t][s].kept \in 0 .. Plan[t][s].n
        BY <3>2, SizesAreNumbers DEF HoldsObject
      <4> QED BY <3>1, <3>2, <3>3, <4>1 DEF HoldsObject, IsBlock
    <3>5. len >= cmd.n
      BY <3>1, <3>3, <3>4
    <3> QED BY <2>2, <3>3, <3>4, <3>5 DEF Holds, Keeps
  <2>3. CASE cmd.op = "aligned"
    <3>1. Plan[t][s].kind = "object" /\ Plan[t][s].a = cmd.a
      BY <1>2, <2>3 DEF Leads
    <3>2. HoldsObject(Plan[t][s])
      BY <1>1, <3>1, OfObject
    <3>3. p % cmd.a = 0
      BY <3>1, <3>2, Layout DEF HoldsObject
    <3> QED BY <2>3, <3>3 DEF Holds
  <2>4. CASE cmd.op \in {"moved", "mallocs", "reallocs", "frees"}
    <3>1. t \in {4, 7}
      BY <1>2, <2>4 DEF AsksFor
    <3>2. /\ user.mallocs = Counted(t, s).mallocs
          /\ user.reallocs = Counted(t, s).reallocs
          /\ user.frees = Counted(t, s).frees
          /\ t = 7 => (Counted(t, s).reallocs > 0 => user.moved)
      BY <1>1, <3>1 DEF UserKnows
    <3>3. CASE cmd.op = "moved"
      BY <1>2, <3>2, <3>3 DEF AsksFor, Holds
    <3>4. CASE cmd.op = "mallocs"
      BY <1>2, <3>2, <3>4 DEF AsksFor, Holds
    <3>5. CASE cmd.op = "reallocs"
      BY <1>2, <3>2, <3>5 DEF AsksFor, Holds
    <3>6. CASE cmd.op = "frees"
      BY <1>2, <3>2, <3>6 DEF AsksFor, Holds
    <3> QED BY <2>4, <3>3, <3>4, <3>5, <3>6
  <2>5. CASE cmd.op \in {"default", "copy"}
    BY <2>5 DEF Holds, InitDefault, InitCopy
  <2> QED BY <1>1, <2>1, <2>2, <2>3, <2>4, <2>5
<1>5. t \in {4, 7} => Counted(t, s + 1) = Counted(t, s)
  BY <1>1 DEF Follows, Counts
<1>6. Advance /\ UNCHANGED <<p, header, heap, user>>
  BY <1>4 DEF Check
<1> QED BY <1>1, <1>3, <1>5, <1>6, SameStep

(* What the tests expect to be turned down is turned down. *)
LEMMA RejectStep == ASSUME IInv, NsRejects PROVE IInv'
<1>1. PICK t \in 1 .. 11, s \in 1 .. 27 :
        /\ test = t /\ step = s /\ s <= Len(Tests[t])
        /\ cmd = Tests[t][s] /\ cmd.op \in {"rejected"}
        /\ Follows(t, s)
        /\ Held(Plan[t][s]) /\ UserKnows(t, Plan[t][s], Counted(t, s))
  BY Located DEF NsRejects
<1>2. /\ Plan[t][s + 1] = Plan[t][s]
      /\ \/ cmd.a = 3
         \/ cmd.n = SizeMax /\ cmd.a = 64
         \/ Plan[t][s].kind = "object" /\ Plan[t][s].a # cmd.a
  BY <1>1 DEF Follows, Leads
<1>3. RequestBad
  <2>1. CASE cmd.a = 3
    <3>1. \A k \in 0 .. 3 : 3 # 2 ^ k
      <4>1. 3 # 2 ^ 0 /\ 3 # 2 ^ 1 /\ 3 # 2 ^ 2 /\ 3 # 2 ^ 3
        OBVIOUS
      <4>2. \A k \in 0 .. 3 : k = 0 \/ k = 1 \/ k = 2 \/ k = 3
        OBVIOUS
      <4> QED BY <4>1, <4>2
    <3>2. ~PowerOfTwo(3)
      BY <3>1 DEF PowerOfTwo
    <3> QED BY <2>1, <3>2 DEF RequestBad, AlignmentBad
  <2>2. CASE cmd.n = SizeMax /\ cmd.a = 64
    <3>1. SizeBad(SizeMax, 64)
      BY LayoutAssumption DEF SizeBad, ExtraBytes
    <3> QED BY <2>2, <3>1 DEF RequestBad
  <2>3. CASE Plan[t][s].kind = "object" /\ Plan[t][s].a # cmd.a
    <3>1. p # Null /\ header.alignment = Plan[t][s].a
      BY <1>1, <2>3, OfObject DEF HoldsObject
    <3> QED BY <2>3, <3>1 DEF RequestBad
  <2> QED BY <1>2, <2>1, <2>2, <2>3
<1>4. t \in {4, 7} => Counted(t, s + 1) = Counted(t, s)
  BY <1>1 DEF Follows, Counts
<1>5. Advance /\ UNCHANGED <<p, header, heap, user>>
  BY <1>3 DEF NsRejects
<1> QED BY <1>1, <1>2, <1>4, <1>5, SameStep

(* A test whose allocation fails gives back what it has. *)
LEMMA StarveStep == ASSUME IInv, Starve PROVE IInv'
<1> DEFINE ops == {"malloc", "calloc", "realloc", "aligned_malloc", "aligned_realloc"}
<1>1. PICK t \in 1 .. 11, s \in 1 .. 27 :
        /\ test = t /\ step = s /\ s <= Len(Tests[t])
        /\ cmd = Tests[t][s] /\ cmd.op \in ops
        /\ Follows(t, s)
        /\ Held(Plan[t][s]) /\ UserKnows(t, Plan[t][s], Counted(t, s))
  BY Located DEF Starve
<1>2. \/ cmd.onFail = "none" /\ Plan[t][s] = Nothing
      \/ cmd.onFail = "free" /\ Plan[t][s].kind = "raw"
      \/ cmd.onFail = "afree" /\ Plan[t][s].kind = "object"
  BY <1>1 DEF Follows, Leads
<1>3. /\ Cleanup /\ EndTest /\ Running
      /\ passed' = passed /\ starved' = starved + 1
  BY DEF Starve, At
<1>4. heap' = << >>
  BY <1>1, <1>2, <1>3, CleanedUp
<1> QED BY <1>3, <1>4, Ends

(* A test that gets to its end holds nothing. *)
LEMMA PassStep == ASSUME IInv, Pass PROVE IInv'
<1>1. PICK t \in 1 .. 11 : test = t /\ step = Len(Tests[t]) + 1 /\ Held(Plan[t][step])
  BY Scripts DEF IInv, Pass, Running
<1>2. Plan[t][step] = Nothing
  BY <1>1, Scripts DEF FollowsPlan
<1>3. heap' = << >>
  BY <1>1, <1>2, OfNothing DEF Pass
<1> QED BY <1>3, Ends DEF Pass

(* The program begins the first test with nothing. *)
LEMMA InitInv == ASSUME Init PROVE IInv
<1>1. Running /\ Plan[1][1] = Nothing /\ Len(Tests[1]) \in 0 .. 27 /\ test = 1 /\ step = 1
  BY Scripts DEF Init, Running, FollowsPlan
<1>2. Held(Nothing)
  BY DEF Held, Init
<1>3. UserKnows(1, Nothing, Counted(1, 1))
  BY DEF UserKnows
<1>4. 1 \in 1 .. Len(Tests[1]) + 1
  BY <1>1
<1> QED BY <1>1, <1>2, <1>3, <1>4 DEF IInv, Init

(* Nothing happens once main has returned. *)
LEMMA StutterStep == ASSUME IInv, UNCHANGED vars PROVE IInv'
<1>1. /\ test' = test /\ step' = step /\ passed' = passed /\ starved' = starved
      /\ UNCHANGED <<p, header, heap>> /\ user' = user
  BY DEF vars
<1>2. CASE Running
  <2>0. PICK t \in 1 .. 12 : /\ t = test /\ step \in 1 .. Len(Tests[t]) + 1
                             /\ Held(Plan[t][step]) /\ UserKnows(t, Plan[t][step], Counted(t, step))
    BY <1>2 DEF IInv
  <2>1. PICK s : /\ t = test /\ s = step /\ s \in 1 .. Len(Tests[t]) + 1
                 /\ Held(Plan[t][s]) /\ UserKnows(t, Plan[t][s], Counted(t, s))
    BY <2>0
  <2>2. Held(Plan[t][s])'
    BY <1>1, <2>1, HeldSame
  <2>3. UserKnows(t, Plan[t][s], Counted(t, s))'
    BY <1>1, <2>1 DEF UserKnows
  <2>4. Running'
    BY <1>1, <1>2 DEF Running
  <2> QED BY <1>1, <2>1, <2>2, <2>3, <2>4 DEF IInv
<1>3. CASE ~Running
  <2>1. ~Running'
    BY <1>1, <1>3 DEF Running
  <2>2. step = 1 /\ Held(Nothing)'
    BY <1>1, <1>3, HeldSame DEF IInv
  <2> QED BY <1>1, <2>1, <2>2 DEF IInv
<1> QED BY <1>2, <1>3
-----------------------------------------------------------------------------
(* Wherever libc puts the blocks and whichever of its calls fail, each of  *)
(* main's tests holds what its plan says.                                  *)
THEOREM Invariant == Spec => []IInv
<1>1. ASSUME IInv, [Next]_vars PROVE IInv'
  <2>1. CASE NsMalloc
    BY <1>1, <2>1, MallocStep
  <2>2. CASE NsRealloc
    BY <1>1, <2>2, ReallocStep
  <2>3. CASE NsFree
    BY <1>1, <2>3, FreeStep
  <2>4. CASE NsAlignedMalloc
    BY <1>1, <2>4, AlignedMallocStep
  <2>5. CASE NsAlignedRealloc
    BY <1>1, <2>5, AlignedReallocStep
  <2>6. CASE NsAlignedFree
    BY <1>1, <2>6, AlignedFreeStep
  <2>7. CASE NsRejects
    BY <1>1, <2>7, RejectStep
  <2>8. CASE Starve
    BY <1>1, <2>8, StarveStep
  <2>9. CASE WriteObject
    BY <1>1, <2>9, WriteStep
  <2>10. CASE Check
    BY <1>1, <2>10, CheckStep
  <2>11. CASE Pass
    BY <1>1, <2>11, PassStep
  <2>12. CASE Returned
    BY <1>1, <2>12, StutterStep DEF Returned
  <2>13. CASE UNCHANGED vars
    BY <1>1, <2>13, StutterStep
  <2> QED BY <1>1, <2>1, <2>2, <2>3, <2>4, <2>5, <2>6, <2>7, <2>8, <2>9, <2>10, <2>11,
             <2>12, <2>13 DEF Next
<1> QED BY <1>1, InitInv, PTL DEF Spec

(* What is held at any time. *)
LEMMA HoldsSomething ==
  ASSUME IInv
  PROVE  \E e : /\ Held(e)
                /\ Running => /\ e = Plan[test][step] /\ test \in 1 .. 11
                              /\ step \in 1 .. Len(Tests[test]) + 1
                              /\ UserKnows(test, e, Counted(test, step))
                /\ ~Running => e = Nothing
<1>1. CASE Running
  BY <1>1, Scripts DEF IInv, Running
<1>2. CASE ~Running
  BY <1>2 DEF IInv
<1> QED BY <1>1, <1>2

(* The tests leak nothing, whatever fails, and what they use lies inside   *)
(* the only block that libc has handed out.                                *)
THEOREM HeapHeld == Spec => []HeapIsHeld
<1>1. ASSUME IInv PROVE HeapIsHeld
  <2>1. PICK e : Held(e)
    BY <1>1, HoldsSomething
  <2>2. CASE e = Nothing
    BY <2>1, <2>2, OfNothing DEF HeapIsHeld
  <2>3. CASE e.kind = "raw"
    BY <2>1, <2>3, OfRaw DEF HoldsRaw, HeapIsHeld
  <2>4. CASE e.kind = "object"
    <3>1. HoldsObject(e) /\ p # Null /\ header # NoHeader
      BY <2>1, <2>4, OfObject
    <3>0. PICK u \in Places, n \in Sizes, a \in Alignments :
            /\ header = [pUnaligned |-> u, size |-> n, alignment |-> a]
            /\ p = AlignedIn(u, a) /\ DOMAIN heap = {u}
            /\ IsBlock(heap[u], n + ExtraBytes(a)) /\ n \in Nat
      <4>1. PICK u \in Places, n \in Sizes, a \in Alignments :
              u = header.pUnaligned /\ n = e.n /\ a = e.a
        BY <3>1 DEF HoldsObject
      <4>2. /\ header = [pUnaligned |-> u, size |-> n, alignment |-> a]
            /\ p = AlignedIn(u, a) /\ DOMAIN heap = {u}
            /\ IsBlock(heap[u], n + ExtraBytes(a))
        BY <3>1, <4>1 DEF HoldsObject
      <4> QED BY <4>2, SizesAreNumbers
    <3>2. PICK sz :
            /\ header = [pUnaligned |-> u, size |-> n, alignment |-> a]
            /\ p = AlignedIn(u, a) /\ DOMAIN heap = {u} /\ sz = heap[u].size
            /\ IsBlock(heap[u], n + ExtraBytes(a)) /\ n \in Nat
      BY <3>0
    <3>3. sz = n + ExtraBytes(a)
      BY <3>2 DEF IsBlock, Block
    <3>4. /\ u + Header <= p /\ p - u <= ExtraBytes(a) /\ p \in Nat /\ u \in Nat
          /\ ExtraBytes(a) \in Nat
      BY <3>2, Layout
    <3>5. p + n <= u + sz
      BY <3>2, <3>3, <3>4
    <3> QED BY <3>1, <3>2, <3>4, <3>5 DEF HeapIsHeld
  <2> QED BY <2>1, <2>2, <2>3, <2>4 DEF Held
<1> QED BY <1>1, Invariant, PTL

(* A test fails only when malloc or realloc has: no check of main's tests  *)
(* depends on where the blocks are.                                        *)
THEOREM FailsOnlyStarved == Spec => []FailsOnlyWhenStarved
<1>1. IInv => FailsOnlyWhenStarved
  BY DEF IInv, FailsOnlyWhenStarved
<1> QED BY <1>1, Invariant, PTL

(* The variables keep their types. *)
THEOREM TypeCorrect == Spec => []TypeOK
<1>1. ASSUME IInv PROVE TypeOK
  <2>1. PICK e : /\ Held(e)
                 /\ Running => test \in 1 .. 11 /\ step \in 1 .. Len(Tests[test]) + 1
    BY <1>1, HoldsSomething
  <2>2. test \in 1 .. Len(Tests) + 1
    BY <1>1, Scripts DEF IInv
  <2>3. step \in 1 .. 28
    <3>1. CASE Running
      <4>1. PICK l \in 0 .. 27 : l = Len(Tests[test])
        BY <2>1, <3>1, Scripts DEF FollowsPlan
      <4>2. \A k \in 0 .. 27 : step \in 1 .. k + 1 => step \in 1 .. 28
        OBVIOUS
      <4> QED BY <2>1, <3>1, <4>1, <4>2
    <3>2. CASE ~Running
      BY <1>1, <3>2 DEF IInv
    <3> QED BY <3>1, <3>2
  <2>4. /\ p \in 0 .. SizeMax /\ DOMAIN heap \subseteq Places
        /\ \A u \in DOMAIN heap : heap[u].at + heap[u].len <= heap[u].size
    <3>1. CASE e = Nothing
      BY <2>1, <3>1, OfNothing, LayoutAssumption DEF Null
    <3>2. CASE e.kind = "raw"
      <4>1. HoldsRaw(e)
        BY <2>1, <3>2, OfRaw
      <4>2. p \in 0 .. SizeMax
        BY <4>1, PlacesAssumption, LayoutAssumption DEF HoldsRaw
      <4> QED BY <4>1, <4>2 DEF HoldsRaw, IsBlock, Block
    <3>3. CASE e.kind = "object"
      <4>1. HoldsObject(e)
        BY <2>1, <3>3, OfObject
      <4>2. p \in 0 .. SizeMax
        BY <4>1, Layout, LayoutAssumption DEF HoldsObject
      <4> QED BY <4>1, <4>2 DEF HoldsObject, IsBlock, Block
    <3> QED BY <2>1, <3>1, <3>2, <3>3 DEF Held
  <2>5. {passed, starved} \subseteq 0 .. test - 1
    BY <1>1 DEF IInv
  <2> QED BY <2>2, <2>3, <2>4, <2>5 DEF TypeOK
<1> QED BY <1>1, Invariant, PTL
=============================================================================
