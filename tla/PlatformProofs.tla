--------------------------- MODULE PlatformProofs ---------------------------
(***************************************************************************)
(* The two components without a state of their own, whose code is what the *)
(* preprocessor makes of it on each platform: the counting of zeros, and   *)
(* the result codes.                                                       *)
(*                                                                         *)
(* Counting zeros: every path through the dispatch of tzcnt.c and lzcnt.c  *)
(* exists and, for the calls that the code counts right, returns the       *)
(* number of zeros of the word, whatever the word.                         *)
(*                                                                         *)
(* Each step of the generic functions halves the range in which the lowest *)
(* (highest) 1 can still be, and shifts the word by what n says (TzPlace,  *)
(* LzPlace); the instructions are what their names say.                    *)
(*                                                                         *)
(* Result codes: for every platform, whatever numbers it gives to the      *)
(* names of errno.h.                                                       *)
(***************************************************************************)
EXTENDS BitCount, Results, WellFoundedInduction, TLAPS

(* The lowest 1 of w is at position n - 1 of it or less than m above.      *)
TzPlace(s, w, m) ==
  /\ s = [x |-> s.x, n |-> s.n]
  /\ s.n \in Nat \ {0}
  /\ s.x = Shr(w, s.n - 1)
  /\ s.n - 1 <= Lowest(w)
  /\ Lowest(w) < s.n - 1 + m

(* The highest 1 of w has n zeros above it or less than m more.            *)
LzPlace(s, w, m) ==
  /\ s = [x |-> s.x, n |-> s.n]
  /\ s.n \in Nat
  /\ s.x = Shl(w, s.n)
  /\ s.n <= width - 1 - Highest(w)
  /\ width - 1 - Highest(w) < s.n + m

(* Which function may be running, given the one that was called.           *)
CalledBy ==
  /\ fn = "count" => call.fn = "count"
  /\ fn \in {"count", "hard", "soft"} => call.fn \in {"count", "hard", "soft"}
  /\ fn \in Hardware => call.fn \in Hardware \cup {"count"}

(* A hardware function only runs where has_tzcnt_hard() returns non-zero.  *)
Asked == fn \in Hardware => HasHard

(* No dispatcher changes the word once the first function has it.          *)
Received == x = Parameter(call.fn, call.x)

IInv ==
  /\ TypeOK
  /\ PathExists
  /\ CalledBy
  /\ Asked
  /\ Received

(* The calls that the code counts right.                                   *)
CountableCalls ==
  \A c \in Calls : ReceivedWhole(c) /\ HighestIsLowest(c) /\ HasTzcnt(c)

(* What holds for these: the word is received whole, and counted.          *)
CountInv ==
  /\ IInv
  /\ x = call.x
  /\ CountsZeros
-----------------------------------------------------------------------------
Below == {ss \in Nat \X Nat : ss[1] < ss[2]}

(* A set of numbers that is not empty has a least one. *)
LEMMA LeastExists ==
  ASSUME NEW T \in SUBSET Nat, T # {}
  PROVE  \E m \in T : \A n \in T : m <= n
<1>1. IsWellFoundedOn(Below, Nat)
  BY NatLessThanWellFounded, Zenon DEF OpToRel, Below
<1>2. PICK m \in T : \A n \in T : <<n, m>> \notin Below
  BY <1>1, WFMin, Zenon
<1>3. ASSUME NEW n \in T PROVE m <= n
  <2>1. <<n, m>> \notin Below /\ n \in Nat /\ m \in Nat
    BY <1>2
  <2> QED BY <2>1 DEF Below
<1> QED BY <1>3

(* A word of some 1 bits has a lowest.                                     *)
LEMMA LowestBit ==
  ASSUME NEW w \in SUBSET (0 .. 63), w # {}
  PROVE  Lowest(w) \in w /\ \A c \in w : Lowest(w) <= c
<1>1. w \in SUBSET Nat
  OBVIOUS
<1>2. PICK b \in w : \A c \in w : b <= c
  BY <1>1, LeastExists, Zenon
<1> QED BY <1>2 DEF Lowest

(* And a highest: the lowest of its mirror image.                          *)
LEMMA HighestBit ==
  ASSUME NEW w \in SUBSET (0 .. 63), w # {}
  PROVE  Highest(w) \in w /\ \A c \in w : c <= Highest(w)
<1> DEFINE mirror == {63 - b : b \in w}
<1>1. mirror \in SUBSET (0 .. 63) /\ mirror # {}
  <2>1. \A b \in w : 63 - b \in 0 .. 63
    OBVIOUS
  <2> QED BY <2>1
<1>2. Lowest(mirror) \in mirror /\ \A c \in mirror : Lowest(mirror) <= c
  BY <1>1, LowestBit
<1>3. PICK b \in w : Lowest(mirror) = 63 - b
  BY <1>2
<1>4. \A c \in w : 63 - b <= 63 - c
  BY <1>2, <1>3
<1>5. \A c \in w : c <= b
  BY <1>4
<1> QED BY <1>5 DEF Highest

(* Only the bit at one end answers to the description.                     *)
LEMMA EndsAreUnique ==
  ASSUME NEW w \in SUBSET (0 .. 63), NEW b \in w
  PROVE  /\ (\A c \in w : b <= c) => Lowest(w) = b
         /\ (\A c \in w : c <= b) => Highest(w) = b
<1>1. w # {}
  OBVIOUS
<1>2. Lowest(w) \in w /\ \A c \in w : Lowest(w) <= c
  BY <1>1, LowestBit
<1>3. Highest(w) \in w /\ \A c \in w : c <= Highest(w)
  BY <1>1, HighestBit
<1>4. ASSUME \A c \in w : b <= c PROVE Lowest(w) = b
  <2>1. Lowest(w) \in 0 .. 63 /\ b \in 0 .. 63
    BY <1>2
  <2>2. b <= Lowest(w) /\ Lowest(w) <= b
    BY <1>2, <1>4
  <2> QED BY <2>1, <2>2
<1>5. ASSUME \A c \in w : c <= b PROVE Highest(w) = b
  <2>1. Highest(w) \in 0 .. 63 /\ b \in 0 .. 63
    BY <1>3
  <2>2. Highest(w) <= b /\ b <= Highest(w)
    BY <1>3, <1>5
  <2> QED BY <2>1, <2>2
<1> QED BY <1>4, <1>5

(* Shifting by nothing leaves the word as it is.                           *)
LEMMA NothingShifted ==
  ASSUME width \in Nat, NEW w \in SUBSET (0 .. width - 1)
  PROVE  Shr(w, 0) = w /\ Shl(w, 0) = w
<1>1. \A b \in w : b \in 0 .. width - 1
  OBVIOUS
<1>2. \A b \in w : b >= 0 /\ b - 0 = b /\ b + 0 = b /\ b + 0 < width
  BY <1>1
<1>3. Shr(w, 0) = w
  BY <1>2 DEF Shr
<1>4. Shl(w, 0) = w
  BY <1>2 DEF Shl
<1> QED BY <1>3, <1>4

(* Shifting twice is shifting by the sum.                                  *)
LEMMA ShiftsAdd ==
  ASSUME NEW w \in SUBSET Nat, NEW j \in Nat, NEW k \in Nat, width \in Nat
  PROVE  Shr(Shr(w, j), k) = Shr(w, j + k) /\ Shl(Shl(w, j), k) = Shl(w, j + k)
<1>1. ASSUME NEW b \in Shr(Shr(w, j), k) PROVE b \in Shr(w, j + k)
  <2>1. PICK c \in Shr(w, j) : c >= k /\ b = c - k
    BY <1>1 DEF Shr
  <2>2. PICK d \in w : d >= j /\ c = d - j
    BY <2>1 DEF Shr
  <2>3. d >= j + k /\ b = d - (j + k)
    BY <2>1, <2>2
  <2> QED BY <2>3 DEF Shr
<1>2. ASSUME NEW b \in Shr(w, j + k) PROVE b \in Shr(Shr(w, j), k)
  <2>1. PICK d \in w : d >= j + k /\ b = d - (j + k)
    BY <1>2 DEF Shr
  <2>2. d >= j /\ d - j >= k /\ b = (d - j) - k
    BY <2>1
  <2>3. d - j \in Shr(w, j)
    BY <2>2 DEF Shr
  <2> QED BY <2>2, <2>3 DEF Shr
<1>3. ASSUME NEW b \in Shl(Shl(w, j), k) PROVE b \in Shl(w, j + k)
  <2>1. PICK c \in Shl(w, j) : c + k < width /\ b = c + k
    BY <1>3 DEF Shl
  <2>2. PICK d \in w : d + j < width /\ c = d + j
    BY <2>1 DEF Shl
  <2>3. d + (j + k) < width /\ b = d + (j + k)
    BY <2>1, <2>2
  <2> QED BY <2>3 DEF Shl
<1>4. ASSUME NEW b \in Shl(w, j + k) PROVE b \in Shl(Shl(w, j), k)
  <2>1. PICK d \in w : d + (j + k) < width /\ b = d + (j + k)
    BY <1>4 DEF Shl
  <2>2. d + j < width /\ (d + j) + k < width /\ b = (d + j) + k
    BY <2>1
  <2>3. d + j \in Shl(w, j)
    BY <2>2 DEF Shl
  <2> QED BY <2>2, <2>3 DEF Shl
<1> QED BY <1>1, <1>2, <1>3, <1>4
-----------------------------------------------------------------------------
(* A mask and shift of tzcntNN_generic halves the range of the lowest 1.   *)
LEMMA TzHalves ==
  ASSUME width \in Widths, NEW w \in SUBSET (0 .. width - 1), w # {},
         NEW k \in Nat \ {0}, NEW s, TzPlace(s, w, k + k)
  PROVE  TzPlace(TzGenericStep(s, k), w, k)
<1> DEFINE low == Lowest(w)
           j == s.n - 1
<1>1. w \in SUBSET (0 .. 63) /\ w \in SUBSET Nat /\ width \in Nat
  BY DEF Widths
<1>2. low \in w /\ low \in Nat /\ \A c \in w : low <= c
  BY <1>1, LowestBit
<1>3. j \in Nat /\ s.x = Shr(w, j) /\ j <= low /\ low < j + (k + k)
  BY DEF TzPlace
<1>4. CASE s.x \cap (0 .. k - 1) = {}
  <2>1. low - j \in s.x
    BY <1>2, <1>3 DEF Shr
  <2>2. low - j \in Nat /\ ~(low - j <= k - 1)
    BY <1>2, <1>3, <1>4, <2>1
  <2>3. j + k <= low /\ low < (j + k) + k
    BY <1>2, <1>3, <2>2
  <2>4. Shr(s.x, k) = Shr(w, j + k)
    BY <1>1, <1>3, ShiftsAdd
  <2>5. TzGenericStep(s, k) = [x |-> Shr(s.x, k), n |-> s.n + k]
    BY <1>4 DEF TzGenericStep
  <2>6. s.n + k \in Nat \ {0} /\ (s.n + k) - 1 = j + k
    BY <1>3 DEF TzPlace
  <2> QED BY <2>3, <2>4, <2>5, <2>6 DEF TzPlace
<1>5. CASE s.x \cap (0 .. k - 1) # {}
  <2>1. PICK b \in w : b >= j /\ b - j \in 0 .. k - 1
    BY <1>3, <1>5 DEF Shr
  <2>2. low < j + k
    BY <1>1, <1>2, <1>3, <2>1
  <2>3. TzGenericStep(s, k) = s
    BY <1>5 DEF TzGenericStep
  <2> QED BY <2>2, <2>3 DEF TzPlace
<1> QED BY <1>4, <1>5

(* tzcntNN_generic counts the zeros below the lowest 1.                    *)
LEMMA TzGenericCounts ==
  ASSUME width \in Widths, NEW w \in SUBSET (0 .. width - 1)
  PROVE  TzGeneric(w) = IF w = {} THEN width ELSE Lowest(w)
<1> DEFINE low == Lowest(w)
           start == [x |-> w, n |-> 1]
           s == TzGenericSteps(start)
<1>1. w \in SUBSET (0 .. 63) /\ w \in SUBSET Nat /\ width \in Nat
  BY DEF Widths
<1>2. CASE 0 \in w
  <2>1. \A c \in w : 0 <= c
    BY <1>1
  <2> QED BY <1>1, <1>2, <2>1, EndsAreUnique DEF TzGeneric
<1>3. CASE w = {}
  BY <1>3 DEF TzGeneric
<1>4. CASE 0 \notin w /\ w # {}
  <2>1. low \in w /\ low \in Nat /\ low # 0 /\ low < width
    <3>1. low \in w
      BY <1>1, <1>4, LowestBit
    <3>2. low \in 0 .. width - 1
      BY <3>1
    <3> QED BY <1>4, <3>1, <3>2 DEF Widths
  <2>2. Shr(w, 0) = w
    BY <1>1, NothingShifted
  <2>3. TzPlace(start, w, width)
    BY <2>1, <2>2 DEF TzPlace, Widths
  <2>4. TzPlace(s, w, 2)
    <3> DEFINE s32 == IF width = 64 THEN TzGenericStep(start, 32) ELSE start
               s16 == TzGenericStep(s32, 16)
               s8 == TzGenericStep(s16, 8)
               s4 == TzGenericStep(s8, 4)
    <3> HIDE DEF start
    <3>1. width = 64 => TzPlace(TzGenericStep(start, 32), w, 32)
      BY <1>4, <2>3, TzHalves, 32 + 32 = 64
    <3>2. TzPlace(s32, w, 32)
      BY <2>3, <3>1 DEF Widths
    <3> HIDE DEF s32
    <3>3. TzPlace(s16, w, 16)
      BY <1>4, <3>2, TzHalves, 16 + 16 = 32
    <3> HIDE DEF s16
    <3>4. TzPlace(s8, w, 8)
      BY <1>4, <3>3, TzHalves, 8 + 8 = 16
    <3> HIDE DEF s8
    <3>5. TzPlace(s4, w, 4)
      BY <1>4, <3>4, TzHalves, 4 + 4 = 8
    <3> HIDE DEF s4
    <3>6. TzPlace(TzGenericStep(s4, 2), w, 2)
      BY <1>4, <3>5, TzHalves, 2 + 2 = 4
    <3> QED BY <3>6 DEF TzGenericSteps, s4, s8, s16, s32
  <2>5. TzGeneric(w) = s.n - (IF 0 \in s.x THEN 1 ELSE 0)
    BY <1>4 DEF TzGeneric
  <2> HIDE DEF s
  <2>6. CASE low = s.n - 1
    <3>1. low - (s.n - 1) = 0 /\ low - (s.n - 1) \in s.x
      BY <2>1, <2>4, <2>6 DEF TzPlace, Shr
    <3> QED BY <1>4, <2>1, <2>4, <2>5, <2>6, <3>1 DEF TzPlace
  <2>7. CASE low = s.n
    <3>1. \A b \in w : low <= b
      BY <1>1, <1>4, LowestBit
    <3>2. 0 \notin s.x
      BY <1>1, <2>1, <2>4, <2>7, <3>1 DEF TzPlace, Shr
    <3> QED BY <1>4, <2>1, <2>4, <2>5, <2>7, <3>2 DEF TzPlace
  <2> QED BY <2>1, <2>4, <2>6, <2>7 DEF TzPlace
<1> QED BY <1>2, <1>3, <1>4
-----------------------------------------------------------------------------
(* A mask and shift of lzcntNN_generic halves the range of the highest 1.  *)
LEMMA LzHalves ==
  ASSUME width \in Widths, NEW w \in SUBSET (0 .. width - 1), w # {},
         NEW k \in Nat \ {0}, k <= width, NEW s, LzPlace(s, w, k + k)
  PROVE  LzPlace(LzGenericStep(s, k), w, k)
<1> DEFINE high == Highest(w)
<1>1. w \in SUBSET (0 .. 63) /\ w \in SUBSET Nat /\ width \in Nat
  BY DEF Widths
<1>2. high \in w /\ high \in Nat /\ high < width /\ \A c \in w : c <= high
  <2>1. high \in w /\ \A c \in w : c <= high
    BY <1>1, HighestBit
  <2>2. high \in 0 .. width - 1
    BY <2>1
  <2> QED BY <1>1, <2>1, <2>2
<1>3. s.n \in Nat /\ s.x = Shl(w, s.n) /\ s.n <= width - 1 - high /\ width - 1 - high < s.n + (k + k)
  BY DEF LzPlace
<1>4. CASE s.x \cap (width - k .. width - 1) = {}
  <2>1. high + s.n \in s.x
    BY <1>1, <1>2, <1>3 DEF Shl
  <2>2. ~(width - k <= high + s.n)
    BY <1>1, <1>2, <1>3, <1>4, <2>1
  <2>3. s.n + k <= width - 1 - high /\ width - 1 - high < (s.n + k) + k
    BY <1>1, <1>2, <1>3, <2>2
  <2>4. Shl(s.x, k) = Shl(w, s.n + k)
    BY <1>1, <1>3, ShiftsAdd
  <2>5. LzGenericStep(s, k) = [x |-> Shl(s.x, k), n |-> s.n + k]
    BY <1>4 DEF LzGenericStep
  <2> QED BY <1>3, <2>3, <2>4, <2>5 DEF LzPlace
<1>5. CASE s.x \cap (width - k .. width - 1) # {}
  <2>1. PICK b \in w : b + s.n \in width - k .. width - 1
    BY <1>3, <1>5 DEF Shl
  <2>2. width - 1 - high < s.n + k
    BY <1>1, <1>2, <1>3, <2>1
  <2>3. LzGenericStep(s, k) = s
    BY <1>5 DEF LzGenericStep
  <2> QED BY <2>2, <2>3 DEF LzPlace
<1> QED BY <1>4, <1>5

(* clz_table_4 knows the zeros above a 1 that is among the four highest    *)
(* bits, and has 0 for all other words.                                    *)
LEMMA Table4Counts ==
  ASSUME width \in Widths, NEW w \in SUBSET (0 .. width - 1), w # {}
  PROVE  Table4(w) = IF Highest(w) >= width - 4 THEN width - Highest(w) ELSE 0
<1> DEFINE high == Highest(w)
           top == w \cap (width - 4 .. width - 1)
<1>1. w \in SUBSET (0 .. 63) /\ top \in SUBSET (0 .. 63) /\ width \in Nat
  BY DEF Widths
<1>2. high \in w /\ high \in Nat /\ high < width /\ \A c \in w : c <= high
  <2>1. high \in w /\ \A c \in w : c <= high
    BY <1>1, HighestBit
  <2>2. high \in 0 .. width - 1
    BY <2>1
  <2> QED BY <1>1, <2>1, <2>2
<1>3. CASE high >= width - 4
  <2>1. high \in top /\ \A c \in top : c <= high
    BY <1>1, <1>2, <1>3
  <2>2. Highest(top) = high
    BY <1>1, <2>1, EndsAreUnique
  <2> QED BY <1>3, <2>1, <2>2 DEF Table4
<1>4. CASE ~(high >= width - 4)
  <2>1. top = {}
    BY <1>1, <1>2, <1>4
  <2> QED BY <1>4, <2>1 DEF Table4
<1> QED BY <1>3, <1>4

(* lzcntNN_generic counts the zeros above the highest 1.                   *)
LEMMA LzGenericCounts ==
  ASSUME width \in Widths, NEW w \in SUBSET (0 .. width - 1)
  PROVE  LzGeneric(w) = IF w = {} THEN width ELSE width - 1 - Highest(w)
<1> DEFINE high == Highest(w)
           start == [x |-> w, n |-> 0]
           s == LzGenericSteps(start)
<1>1. w \in SUBSET (0 .. 63) /\ w \in SUBSET Nat /\ width \in Nat
  BY DEF Widths
<1>2. CASE w = {}
  BY <1>2 DEF LzGeneric
<1>3. CASE w # {}
  <2>1. high \in w /\ high \in Nat /\ high < width /\ \A c \in w : c <= high
    <3>1. high \in w /\ \A c \in w : c <= high
      BY <1>1, <1>3, HighestBit
    <3>2. high \in 0 .. width - 1
      BY <3>1
    <3> QED BY <1>1, <3>1, <3>2
  <2>2. CASE high >= width - 4
    <3>1. Table4(w) = width - high /\ Table4(w) # 0
      BY <1>1, <1>3, <2>1, <2>2, Table4Counts
    <3> QED BY <1>1, <1>3, <2>1, <3>1 DEF LzGeneric
  <2>3. CASE ~(high >= width - 4)
    <3>1. Table4(w) = 0
      BY <1>3, <2>3, Table4Counts
    <3>2. Shl(w, 0) = w
      BY <1>1, NothingShifted
    <3>3. LzPlace(start, w, width)
      BY <1>1, <2>1, <3>2 DEF LzPlace
    <3>4. LzPlace(s, w, 4)
      <4> DEFINE s32 == IF width = 64 THEN LzGenericStep(start, 32) ELSE start
                 s16 == LzGenericStep(s32, 16)
                 s8 == LzGenericStep(s16, 8)
      <4> HIDE DEF start
      <4>1. width = 64 => LzPlace(LzGenericStep(start, 32), w, 32)
        BY <1>3, <3>3, LzHalves, 32 + 32 = 64
      <4>2. LzPlace(s32, w, 32)
        BY <3>3, <4>1 DEF Widths
      <4>3. 16 <= width /\ 8 <= width /\ 4 <= width
        BY DEF Widths
      <4> HIDE DEF s32
      <4>4. LzPlace(s16, w, 16)
        BY <1>3, <4>2, <4>3, LzHalves, 16 + 16 = 32
      <4> HIDE DEF s16
      <4>5. LzPlace(s8, w, 8)
        BY <1>3, <4>3, <4>4, LzHalves, 8 + 8 = 16
      <4> HIDE DEF s8
      <4>6. LzPlace(LzGenericStep(s8, 4), w, 4)
        BY <1>3, <4>3, <4>5, LzHalves, 4 + 4 = 8
      <4> QED BY <4>6 DEF LzGenericSteps, s8, s16, s32
    <3>5. LzGeneric(w) = s.n + Table4(s.x) - 1
      BY <1>3, <3>1 DEF LzGeneric
    <3> HIDE DEF s
    <3>6. /\ s.n \in Nat /\ s.x = Shl(w, s.n)
          /\ s.n <= width - 1 - high /\ width - 1 - high < s.n + 4
      BY <3>4 DEF LzPlace
    <3>7. s.x \in SUBSET (0 .. width - 1) /\ s.x \in SUBSET (0 .. 63)
      BY <1>1, <3>6 DEF Shl, Widths
    <3>8. high + s.n \in s.x /\ \A c \in s.x : c <= high + s.n
      BY <1>1, <2>1, <3>6 DEF Shl
    <3>9. Highest(s.x) = high + s.n
      BY <3>7, <3>8, EndsAreUnique
    <3>10. Table4(s.x) = width - (high + s.n)
      BY <1>1, <2>1, <3>6, <3>7, <3>8, <3>9, Table4Counts
    <3> QED BY <1>1, <1>3, <2>1, <3>5, <3>6, <3>10
  <2> QED BY <2>2, <2>3
<1> QED BY <1>2, <1>3
-----------------------------------------------------------------------------
Leaves == {"generic", "bitscan", "builtin", "msvc_x", "gcc_x", "gcc_arm"}

(* The number of zeros in terms of the ends of the word.                   *)
LEMMA ZerosAtEnds ==
  ASSUME NEW w
  PROVE  /\ Zeros("tz", w) = IF w = {} THEN width ELSE Lowest(w)
         /\ Zeros("lz", w) = IF w = {} THEN width ELSE width - 1 - Highest(w)
BY DEF Zeros, Lowest, Highest

(* Both ends of a word are positions in it.                                *)
LEMMA EndsInside ==
  ASSUME width \in Widths, NEW w \in SUBSET (0 .. width - 1), w # {}
  PROVE  /\ Lowest(w) \in w /\ Lowest(w) \in Nat /\ Lowest(w) < width
         /\ Highest(w) \in w /\ Highest(w) \in Nat /\ Highest(w) < width
         /\ width \in Nat
<1>1. w \in SUBSET (0 .. 63) /\ width \in Nat
  BY DEF Widths
<1>2. Lowest(w) \in w /\ Highest(w) \in w
  BY <1>1, LowestBit, HighestBit
<1>3. Lowest(w) \in 0 .. width - 1 /\ Highest(w) \in 0 .. width - 1
  BY <1>2
<1> QED BY <1>1, <1>2, <1>3

(* The lowest 1 on its own, as x & -x leaves it, is its own highest.       *)
LEMMA LowestAlone ==
  ASSUME width \in Widths, NEW w \in SUBSET (0 .. width - 1), w # {}
  PROVE  Highest({Lowest(w)}) = Lowest(w)
<1>1. Lowest(w) \in 0 .. 63
  BY EndsInside DEF Widths
<1> QED BY <1>1, EndsAreUnique

(* On a processor with LZCNT, a function that calls no other returns a     *)
(* number of zeros that a word of this width may have, unless it is TZCNT  *)
(* that the processor does not have, and of 0.                             *)
LEMMA LeafInRange ==
  ASSUME width \in Widths, x \in SUBSET (0 .. width - 1), NEW f \in Leaves,
         f \in {"msvc_x", "gcc_x"} => build.abm
  PROVE  /\ f = "gcc_x" /\ x = {} => build.bmi1 \/ TzReturns(f) = Registers
         /\ (f = "gcc_x" /\ x = {} => build.bmi1) => TzReturns(f) \subseteq 0 .. width
         /\ LzReturns(f) \subseteq 0 .. width
<1>1. x # {} => /\ Lowest(x) \in Nat /\ Lowest(x) < width
                /\ Highest(x) \in Nat /\ Highest(x) < width
  BY EndsInside
<1>2. width \in Nat /\ width \in {32, 64}
  BY DEF Widths
<1>3. TzGeneric(x) \in 0 .. width /\ LzGeneric(x) \in 0 .. width
  BY <1>1, <1>2, TzGenericCounts, LzGenericCounts
<1>4. Clz(x) \in 0 .. width /\ TzScan(x) \in 0 .. width /\ LzScan(x) \in 0 .. width
  BY <1>1, <1>2 DEF Clz, TzScan, LzScan
<1>5. build.abm => TzMsvcX(x) \subseteq 0 .. width
  BY <1>1, <1>2, LowestAlone DEF TzMsvcX, Lzcnt, Clz
<1>6. TzGccArm(x) \in 0 .. width
  BY <1>1, <1>2 DEF TzGccArm, Clz
<1>7. TzcntInstruction(x) \subseteq 0 .. width \/ (x = {} /\ ~build.bmi1)
  BY <1>1, <1>2 DEF TzcntInstruction
<1>8. (f = "gcc_x" /\ x = {} => build.bmi1) => TzReturns(f) \subseteq 0 .. width
  BY <1>3, <1>4, <1>5, <1>6, <1>7 DEF TzReturns, Leaves
<1>9. LzReturns(f) \subseteq 0 .. width
  BY <1>3, <1>4 DEF LzReturns, Leaves, Lzcnt
<1>10. f = "gcc_x" /\ x = {} => build.bmi1 \/ TzReturns(f) = Registers
  BY DEF TzReturns, TzcntInstruction
<1> QED BY <1>8, <1>9, <1>10

(* lzcnt.c: all of them count the zeros above the highest 1, those of x86  *)
(* on a processor with LZCNT.                                              *)
LEMMA LzLeafCounts ==
  ASSUME width \in Widths, x \in SUBSET (0 .. width - 1), NEW f \in Leaves,
         f \in {"msvc_x", "gcc_x"} => build.abm
  PROVE  LzReturns(f) = {Zeros("lz", x)}
<1>1. x # {} => Highest(x) \in Nat /\ width \in Nat
  BY EndsInside
<1>2. LzGeneric(x) = Zeros("lz", x)
  BY LzGenericCounts, ZerosAtEnds
<1>3. Clz(x) = Zeros("lz", x)
  BY ZerosAtEnds DEF Clz
<1>4. x # {} => width - Highest(x) - 1 = width - 1 - Highest(x)
  BY <1>1
<1>5. LzScan(x) = Zeros("lz", x)
  BY <1>4, ZerosAtEnds DEF LzScan
<1> QED BY <1>2, <1>3, <1>5 DEF LzReturns, Leaves, Lzcnt

(* tzcnt.c: so do these, of a word with one 1 where they use the highest   *)
(* for the lowest, and on a processor with TZCNT where 0 reaches it.       *)
LEMMA TzLeafCounts ==
  ASSUME width \in Widths, x \in SUBSET (0 .. width - 1), NEW f \in Leaves,
         f = "gcc_arm" \/ (f = "msvc_x" /\ width = 64) => \A a, b \in x : a = b,
         f = "gcc_x" /\ x = {} => build.bmi1,
         f = "msvc_x" => build.abm
  PROVE  TzReturns(f) = {Zeros("tz", x)}
<1>1. x # {} => /\ Lowest(x) \in x /\ Lowest(x) \in Nat /\ Lowest(x) < width
                /\ Highest(x) \in x /\ width \in Nat
  BY EndsInside
<1>2. CASE f = "generic"
  BY <1>2, TzGenericCounts, ZerosAtEnds DEF TzReturns
<1>3. CASE f \in {"bitscan", "builtin"}
  BY <1>3, ZerosAtEnds DEF TzReturns, TzScan
<1>4. CASE f = "gcc_x"
  BY <1>4, ZerosAtEnds DEF TzReturns, TzcntInstruction
<1>5. CASE f = "gcc_arm"
  <2>1. x # {} => Highest(x) = Lowest(x)
    BY <1>1, <1>5
  <2>2. TzGccArm(x) = Zeros("tz", x)
    BY <1>1, <2>1, ZerosAtEnds DEF TzGccArm, Clz
  <2> QED BY <1>5, <2>2 DEF TzReturns
<1>6. CASE f = "msvc_x"
  <2>1. CASE width = 64
    <3>1. x # {} => Highest(x) = Lowest(x)
      BY <1>1, <1>6, <2>1
    <3>2. TzMsvcX(x) = {Zeros("tz", x)}
      BY <1>1, <1>6, <2>1, <3>1, ZerosAtEnds DEF TzMsvcX, Lzcnt, Clz
    <3> QED BY <1>6, <3>2 DEF TzReturns
  <2>2. CASE width = 32
    <3>1. x # {} => Highest({Lowest(x)}) = Lowest(x)
      BY LowestAlone
    <3>2. TzMsvcX(x) = {Zeros("tz", x)}
      BY <1>1, <1>6, <2>2, <3>1, ZerosAtEnds DEF TzMsvcX, Lzcnt, Clz
    <3> QED BY <1>6, <3>2 DEF TzReturns
  <2> QED BY <2>1, <2>2 DEF Widths
<1> QED BY <1>2, <1>3, <1>4, <1>5, <1>6 DEF Leaves
-----------------------------------------------------------------------------
(* The typing of a call, in the form that the lemmas above ask for.        *)
LEMMA CallTypes ==
  ASSUME TypeOK
  PROVE  /\ call.op \in Ops /\ width \in Widths /\ build \in Builds
         /\ call.fn \in Functions /\ call.x \in SUBSET (0 .. width - 1)
         /\ x \in SUBSET (0 .. width - 1)
BY CallsAssumption DEF TypeOK, width, build

(* What the instructions of a hardware function need of the processor.     *)
LEMMA HardwareFacts ==
  ASSUME IInv
  PROVE  /\ fn \in {"msvc_x", "gcc_x"} => build.abm
         /\ fn = "gcc_x" /\ x = {} /\ call.op = "tz" /\ HasTzcnt(call) => build.bmi1
<1>1. fn \in {"msvc_x", "gcc_x"} =>
        /\ build.compiler = IF fn = "gcc_x" THEN "gcc" ELSE "msvc"
        /\ build.abm /\ call.fn \in Hardware \cup {"count"}
  BY CallTypes DEF IInv, PathExists, Defined, Asked, Hardware, HasHard, X86, Arm, CalledBy,
                   Builds
<1> QED BY <1>1 DEF IInv, Received, HasTzcnt, build

(* A call is typed, and so is what each function makes of it.              *)
LEMMA TypeStep == ASSUME IInv, [Next]_vars PROVE TypeOK'
<1> DEFINE results(c) == 0 .. c.width \cup {Running} \cup
                         (IF HasTzcnt(c) THEN {} ELSE Registers)
<1>1. call \in Calls /\ fn \in Functions /\ x \subseteq 0 .. width - 1
      /\ ret \in results(call)
  BY DEF IInv, TypeOK, width
<1>8. ASSUME call' = call, fn' \in Functions, x' \subseteq x, ret' \in results(call)
      PROVE  TypeOK'
  BY <1>1, <1>8 DEF TypeOK, width
<1> HIDE DEF results
<1>2. ASSUME NEW f \in Functions, CallInto(f) PROVE TypeOK'
  BY <1>1, <1>2, <1>8 DEF CallInto, Parameter
<1>3. CASE Count
  BY <1>2, <1>3 DEF Count, Functions
<1>4. CASE Hard
  BY <1>2, <1>4 DEF Hard, Functions
<1>5. CASE Soft
  BY <1>2, <1>5 DEF Soft, Functions
<1>6. CASE Leaf
  <2>1. fn \in Leaves
    BY <1>1, <1>6 DEF Leaf, Functions, Leaves
  <2>2. /\ width \in Widths /\ x \in SUBSET (0 .. width - 1) /\ call.op \in Ops
        /\ fn \in {"msvc_x", "gcc_x"} => build.abm
    BY CallTypes, HardwareFacts DEF IInv
  <2>3. LzReturns(fn) \subseteq 0 .. width
    BY <2>1, <2>2, LeafInRange
  <2>4. call.op = "tz" => \/ TzReturns(fn) \subseteq 0 .. width
                          \/ TzReturns(fn) = Registers /\ ~HasTzcnt(call)
    BY <2>1, <2>2, LeafInRange, HardwareFacts
  <2>5. ret' \in results(call)
    BY <1>6, <2>2, <2>3, <2>4 DEF Leaf, Ops, results, width
  <2> QED BY <1>1, <1>6, <1>8, <2>5 DEF Leaf
<1>7. CASE UNCHANGED vars
  BY <1>1, <1>7, <1>8 DEF vars
<1> QED BY <1>3, <1>4, <1>5, <1>6, <1>7 DEF Next, Step, Done

(* The dispatchers only name functions that this build has, and hardware   *)
(* ones only on a processor that says it has LZCNT or CLZ.                 *)
LEMMA PathStep == ASSUME IInv, [Next]_vars PROVE PathExists' /\ CalledBy' /\ Asked'
<1>1. /\ fn \in Functions /\ Defined(fn) /\ (fn \in Hardware => HasHard) /\ CalledBy
      /\ build \in Builds /\ width \in Widths
  BY CallTypes DEF IInv, TypeOK, PathExists, Asked
<1>2. ASSUME NEW f, fn' = f, call' = call, Defined(f), f \in Hardware => HasHard
      PROVE  PathExists' /\ Asked'
  BY <1>2 DEF PathExists, Asked, Defined, HasHard, HasHardMacro, X86, Arm, Is64Bit, build, width
<1>3. CASE Count
  <2>1. /\ fn = "count" /\ call' = call
        /\ fn' = IF HasHardMacro /\ HasHard THEN "hard" ELSE "soft"
    BY <1>3 DEF Count, CallInto
  <2>2. Defined(fn') /\ (fn' \in Hardware => HasHard)
    BY <2>1 DEF Defined, Hardware
  <2>3. CalledBy'
    BY <1>1, <2>1 DEF CalledBy, Hardware
  <2> QED BY <1>2, <2>1, <2>2, <2>3
<1>4. CASE Hard
  <2>1. /\ fn = "hard" /\ call' = call
        /\ fn' = IF Arm THEN "gcc_arm"
                 ELSE IF build.compiler = "msvc" THEN "msvc_x"
                 ELSE "gcc_x"
    BY <1>4 DEF Hard, CallInto
  <2>2. HasHardMacro /\ HasHard
    BY <1>1, <2>1 DEF Defined, Hardware
  <2>3. Defined(fn')
    BY <2>1, <2>2 DEF Defined, HasHardMacro, X86, Arm
  <2>4. CalledBy'
    BY <1>1, <2>1 DEF CalledBy, Hardware
  <2> QED BY <1>2, <2>1, <2>2, <2>3, <2>4
<1>5. CASE Soft
  <2>1. /\ fn = "soft" /\ call' = call
        /\ fn' = IF width = 64 /\ ~Is64Bit THEN "generic"
                 ELSE IF build.compiler = "msvc" THEN "bitscan"
                 ELSE IF build.compiler = "gcc" THEN "builtin"
                 ELSE "generic"
    BY <1>5 DEF Soft, CallInto
  <2>2. \/ fn' = "generic"
        \/ fn' = "bitscan" /\ build.compiler = "msvc" /\ (width = 64 => Is64Bit)
        \/ fn' = "builtin" /\ build.compiler = "gcc"
    BY <2>1
  <2>3. Defined(fn') /\ fn' \notin Hardware
    BY <2>2 DEF Defined, Hardware
  <2>4. CalledBy'
    BY <1>1, <2>1, <2>2 DEF CalledBy, Hardware
  <2> QED BY <1>2, <2>1, <2>3, <2>4
<1>6. CASE Leaf \/ UNCHANGED vars
  <2>1. fn' = fn /\ call' = call
    BY <1>6 DEF Leaf, vars
  <2>2. CalledBy'
    BY <1>1, <2>1 DEF CalledBy
  <2> QED BY <1>1, <1>2, <2>1, <2>2
<1> QED BY <1>3, <1>4, <1>5, <1>6 DEF Next, Step, Done

(* The dispatchers pass on what they received.                             *)
LEMMA ReceivedStep == ASSUME IInv, [Next]_vars PROVE Received'
<1>1. x = Parameter(call.fn, call.x) /\ CalledBy
  BY DEF IInv, Received
<1>2. ASSUME NEW f, CallInto(f), fn \in {"count", "hard", "soft"} PROVE Received'
  <2>1. x = call.x \cap (0 .. 31) /\ call.fn \in {"count", "hard", "soft"}
    BY <1>1, <1>2 DEF CalledBy, Parameter
  <2> QED BY <1>2, <2>1 DEF CallInto, Parameter, Received
<1>3. CASE Count \/ Hard \/ Soft
  BY <1>2, <1>3 DEF Count, Hard, Soft
<1>4. CASE Leaf \/ UNCHANGED vars
  BY <1>1, <1>4 DEF Leaf, vars, Received
<1> QED BY <1>3, <1>4 DEF Next, Step, Done

(* Where a call that the code counts right ends, it ends with the count.   *)
LEMMA CountStep ==
  ASSUME CountableCalls, CountInv, [Next]_vars
  PROVE  x' = call'.x /\ CountsZeros'
<1>1. /\ TypeOK /\ PathExists /\ CalledBy /\ x = call.x /\ CountsZeros
      /\ call \in Calls /\ ReceivedWhole(call) /\ HighestIsLowest(call) /\ HasTzcnt(call)
  BY DEF CountInv, IInv, TypeOK, CountableCalls
<1>2. ASSUME NEW f, CallInto(f), fn \in {"count", "hard", "soft"}, ret = Running
      PROVE  x' = call'.x /\ CountsZeros'
  <2>1. x \subseteq 0 .. 31
    BY <1>1, <1>2 DEF CalledBy, ReceivedWhole
  <2>2. x' = x
    BY <1>2, <2>1 DEF CallInto, Parameter
  <2> QED BY <1>1, <1>2, <2>2 DEF CallInto, CountsZeros
<1>3. CASE Count
  BY <1>2, <1>3 DEF Count
<1>4. CASE Hard
  BY <1>2, <1>4 DEF Hard
<1>5. CASE Soft
  BY <1>2, <1>5 DEF Soft
<1>6. CASE Leaf
  <2>1. UNCHANGED <<call, fn, x>> /\ fn \in Leaves
    BY <1>1, <1>6 DEF Leaf, TypeOK, Functions, Leaves
  <2>2. call.op \in Ops /\ width \in Widths /\ build \in Builds /\ x \in SUBSET (0 .. width - 1)
    BY <1>1, CallTypes
  <2>3. CASE call.op = "lz"
    <3>1. ret' = Zeros("lz", x)
      BY <1>6, <2>1, <2>2, <2>3, LzLeafCounts, HardwareFacts DEF Leaf, CountInv
    <3> QED BY <1>1, <2>1, <2>3, <3>1 DEF CountsZeros, Zeros, width
  <2>4. CASE call.op = "tz"
    <3>1. fn = "gcc_arm" \/ (fn = "msvc_x" /\ width = 64) => \A a, b \in x : a = b
      BY <1>1, <2>4 DEF PathExists, Defined, Hardware, CalledBy, HighestIsLowest,
                        Arm, width, build
    <3>2. (fn = "gcc_x" /\ x = {} => build.bmi1) /\ (fn = "msvc_x" => build.abm)
      BY <1>1, <2>4, HardwareFacts DEF CountInv
    <3>3. TzReturns(fn) = {Zeros("tz", x)}
      BY <2>1, <2>2, <3>1, <3>2, TzLeafCounts
    <3>4. ret' = Zeros("tz", x)
      BY <1>6, <2>4, <3>3 DEF Leaf
    <3> QED BY <1>1, <2>1, <2>4, <3>4 DEF CountsZeros, Zeros, width
  <2> QED BY <2>2, <2>3, <2>4 DEF Ops
<1>7. CASE UNCHANGED vars
  BY <1>1, <1>7 DEF vars, CountsZeros, Zeros, width
<1> QED BY <1>3, <1>4, <1>5, <1>6, <1>7 DEF Next, Step, Done
-----------------------------------------------------------------------------
(* A call begins in a function that this build has.                        *)
LEMMA InitInv == Init => IInv
<1> SUFFICES ASSUME Init PROVE IInv
  OBVIOUS
<1>1. TypeOK
  BY CallsAssumption DEF Init, TypeOK, Parameter, width
<1> QED BY <1>1 DEF Init, IInv, PathExists, CalledBy, Asked, Received

(* Every reachable state satisfies the inductive invariant.                *)
THEOREM Invariant == Spec => []IInv
<1>1. IInv /\ [Next]_vars => IInv'
  BY TypeStep, PathStep, ReceivedStep DEF IInv
<1> QED BY <1>1, InitInv, PTL DEF Spec

(* The variables keep their types: no function returns a number that is    *)
(* not a count (tzcnt.c:114-442, lzcnt.c), whatever its argument, unless   *)
(* it runs TZCNT for 0 on a processor without it (HasTzcnt); then what it  *)
(* returns is what a register holds, a count or not.                       *)
THEOREM TypeCorrect == Spec => []TypeOK
<1>1. IInv => TypeOK
  BY DEF IInv
<1> QED BY <1>1, Invariant, PTL

(* On every build, no call reaches a function that is not compiled in.     *)
THEOREM PathsExist == Spec => []PathExists
<1>1. IInv => PathExists
  BY DEF IInv
<1> QED BY <1>1, Invariant, PTL

(* On every build, every function returns the number of zeros of every     *)
(* word, but for the three kinds of call that CountableCalls leaves out.   *)
THEOREM Counts == ASSUME CountableCalls PROVE Spec => []CountsZeros
<1>1. Init => CountInv
  <2> SUFFICES ASSUME Init PROVE CountInv
    OBVIOUS
  <2>1. x = call.x
    BY DEF Init, CountableCalls, ReceivedWhole, Parameter
  <2> QED BY <2>1, InitInv DEF CountInv, Init, CountsZeros
<1>2. CountInv /\ [Next]_vars => CountInv'
  BY CountStep, TypeStep, PathStep, ReceivedStep DEF CountInv, IInv
<1>3. CountInv => CountsZeros
  BY DEF CountInv
<1> QED BY <1>1, <1>2, <1>3, PTL DEF Spec
-----------------------------------------------------------------------------
(* The names that ns_result_from_errno knows and this platform defines. *)
DefinedNames(platform) == {Names[i] : i \in 1 .. Len(Names)} \cap DOMAIN platform

(* Names that share a number are to be converted to the same code. *)
Compatible(platform) ==
  \A a, b \in DefinedNames(platform) : platform[a] = platform[b] => CodeOf(a) = CodeOf(b)

(* ns_result_from_errno compares with 76 names. *)
LEMMA NamesLength == Len(Names) = 76
BY DEF Names

(* The comparison that is taken is one that holds, and no earlier one does. *)
LEMMA FirstMatch ==
  ASSUME NEW platform, NEW error, Matches(platform, error) # {}
  PROVE  LET i == First(Matches(platform, error)) IN
         /\ i \in Matches(platform, error)
         /\ \A k \in Matches(platform, error) : i <= k
<1>1. Matches(platform, error) \in SUBSET Nat
  BY NamesLength DEF Matches
<1> QED BY <1>1, LeastExists, Zenon DEF First

(* Each name that the platform defines is converted to the code that the   *)
(* file has beside it, if names with the same number have the same code.   *)
THEOREM EachNameItsCode ==
  ASSUME NEW platform, Compatible(platform),
         NEW name \in DefinedNames(platform), platform[name] # 0
  PROVE  FromErrno(platform, platform[name]) = CodeOf(name)
<1> DEFINE matches == Matches(platform, platform[name])
           i       == First(matches)
<1>1. matches # {}
  BY DEF Matches, DefinedNames
<1>2. i \in matches
  BY <1>1, FirstMatch, Zenon
<1>3. Names[i] \in DefinedNames(platform) /\ platform[Names[i]] = platform[name]
  BY <1>2, Zenon DEF Matches, DefinedNames
<1>4. CodeOf(Names[i]) = CodeOf(name)
  BY <1>3, Zenon DEF Compatible
<1> QED BY <1>1, <1>4, Zenon DEF FromErrno

(* What Names is a list of. *)
NameSet ==
  {"E2BIG", "EACCES", "EADDRINUSE", "EAFNOSUPPORT", "EAGAIN", "EALREADY",
   "EBADF", "EBFONT", "EBUSY", "ECANCELED", "ECONNABORTED", "ECONNREFUSED",
   "ECONNRESET", "EDEADLK", "EDESTADDRREQ", "EDOM", "EDQUOT", "EEXIST",
   "EFAULT", "EFBIG", "EHOSTDOWN", "EHOSTUNREACH", "EILSEQ", "EINPROGRESS",
   "EINTR", "EINVAL", "EIO", "EISCONN", "EISDIR", "ELIBACC", "ELIBBAD",
   "ELIBSCN", "ELNRNG", "EMFILE", "EMSGSIZE", "ENAMETOOLONG", "ENETDOWN",
   "ENETRESET", "ENETUNREACH", "ENFILE", "ENOBUFS", "ENODATA", "ENODEV",
   "ENOENT", "ENOEXEC", "ENOMEDIUM", "ENOMEM", "ENONET", "ENOPROTOOPT",
   "ENOSPC", "ENOSR", "ENOSYS", "ENOTCONN", "ENOTDIR", "ENOTEMPTY",
   "ENOTSOCK", "ENOTTY", "ENXIO", "EOPNOTSUPP", "EOVERFLOW", "EPERM",
   "EPFNOSUPPORT", "EPIPE", "EPROTONOSUPPORT", "EPROTOTYPE", "ERANGE",
   "EREMOTEIO", "EROFS", "ESOCKTNOSUPPORT", "ESPIPE", "ESRCH", "ESTALE",
   "ETIME", "ETIMEDOUT", "ETXTBSY", "EXDEV"}

(* No other name is compared with. *)
LEMMA NamesInSet == \A i \in 1 .. Len(Names) : Names[i] \in NameSet
BY NamesLength, SMTT(60) DEF Names, NameSet

(* Every name is in one of the cases. *)
LEMMA CodesOfNames == \A name \in NameSet : CodeOf(name) \in Named \ {"NS_SUCCESS", "NS_ERROR"}
BY SMTT(60) DEF NameSet, CodeOf, Named

(* Zero and nothing else is success, and an error that is recognised has a *)
(* text of its own: "Unknown error" is said of unknown errors only.        *)
THEOREM UnknownOnlyIfUnknown ==
  ASSUME NEW platform, NEW error
  PROVE  LET code == FromErrno(platform, error) IN
         /\ code \in Codes
         /\ code = "NS_SUCCESS" <=> error = 0
         /\ Text(code) = Text("NS_ERROR") <=> error # 0 /\ Matches(platform, error) = {}
<1> DEFINE matches == Matches(platform, error)
           code    == FromErrno(platform, error)
<1>0. {"NS_SUCCESS", "NS_ERROR"} \subseteq Named /\ Named \subseteq Codes
  BY SMTT(30) DEF Named, Codes
<1>1. Text("NS_ERROR") = "NS_ERROR" /\ Text("NS_SUCCESS") = "NS_SUCCESS"
  BY <1>0, Zenon DEF Text
<1>2. CASE error = 0
  <2>1. code = "NS_SUCCESS"
    BY <1>2, Zenon DEF FromErrno
  <2> QED BY <1>0, <1>1, <1>2, <2>1
<1>3. CASE error # 0 /\ matches = {}
  <2>1. code = "NS_ERROR"
    BY <1>3, Zenon DEF FromErrno
  <2> QED BY <1>0, <1>1, <1>3, <2>1
<1>4. CASE error # 0 /\ matches # {}
  <2>1. First(matches) \in 1 .. Len(Names)
    BY <1>4, FirstMatch, Zenon DEF Matches
  <2>2. code = CodeOf(Names[First(matches)])
    BY <1>4, Zenon DEF FromErrno
  <2>3. code \in Named \ {"NS_SUCCESS", "NS_ERROR"}
    BY <2>1, <2>2, NamesInSet, CodesOfNames, Zenon
  <2>4. Text(code) = code
    BY <2>3, Zenon DEF Text
  <2> QED BY <1>0, <1>1, <1>4, <2>3, <2>4
<1> QED BY <1>2, <1>3, <1>4

(* ns_result_from_GetLastError too only returns codes that have a text of  *)
(* their own.                                                              *)
THEOREM LastErrorHasText ==
  ASSUME NEW error
  PROVE  Text(FromGetLastError(error)) = FromGetLastError(error)
<1>1. FromGetLastError(error) \in Named
  BY SMTT(60) DEF FromGetLastError, Named
<1> QED BY <1>1, Zenon DEF Text
=============================================================================
