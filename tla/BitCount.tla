------------------------------ MODULE BitCount ------------------------------
(***************************************************************************)
(* tzcnt.c and lzcnt.c: the count of the zero bits below the lowest or     *)
(* above the highest 1 of a 32- or 64-bit word, by way of the functions    *)
(* that this build has.  The files differ in their leaves only, and the    *)
(* dispatch below is that of both.  A word is the set of its 1 bits.       *)
(***************************************************************************)
EXTENDS Integers

CONSTANTS
  Calls,      \* the calls that may be made: [op, width, build, fn, x]
  Registers   \* the numbers that a register which was not written may hold

Ops == {"tz", "lz"}
Widths == {32, 64}

(* The compiler, the processor's family, and the two features that matter  *)
(* of an x86: ABM, which has LZCNT, and BMI1, which has TZCNT.  There are  *)
(* none with BMI1 alone.                                                   *)
Builds ==
  {b \in [compiler : {"msvc", "gcc", "other"},
          arch : {"x86", "x64", "arm", "arm64", "other", "other64"},
          abm : BOOLEAN, bmi1 : BOOLEAN] :
     /\ b.bmi1 => b.abm
     /\ b.abm => b.arch \in {"x86", "x64"}}

Functions == {"count", "hard", "soft",
              "generic", "bitscan", "builtin", "msvc_x", "gcc_x", "gcc_arm"}

Hardware == {"hard", "msvc_x", "gcc_x", "gcc_arm"}

ASSUME RegistersAssumption == Registers \subseteq Nat

ASSUME CallsAssumption ==
  \A c \in Calls :
    /\ c.op \in Ops /\ c.width \in Widths /\ c.build \in Builds
    /\ c.fn \in Functions /\ c.x \subseteq 0 .. c.width - 1

VARIABLES
  call,   \* the call that was made
  fn,     \* the function that is running
  x,      \* its argument
  ret     \* what it returned, or Running

vars == <<call, fn, x, ret>>

Running == -100   \* not a number that any of them returns

build == call.build
width == call.width

(* The argument as function f receives it: count, hard and soft take an    *)
(* unsigned int, whatever their names say.                                 *)
Parameter(f, w) == IF f \in {"count", "hard", "soft"} THEN w \cap (0 .. 31) ELSE w

(* A call that may reach TZCNT with 0 needs a processor that has TZCNT if  *)
(* it has LZCNT: has_tzcnt_hard asks for the bit of the latter.  What else *)
(* it returns is anything.                                                 *)
HasTzcnt(c) ==
  /\ c.op = "tz" /\ c.fn \in Hardware \cup {"count"}
  /\ c.build.compiler = "gcc" /\ Parameter(c.fn, c.x) = {}
  => (c.build.abm => c.build.bmi1)

TypeOK ==
  /\ call \in Calls
  /\ fn \in Functions
  /\ x \subseteq 0 .. width - 1
  /\ ret \in 0 .. width \cup {Running} \cup (IF HasTzcnt(call) THEN {} ELSE Registers)
-----------------------------------------------------------------------------
Lowest(w) == CHOOSE b \in w : \A c \in w : b <= c
Highest(w) == CHOOSE b \in w : \A c \in w : c <= b

Shr(w, k) == {b - k : b \in {c \in w : c >= k}}
Shl(w, k) == {b + k : b \in {c \in w : c + k < width}}

(* tzcntNN_generic: n counts the bits shifted out, and one too many. *)
(* A mutant: the mask is a bit short. *)
TzGenericStepShort(s, k) ==
  IF s.x \cap (0 .. k - 2) = {} THEN [x |-> Shr(s.x, k), n |-> s.n + k] ELSE s

TzGenericStep(s, k) ==
  IF s.x \cap (0 .. k - 1) = {} THEN [x |-> Shr(s.x, k), n |-> s.n + k] ELSE s

TzGenericSteps(s) ==
  LET s32 == IF width = 64 THEN TzGenericStep(s, 32) ELSE s
      s16 == TzGenericStep(s32, 16)
      s8 == TzGenericStep(s16, 8)
      s4 == TzGenericStep(s8, 4)
  IN  TzGenericStep(s4, 2)

TzGeneric(w) ==
  IF 0 \in w THEN 0
  ELSE IF w = {} THEN width
  ELSE LET s == TzGenericSteps([x |-> w, n |-> 1])
       IN  s.n - (IF 0 \in s.x THEN 1 ELSE 0)

(* clz_table_4[w >> (width - 4)]: one more than the zeros that the four    *)
(* highest bits begin with, or 0 if there is nothing else in them.         *)
Table4(w) ==
  LET top == w \cap (width - 4 .. width - 1)
  IN  IF top = {} THEN 0 ELSE width - Highest(top)

LzGenericStep(s, k) ==
  IF s.x \cap (width - k .. width - 1) = {}
  THEN [x |-> Shl(s.x, k), n |-> s.n + k]
  ELSE s

LzGenericSteps(s) ==
  LET s32 == IF width = 64 THEN LzGenericStep(s, 32) ELSE s
      s16 == LzGenericStep(s32, 16)
      s8 == LzGenericStep(s16, 8)
  IN  LzGenericStep(s8, 4)

LzGeneric(w) ==
  IF w = {} THEN width
  ELSE IF Table4(w) /= 0 THEN Table4(w) - 1
  ELSE LET s == LzGenericSteps([x |-> w, n |-> 0])
       IN  s.n + Table4(s.x) - 1
-----------------------------------------------------------------------------
(* The instructions and the intrinsics.  LZCNT and TZCNT run as BSR and    *)
(* BSF on a processor that lacks them, which give the position of the 1    *)
(* that they find, and for a word of no 1 bits leave in the register what  *)
(* happens to be there.                                                    *)
Clz(w) == IF w = {} THEN width ELSE width - 1 - Highest(w)

Lzcnt(w) ==
  IF build.abm THEN {Clz(w)} ELSE IF w = {} THEN Registers ELSE {Highest(w)}

TzcntInstruction(w) ==
  IF w /= {} THEN {Lowest(w)} ELSE IF build.bmi1 THEN {width} ELSE Registers

(* _BitScanForward, _BitScanReverse and __builtin_ctz, __builtin_clz. *)
TzScan(w) == IF w = {} THEN width ELSE Lowest(w)
LzScan(w) == IF w = {} THEN width ELSE width - Highest(w) - 1

(* x & -x keeps the lowest 1; the 64-bit function does not have it. *)
TzMsvcX(w) ==
  IF w = {} THEN {width}
  ELSE IF width = 32 THEN {31 - n : n \in Lzcnt({Lowest(w)})}
  ELSE {63 - n : n \in Lzcnt(w)}

(* A mutant: a word of no 1 bits is not looked for. *)
TzGccArmUnchecked(w) == width - 1 - Clz(w)

TzGccArm(w) == IF w = {} THEN width ELSE width - 1 - Clz(w)

(* What function f, of those that call no other, may return. *)
TzReturns(f) ==
  CASE f = "generic"              -> {TzGeneric(x)}
    [] f \in {"bitscan", "builtin"} -> {TzScan(x)}
    [] f = "msvc_x"               -> TzMsvcX(x)
    [] f = "gcc_x"                -> TzcntInstruction(x)
    [] f = "gcc_arm"              -> {TzGccArm(x)}

LzReturns(f) ==
  CASE f = "generic"              -> {LzGeneric(x)}
    [] f \in {"bitscan", "builtin"} -> {LzScan(x)}
    [] f \in {"msvc_x", "gcc_x"}  -> Lzcnt(x)
    [] f = "gcc_arm"              -> {Clz(x)}
-----------------------------------------------------------------------------
X86 == build.arch \in {"x86", "x64"}
Arm == build.arch = "arm" \/ (build.arch = "arm64" /\ build.compiler = "gcc")
Is64Bit == build.arch \in {"x64", "arm64", "other64"}

(* HAS_TZCNT32_HARD, HAS_TZCNT64_HARD and those of lzcnt.c. *)
HasHardMacro ==
  /\ \/ X86 /\ build.compiler \in {"msvc", "gcc"}
     \/ Arm /\ build.compiler = "gcc"
  /\ width = 64 => Is64Bit

(* has_tzcnt_hard and has_lzcnt_hard: both ask CPUID for the same bit. *)
HasHard ==
  \/ X86 /\ build.compiler \in {"msvc", "gcc"} /\ build.abm
  \/ Arm

(* The functions that are compiled in. *)
Defined(f) ==
  CASE f \in {"count", "soft", "generic"} -> TRUE
    [] f = "bitscan" -> build.compiler = "msvc" /\ (width = 64 => Is64Bit)
    [] f = "builtin" -> build.compiler = "gcc"
    [] f = "hard"    -> HasHardMacro
    [] f = "msvc_x"  -> HasHardMacro /\ X86 /\ build.compiler = "msvc"
    [] f = "gcc_x"   -> HasHardMacro /\ X86 /\ build.compiler = "gcc"
    [] f = "gcc_arm" -> HasHardMacro /\ Arm /\ build.compiler = "gcc"

CallInto(f) == /\ fn' = f
               /\ x' = Parameter(f, x)
               /\ UNCHANGED <<call, ret>>
-----------------------------------------------------------------------------
(* A hardware function is only called where has_tzcnt_hard() returns       *)
(* non-zero, as the file asks of its callers.                              *)
Init ==
  /\ call \in Calls
  /\ Defined(call.fn)
  /\ call.fn \in Hardware => HasHard
  /\ fn = call.fn
  /\ x = Parameter(call.fn, call.x)
  /\ ret = Running

Count ==
  /\ ret = Running /\ fn = "count"
  /\ CallInto(IF HasHardMacro /\ HasHard THEN "hard" ELSE "soft")

Hard ==
  /\ ret = Running /\ fn = "hard"
  /\ CallInto(IF Arm THEN "gcc_arm"
              ELSE IF build.compiler = "msvc" THEN "msvc_x"
              ELSE "gcc_x")

(* A mutant: the 64-bit intrinsic is used in a 32-bit build. *)
SoftAnyWidth ==
  /\ ret = Running /\ fn = "soft"
  /\ CallInto(IF build.compiler = "msvc" THEN "bitscan"
              ELSE IF build.compiler = "gcc" THEN "builtin"
              ELSE "generic")

Soft ==
  /\ ret = Running /\ fn = "soft"
  /\ CallInto(IF width = 64 /\ ~Is64Bit THEN "generic"
              ELSE IF build.compiler = "msvc" THEN "bitscan"
              ELSE IF build.compiler = "gcc" THEN "builtin"
              ELSE "generic")

Leaf ==
  /\ ret = Running /\ fn \notin {"count", "hard", "soft"}
  /\ ret' \in IF call.op = "tz" THEN TzReturns(fn) ELSE LzReturns(fn)
  /\ UNCHANGED <<call, fn, x>>

Step == Count \/ Hard \/ Soft \/ Leaf

Done == ret /= Running /\ UNCHANGED vars

Next == Step \/ Done

Spec == Init /\ [][Next]_vars
-----------------------------------------------------------------------------
(* The number of zeros, as tzcnt.c:6 and lzcnt.c:6 define it. *)
Zeros(op, w) ==
  IF w = {} THEN width
  ELSE IF op = "tz" THEN CHOOSE n \in w : \A b \in w : n <= b
  ELSE width - 1 - CHOOSE n \in w : \A b \in w : b <= n

(* What a call has to be like for the code to count right, which the files *)
(* do not ask of it: HasTzcnt; a 64-bit word that the functions taking an  *)
(* unsigned int receive whole;                                             *)
ReceivedWhole(c) == c.fn \in {"count", "hard", "soft"} => c.x \subseteq 0 .. 31

(* and one that may reach an instruction that counts from the wrong end is *)
(* of a word for which this shows nothing.                                 *)
HighestIsLowest(c) ==
  /\ c.op = "tz" /\ c.fn \in Hardware \cup {"count"}
  /\ \/ c.build.compiler = "gcc" /\ c.build.arch \in {"arm", "arm64"}
     \/ c.build.compiler = "msvc" /\ c.width = 64
  => \A a, b \in c.x : a = b

(* Whatever path a call of that kind takes through the dispatch, it        *)
(* returns the number of zeros of the word it was given.  On a processor   *)
(* without LZCNT that is for the paths that do not use it.                 *)
CountsZeros == ret /= Running => ret = Zeros(call.op, call.x)

(* No path leads to a function that this build does not compile.           *)
PathExists == Defined(fn)

(* The parts of what tzcnt.c promises that are looked at on their own.     *)


(* tzcnt.c:6-7: "When the input variable is 0, the total size in bits will *)
(* be returned (32 for tzcnt32 and 64 for tzcnt64)."  Of no other word are *)
(* all bits trailing zeros.                                                *)
AllZerosIffZero ==
  ret /= Running => (ret = width <=> call.x = {})
=============================================================================
