-------------------------------- MODULE Yield --------------------------------
(***************************************************************************)
(* yield.c: what ns_yield is on each build, and the test program, in which *)
(* a thread polls g_IsFinished with it until main sets that.               *)
(*                                                                         *)
(* g_IsFinished is a plain int that one thread writes and another reads    *)
(* without a lock.  A compiler that optimises may take it not to change in *)
(* a loop that does nothing else, and read it once; it may also not.       *)
(***************************************************************************)
EXTENDS Naturals

VARIABLES
  build,         \* what the program is compiled for, and with
  hoisted,       \* the compiler has moved the read out of the loop
  g_IsFinished,
  seen,          \* the register with the value that was read, or Unread
  other,         \* where other_thread is
  main           \* where main is

vars == <<build, hoisted, g_IsFinished, seen, other, main>>

Unread == 2
-----------------------------------------------------------------------------
X86 == {"x86", "x64"}
Arm32 == {"ARMv6", "ARMv6K", "ARMv6T2", "ARMv7", "ARMv8 in 32 bits"}
Archs == X86 \cup Arm32 \cup {"ARM64", "another"}

(* Visual C++ knows Windows's processors; Digital Mars only the x86. *)
Builds ==
  [arch : Archs, compiler : {"GCC"}, optimised : BOOLEAN]
    \cup [arch : X86 \cup {"ARMv7", "ARM64"}, compiler : {"MSVC"}, optimised : BOOLEAN]
    \cup [arch : {"x86"}, compiler : {"DMC"}, optimised : BOOLEAN]

(* The ARM branch of ns_yield asks for macros that 32-bit ARM alone has. *)
KnownArm(arch) == arch \in Arm32 \ {"ARMv6"}

(* The body of ns_yield.  Digital Mars presents itself as an old _MSC_VER, *)
(* and its NOP stands in the branch of those.                              *)
Body(b) ==
  CASE b.arch \in X86 -> IF b.compiler = "DMC" THEN "nop" ELSE "pause"
    [] KnownArm(b.arch) -> IF b.compiler = "MSVC" \/ b.arch = "ARMv7" THEN "yield" ELSE "nop"
    [] OTHER -> "nothing"

(* With an instruction in its body that the compiler may not remove, the   *)
(* loop is left as it is.                                                  *)
MayHoist(b) == b.optimised /\ Body(b) = "nothing"
-----------------------------------------------------------------------------
Init ==
  /\ build \in Builds
  /\ hoisted \in {FALSE, MayHoist(build)}
  /\ g_IsFinished = 0 /\ seen = Unread
  /\ other = "not created" /\ main = "create"

(* while (g_IsFinished != 1) *)
OtherTest ==
  LET value == IF hoisted /\ seen # Unread THEN seen ELSE g_IsFinished IN
  /\ other = "test"
  /\ seen' = value
  /\ other' = IF value = 1 THEN "returned" ELSE "ns_yield"
  /\ UNCHANGED <<build, hoisted, g_IsFinished, main>>

(* ns_yield: a hint, whatever its body is *)
OtherYield ==
  /\ other = "ns_yield" /\ other' = "test"
  /\ UNCHANGED <<build, hoisted, g_IsFinished, seen, main>>

MainCreate ==
  /\ main = "create" /\ main' = "getchar"
  /\ other' = "test"
  /\ UNCHANGED <<build, hoisted, g_IsFinished, seen>>

(* getchar returns when the user presses Enter, which may never be. *)
MainGetchar ==
  /\ main = "getchar" /\ main' = "set"
  /\ UNCHANGED <<build, hoisted, g_IsFinished, seen, other>>

MainSet ==
  /\ main = "set" /\ main' = "join"
  /\ g_IsFinished' = 1
  /\ UNCHANGED <<build, hoisted, seen, other>>

MainJoin ==
  /\ main = "join" /\ other = "returned"
  /\ main' = "returned"
  /\ UNCHANGED <<build, hoisted, g_IsFinished, seen, other>>

OtherThread == OtherTest \/ OtherYield
MainThread == MainCreate \/ MainSet \/ MainJoin

Next == OtherThread \/ MainThread \/ MainGetchar

(* The system runs every thread that can run. *)
FairSpec == Init /\ [][Next]_vars /\ WF_vars(OtherThread) /\ WF_vars(MainThread)
-----------------------------------------------------------------------------
(* The program quits after Enter: once main has set the flag the thread    *)
(* that polls it with ns_yield ends, and main joins it.                    *)
Quits == main = "set" ~> main = "returned"
=============================================================================
