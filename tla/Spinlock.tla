------------------------------ MODULE Spinlock ------------------------------
(***************************************************************************)
(* spinlock.c: spinlock_lock and spinlock_unlock over an exchange, a store *)
(* and a load whose memory ordering depends on the compiler and on the     *)
(* processor the file is built for.                                        *)
(*                                                                         *)
(* Memory is the release/acquire one of C11, as far as the lock word and   *)
(* the data that it protects can tell: an exchange reads the last value    *)
(* written to the word, a load may read an older one (but never one older  *)
(* than what its thread has read or written before), and a thread knows of *)
(* another's accesses to the data only by acquiring what the other         *)
(* released.  Every build's instructions are at least as ordered as this.  *)
(***************************************************************************)
EXTENDS Integers

CONSTANTS
  Threads,
  Paths      \* the code paths that the build may select

Relaxed == 1
Consume == 2
Acquire == 3
Release == 4
AcqRel  == 5
SeqCst  == 6

(* The three MSVC paths (on ARM or not, and in assembly), the __atomic,    *)
(* the __sync and the assembly ones of GCC, and the one for chibicc.       *)
CodePaths == {"msvc", "msvc_arm", "msvc_asm", "gcc", "gcc_sync", "gcc_asm", "chibicc"}

ASSUME PathsAssumption == Paths \subseteq CodePaths

VARIABLES
  path,     \* the code path of this build
  pc,       \* where each thread is
  word,     \* the last value written to the lock
  canRead,  \* the values of the lock that a load of each thread may return
  seen,     \* the threads that every access to the data so far happens before
  msgSeen   \* ... and whether the last write of the lock passes that on

vars == <<path, pc, word, canRead, seen, msgSeen>>

Pcs == {"idle", "try", "spin", "critical"}

TypeOK ==
  /\ path \in Paths
  /\ pc \in [Threads -> Pcs]
  /\ word \in {0, 1}
  /\ canRead \in [Threads -> SUBSET {0, 1}]
  /\ seen \in SUBSET Threads
  /\ msgSeen \in BOOLEAN
-----------------------------------------------------------------------------
(* What the order argument buys: on each path, which half of a barrier the *)
(* generated instruction is at least.                                      *)
ByOrder(order) ==
  (IF order \in {Consume, Acquire, AcqRel, SeqCst} THEN {"acquire"} ELSE {}) \cup
  (IF order \in {Release, AcqRel, SeqCst} THEN {"release"} ELSE {})

Full == {"acquire", "release"}

(* Mutant of TestAndSetBarriers: the __sync path without its acquire. *)
TestAndSetBarriersSwapped(order) ==
  CASE path = "gcc_sync" -> IF order > Acquire THEN Full ELSE {"release"}
    [] path \in {"msvc_arm", "gcc"} -> ByOrder(order)
    [] OTHER -> Full

(* spinlock_test_and_set_explicit *)
TestAndSetBarriers(order) ==
  CASE path \in {"msvc_arm", "gcc"} -> ByOrder(order)
    [] path = "gcc_sync" -> IF order > Acquire THEN Full ELSE {"acquire"}
    [] OTHER -> Full

(* spinlock_clear_explicit *)
ClearBarriers(order) ==
  CASE path \in {"msvc_arm", "gcc"} -> ByOrder(order)
    [] path = "gcc_sync" -> IF order > Release THEN Full ELSE {"release"}
    [] path = "msvc_asm" -> IF order = Relaxed THEN {"release"} ELSE Full
    [] path = "gcc_asm"  -> CASE order = Relaxed -> {}
                              [] order = Release -> {"release"}
                              [] OTHER           -> Full
    [] OTHER -> Full

(* spinlock_load_explicit is a compare-and-swap of 0 for 0 on some paths,  *)
(* which reads the last value, and a plain load on the others.             *)
LoadIsCas == path \in {"msvc", "msvc_arm", "gcc_sync", "chibicc"}
-----------------------------------------------------------------------------
Init ==
  /\ path \in Paths
  /\ pc = [t \in Threads |-> "idle"]
  /\ word = 0
  /\ canRead = [t \in Threads |-> {0}]
  /\ seen = Threads
  /\ msgSeen = TRUE

Goto(t, from, to) ==
  /\ pc[t] = from
  /\ pc' = [pc EXCEPT ![t] = to]

(* The lock is written: other threads may go on reading what they could. *)
Write(t, v) ==
  /\ word' = v
  /\ canRead' = [u \in Threads |-> IF u = t THEN {v} ELSE canRead[u] \cup {v}]

(* spinlock_lock *)
Lock(t) ==
  /\ Goto(t, "idle", "try")
  /\ UNCHANGED <<path, word, canRead, seen, msgSeen>>

(* Mutants of TestAndSet: a load and a store instead of an exchange, and a *)
(* fetch-and-add instead of one.                                           *)
TestAndSetByLoad(t) ==
  \E v \in canRead[t] :
    /\ Goto(t, "try", IF v = 0 THEN "critical" ELSE "spin")
    /\ Write(t, 1)
    /\ seen' = IF msgSeen THEN seen \cup {t} ELSE seen
    /\ UNCHANGED <<path, msgSeen>>

TestAndSetByAdd(t) ==
  /\ Goto(t, "try", IF word = 0 THEN "critical" ELSE "spin")
  /\ Write(t, word + 1)
  /\ seen' = IF msgSeen THEN seen \cup {t} ELSE seen
  /\ UNCHANGED <<path, msgSeen>>

(* An exchange goes on with the release that it reads from, in addition to *)
(* being one itself when its order says so.                                *)
TestAndSet(t) ==
  /\ Goto(t, "try", IF word = 0 THEN "critical" ELSE "spin")
  /\ Write(t, 1)
  /\ seen' = IF msgSeen /\ "acquire" \in TestAndSetBarriers(Acquire)
               THEN seen \cup {t} ELSE seen
  /\ msgSeen' = (msgSeen \/ ("release" \in TestAndSetBarriers(Acquire) /\ t \in seen'))
  /\ UNCHANGED path

(* Mutant of LoadValue: the lock is taken on the strength of the load. *)
LoadValueEnters(t, v) ==
  /\ v \in canRead[t]
  /\ Goto(t, "spin", IF v = 1 THEN "spin" ELSE "critical")
  /\ UNCHANGED <<path, word, canRead, seen, msgSeen>>

(* The inner loop.  The value returned is one that t can still read; from  *)
(* then on t reads nothing older.                                          *)
LoadValue(t, v) ==
  /\ v \in canRead[t]
  /\ LoadIsCas => v = word
  /\ Goto(t, "spin", IF v = 1 THEN "spin" ELSE "try")
  /\ \E left \in SUBSET canRead[t] :
       /\ {v, word} \subseteq left
       /\ canRead' = [canRead EXCEPT ![t] = left]
  /\ UNCHANGED <<path, word, seen, msgSeen>>

(* Mutant of Load: the word is kept in a register. *)
LoadCached(t) ==
  /\ Goto(t, "spin", "spin")
  /\ UNCHANGED <<path, word, canRead, seen, msgSeen>>

Load(t) == \E v \in {0, 1} : LoadValue(t, v)

(* The data is read or written by the holder. *)
Access(t) ==
  /\ pc[t] = "critical"
  /\ seen' = {t}
  /\ msgSeen' = FALSE
  /\ UNCHANGED <<path, pc, word, canRead>>

(* spinlock_unlock *)
Unlock(t) ==
  /\ Goto(t, "critical", "idle")
  /\ Write(t, 0)
  /\ msgSeen' = ("release" \in ClearBarriers(Release) /\ t \in seen)
  /\ UNCHANGED <<path, seen>>
-----------------------------------------------------------------------------
Step(t) == TestAndSet(t) \/ Load(t) \/ Unlock(t)

Next == \E t \in Threads : Lock(t) \/ Step(t) \/ Access(t)

Spec == Init /\ [][Next]_vars

(* A thread in spinlock_lock keeps running, the holder unlocks some day,   *)
(* and a store becomes visible in finite time to a thread that keeps       *)
(* loading.                                                                *)
FairSpec ==
  /\ Spec
  /\ \A t \in Threads : WF_vars(Step(t)) /\ WF_vars(Load(t) /\ canRead'[t] = {word})
-----------------------------------------------------------------------------
(* At most one thread is between spinlock_lock and spinlock_unlock, on     *)
(* every code path, whatever stale values the inner loop has seen.         *)
MutualExclusion ==
  \A t, u \in Threads : pc[t] = "critical" /\ pc[u] = "critical" => t = u

(* No data race: all that earlier holders did to the data happens before   *)
(* anything the present holder does (the acquire of line 478 and the       *)
(* release of line 490 are enough, on every code path).                    *)
HandedOver == \A t \in Threads : pc[t] = "critical" => t \in seen

(* The lock is held exactly while somebody is in the critical section, so  *)
(* that an unlock cannot be lost between a failed exchange, which writes 1 *)
(* again, and the loads that follow it.                                    *)
WordIsHeld == word = 1 <=> \E t \in Threads : pc[t] = "critical"

(* Threads that want the lock do not all spin for ever: one of them gets   *)
(* it.  (Which one, and that each does some day, is not promised.)         *)
SomebodyEnters ==
  (\E t \in Threads : pc[t] \in {"try", "spin"}) ~> (\E t \in Threads : pc[t] = "critical")
=============================================================================
