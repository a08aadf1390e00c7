--------------------------- MODULE SpinlockProofs ---------------------------
(***************************************************************************)
(* The safety of the spinlock, for any number of threads and any set of    *)
(* code paths.  Mutual exclusion is inductive only together with what the  *)
(* word says (WordIsHeld); the hand-over of the data only together with    *)
(* the fact that a free lock always carries the last holder's release.     *)
(***************************************************************************)
EXTENDS Spinlock, TLAPS

(* A lock that is free was last written by a release that everything done  *)
(* to the data happens before.                                             *)
FreeMeansReleased == word = 0 => msgSeen

IInv ==
  /\ TypeOK
  /\ MutualExclusion
  /\ WordIsHeld
  /\ FreeMeansReleased
  /\ HandedOver

(* The acquire that spinlock_lock asks for (line 478) is obtained on every *)
(* code path.                                                              *)
LEMMA LockAcquires ==
  ASSUME path \in Paths PROVE "acquire" \in TestAndSetBarriers(Acquire)
BY PathsAssumption
   DEF CodePaths, TestAndSetBarriers, ByOrder, Full,
       Relaxed, Consume, Acquire, Release, AcqRel, SeqCst

(* ... and so is the release that spinlock_unlock asks for (line 490).     *)
LEMMA UnlockReleases ==
  ASSUME path \in Paths PROVE "release" \in ClearBarriers(Release)
BY PathsAssumption
   DEF CodePaths, ClearBarriers, ByOrder, Full,
       Relaxed, Consume, Acquire, Release, AcqRel, SeqCst

(* No step leaves the types of the variables.                              *)
LEMMA TypeStep == ASSUME TypeOK, [Next]_vars PROVE TypeOK'
<1> USE DEF TypeOK, Pcs
<1>1. ASSUME NEW t \in Threads, Lock(t) PROVE TypeOK'
  BY <1>1 DEF Lock, Goto
<1>2. ASSUME NEW t \in Threads, TestAndSet(t) PROVE TypeOK'
  <2>1. pc' \in [Threads -> Pcs] /\ word' \in {0, 1}
    BY <1>2 DEF TestAndSet, Goto, Write
  <2>2. canRead' \in [Threads -> SUBSET {0, 1}]
    BY <1>2 DEF TestAndSet, Write
  <2>3. path' \in Paths /\ seen' \in SUBSET Threads /\ msgSeen' \in BOOLEAN
    BY <1>2 DEF TestAndSet
  <2> QED BY <2>1, <2>2, <2>3
<1>3. ASSUME NEW t \in Threads, Load(t) PROVE TypeOK'
  <2>1. PICK v \in {0, 1} : LoadValue(t, v)
    BY <1>3 DEF Load
  <2>2. pc' \in [Threads -> Pcs]
    BY <2>1 DEF LoadValue, Goto
  <2>3. canRead' \in [Threads -> SUBSET {0, 1}]
    BY <2>1 DEF LoadValue
  <2> QED BY <2>1, <2>2, <2>3 DEF LoadValue
<1>4. ASSUME NEW t \in Threads, Access(t) PROVE TypeOK'
  BY <1>4 DEF Access
<1>5. ASSUME NEW t \in Threads, Unlock(t) PROVE TypeOK'
  <2>1. pc' \in [Threads -> Pcs] /\ word' \in {0, 1}
    BY <1>5 DEF Unlock, Goto, Write
  <2>2. canRead' \in [Threads -> SUBSET {0, 1}]
    BY <1>5 DEF Unlock, Write
  <2> QED BY <1>5, <2>1, <2>2 DEF Unlock
<1>6. CASE UNCHANGED vars
  BY <1>6 DEF vars
<1> QED BY <1>1, <1>2, <1>3, <1>4, <1>5, <1>6 DEF Next, Step

(* The inductive invariant is one.                                         *)
LEMMA InvStep == ASSUME IInv, [Next]_vars PROVE IInv'
<1>0. TypeOK'
  BY TypeStep DEF IInv
<1> USE DEF IInv, MutualExclusion, WordIsHeld, FreeMeansReleased, HandedOver
<1>1. ASSUME NEW t \in Threads, Lock(t) PROVE IInv'
  BY <1>0, <1>1 DEF Lock, Goto, TypeOK
<1>2. ASSUME NEW t \in Threads, TestAndSet(t) PROVE IInv'
  <2>1. seen \subseteq seen' /\ word' = 1
    BY <1>2 DEF TestAndSet, Write
  <2>2. CASE word = 0
    <3>1. pc'[t] = "critical" /\ t \in seen'
      BY <1>2, <2>2, LockAcquires DEF TestAndSet, Goto, TypeOK
    <3>2. \A u \in Threads \ {t} : pc'[u] = pc[u] /\ pc[u] # "critical"
      BY <1>2, <2>2 DEF TestAndSet, Goto, TypeOK
    <3> QED BY <1>0, <2>1, <3>1, <3>2
  <2>3. CASE word = 1
    <3>1. \A u \in Threads : pc'[u] = "critical" <=> pc[u] = "critical"
      BY <1>2, <2>3 DEF TestAndSet, Goto, TypeOK
    <3> QED BY <1>0, <2>1, <2>3, <3>1
  <2> QED BY <2>2, <2>3 DEF TypeOK
<1>3. ASSUME NEW t \in Threads, Load(t) PROVE IInv'
  <2>1. PICK v \in {0, 1} : LoadValue(t, v)
    BY <1>3 DEF Load
  <2>2. \A u \in Threads : pc'[u] = "critical" <=> pc[u] = "critical"
    BY <2>1 DEF LoadValue, Goto, TypeOK
  <2>3. word' = word /\ seen' = seen /\ msgSeen' = msgSeen
    BY <2>1 DEF LoadValue
  <2> QED BY <1>0, <2>2, <2>3
<1>4. ASSUME NEW t \in Threads, Access(t) PROVE IInv'
  <2>1. pc' = pc /\ word' = word /\ word = 1 /\ t \in seen'
    BY <1>4 DEF Access, TypeOK
  <2>2. \A u \in Threads : pc[u] = "critical" => u = t
    BY <1>4 DEF Access
  <2> QED BY <1>0, <2>1, <2>2
<1>5. ASSUME NEW t \in Threads, Unlock(t) PROVE IInv'
  <2>1. word' = 0 /\ msgSeen'
    BY <1>5, UnlockReleases DEF Unlock, Goto, Write, TypeOK
  <2>2. \A u \in Threads : pc'[u] # "critical"
    BY <1>5 DEF Unlock, Goto, TypeOK
  <2> QED BY <1>0, <2>1, <2>2
<1>6. CASE UNCHANGED vars
  BY <1>0, <1>6 DEF vars
<1> QED BY <1>1, <1>2, <1>3, <1>4, <1>5, <1>6 DEF Next, Step

(* Every reachable state satisfies the inductive invariant.                *)
THEOREM Invariant == Spec => []IInv
<1>1. Init => IInv
  BY DEF Init, IInv, TypeOK, Pcs, MutualExclusion, WordIsHeld, FreeMeansReleased, HandedOver
<1>2. IInv /\ [Next]_vars => IInv'
  BY InvStep
<1> QED BY <1>1, <1>2, PTL DEF Spec

(* The variables keep their types (spinlock.c:475-491).                    *)
THEOREM TypeCorrect == Spec => []TypeOK
<1>1. IInv => TypeOK
  BY DEF IInv
<1> QED BY <1>1, Invariant, PTL

(* At most one thread is between spinlock_lock and spinlock_unlock.        *)
THEOREM Exclusion == Spec => []MutualExclusion
<1>1. IInv => MutualExclusion
  BY DEF IInv
<1> QED BY <1>1, Invariant, PTL

(* The holder knows of all that the earlier holders did to the data.       *)
THEOREM RaceFreedom == Spec => []HandedOver
<1>1. IInv => HandedOver
  BY DEF IInv
<1> QED BY <1>1, Invariant, PTL

(* The word is 1 exactly while the lock is held.                           *)
THEOREM HeldWord == Spec => []WordIsHeld
<1>1. IInv => WordIsHeld
  BY DEF IInv
<1> QED BY <1>1, Invariant, PTL
=============================================================================
