-------------------------- MODULE PthreadSemProofs --------------------------
(***************************************************************************)
(* The safety of the semaphore for any number of threads and any bounds,   *)
(* when pthread_sem_init is called with a value that is not negative, and  *)
(* that it implements the abstract semaphore.                              *)
(*                                                                         *)
(* The invariant has three parts: who owns the mutex (LockInv), what each  *)
(* history variable counts, if calls are counted (TakenInv to SumInv), and *)
(* what the value says (ValueInv, WakeupInv).  The counts are what makes   *)
(* the destruction of the semaphore safe: FinishedWith speaks of calls     *)
(* made and returned, NoUseAfterDestroy of where the signallers are.       *)
(***************************************************************************)
EXTENDS PthreadSem, FiniteSetTheorems, TLAPS

InWait == WaitPcs \cup {"wait_unlock"}
Coming == {"woken", "wait_test", "sig_cond"}

Count(f, places) == Cardinality({t \in Threads : f[t] \in places})
Here(place, places) == IF place \in places THEN 1 ELSE 0

LockInv == \A t \in Threads : pc[t] \in Critical <=> lock = t

(* A thread that has given a permit, or found no room for one, still owns  *)
(* the mutex, so that there is a permit.                                   *)
ValueInv ==
  /\ value >= 0
  /\ Live => value <= valueMax /\ valueMax >= 1
  /\ \A t \in Threads : pc[t] \in GivenPcs => value >= 1
  /\ \A t \in Threads : result[t] = "ERANGE" => pc[t] = "sig_unlock"

(* One permit may be taken and the wait not yet counted as done. *)
Returning == IF \E t \in Threads : pc[t] = "wait_unlock" THEN 1 ELSE 0

TakenInv  == counted => taken = waitsDone + Returning
WaitsInv  == counted => waits = waitsDone + Count(pc, InWait)
SignalInv == counted => given + Count(pc, SignalPcs) <= signals
SumInv    == counted /\ Live => value + taken = initial + given

WakeupInv ==
  (\E t \in Threads : pc[t] = "blocked") => value <= Count(pc, Coming)

DeadInv ==
  ~Live => /\ ~mutexLive /\ ~condLive
           /\ lock = NoThread
           /\ \A t \in Threads : pc[t] = "idle"

IInv ==
  /\ TypeOK
  /\ LockInv
  /\ ValueInv
  /\ TakenInv
  /\ WaitsInv
  /\ SignalInv
  /\ SumInv
  /\ WakeupInv
  /\ DeadInv
-----------------------------------------------------------------------------
(* Counting the threads at some places: a count is a natural number, zero  *)
(* exactly when nobody is there, and a move changes it by what the two     *)
(* places say.                                                             *)
LEMMA CountNat ==
  ASSUME NEW f \in [Threads -> Pcs], NEW places
  PROVE  /\ Count(f, places) \in Nat
         /\ Count(f, places) = 0 <=> \A t \in Threads : f[t] \notin places
<1> DEFINE S == {t \in Threads : f[t] \in places}
<1>1. IsFiniteSet(S)
  BY ThreadsAssumption, FS_Subset
<1>2. Cardinality(S) \in Nat /\ (Cardinality(S) = 0 <=> S = {})
  BY <1>1, FS_CardinalityType, FS_EmptySet
<1> QED BY <1>2 DEF Count

(* A step of one thread changes a count by what its two places say.         *)
LEMMA CountMove ==
  ASSUME NEW f \in [Threads -> Pcs], NEW t \in Threads, NEW to \in Pcs, NEW places
  PROVE  Count([f EXCEPT ![t] = to], places) = Count(f, places)
                            + Here(to, places)
                            - Here(f[t], places)
<1> DEFINE S == {u \in Threads : f[u] \in places}
           g == [f EXCEPT ![t] = to]
           R == {u \in Threads : g[u] \in places}
<1>0. IsFiniteSet(S) /\ Cardinality(S) \in Nat
  BY ThreadsAssumption, FS_Subset, FS_CardinalityType
<1>1. Count(f, places) = Cardinality(S) /\ Count(g, places) = Cardinality(R)
  BY DEF Count
<1>2. CASE to \in places /\ f[t] \notin places
  <2>1. R = S \cup {t} /\ t \notin S
    BY <1>2
  <2> HIDE DEF S, R
  <2>2. Cardinality(S \cup {t}) = Cardinality(S) + 1
    BY <1>0, <2>1, FS_AddElement
  <2> QED BY <1>0, <1>1, <1>2, <2>1, <2>2 DEF Here
<1>3. CASE to \notin places /\ f[t] \in places
  <2>1. R = S \ {t} /\ t \in S
    BY <1>3
  <2> HIDE DEF S, R
  <2>2. Cardinality(S \ {t}) = Cardinality(S) - 1
    BY <1>0, <2>1, FS_RemoveElement
  <2> QED BY <1>0, <1>1, <1>3, <2>1, <2>2 DEF Here
<1>4. CASE to \in places <=> f[t] \in places
  <2>1. R = S
    BY <1>4
  <2> HIDE DEF S, R
  <2> QED BY <1>0, <1>1, <1>4, <2>1 DEF Here
<1> QED BY <1>2, <1>3, <1>4

(* What Goto does to the places of the threads and to the three counts.    *)
LEMMA Moves ==
  ASSUME TypeOK, NEW t \in Threads, NEW from, NEW to \in Pcs, Goto(t, from, to)
  PROVE  /\ pc' \in [Threads -> Pcs]
         /\ pc[t] = from /\ pc'[t] = to
         /\ \A u \in Threads \ {t} : pc'[u] = pc[u]
         /\ \A places \in {InWait, SignalPcs, Coming} :
              /\ Count(pc, places) \in Nat /\ Count(pc', places) \in Nat
              /\ Count(pc', places) = Count(pc, places)
                                      + Here(to, places)
                                      - Here(from, places)
<1>1. pc \in [Threads -> Pcs] /\ pc[t] = from /\ pc' = [pc EXCEPT ![t] = to]
  BY DEF Goto, TypeOK
<1>2. pc' \in [Threads -> Pcs] /\ pc'[t] = to /\ \A u \in Threads \ {t} : pc'[u] = pc[u]
  BY <1>1
<1>3. ASSUME NEW places
      PROVE  /\ Count(pc, places) \in Nat /\ Count(pc', places) \in Nat
             /\ Count(pc', places) = Count(pc, places)
                                     + Here(to, places)
                                     - Here(from, places)
  <2>1. Count(pc, places) \in Nat /\ Count(pc', places) \in Nat
    BY <1>1, <1>2, CountNat
  <2>2. Count([pc EXCEPT ![t] = to], places)
          = Count(pc, places) + Here(to, places)
                              - Here(pc[t], places)
    BY <1>1, CountMove
  <2> QED BY <1>1, <2>1, <2>2
<1> QED BY <1>1, <1>2, <1>3

(* What pthread_cond_signal does to a count when it wakes u.               *)
LEMMA TwoMoves ==
  ASSUME TypeOK, NEW t \in Threads, NEW u \in Threads,
         pc[t] = "sig_cond", pc[u] = "blocked",
         pc' = [pc EXCEPT ![t] = "sig_unlock", ![u] = "woken"]
  PROVE  \A places \in {InWait, SignalPcs, Coming} :
           Count(pc', places) = Count(pc, places) + Here("sig_unlock", places)
                                - Here("sig_cond", places) + Here("woken", places)
                                - Here("blocked", places)
<1>1. pc \in [Threads -> Pcs] /\ "sig_unlock" \in Pcs /\ "woken" \in Pcs
  BY DEF TypeOK, Pcs, GivenPcs, WaitPcs
<1>2. PICK mid \in [Threads -> Pcs] : mid = [pc EXCEPT ![t] = "sig_unlock"]
  BY <1>1
<1>5. mid[u] = "blocked" /\ pc' = [mid EXCEPT ![u] = "woken"]
  BY <1>1, <1>2
<1>3. ASSUME NEW places
      PROVE  Count(mid, places)
               = Count(pc, places) + Here("sig_unlock", places) - Here("sig_cond", places)
  <2>1. Count([pc EXCEPT ![t] = "sig_unlock"], places)
          = Count(pc, places) + Here("sig_unlock", places) - Here(pc[t], places)
    BY <1>1, CountMove
  <2> QED BY <1>2, <2>1
<1>4. ASSUME NEW places
      PROVE  Count(pc', places)
               = Count(mid, places) + Here("woken", places) - Here("blocked", places)
  <2>1. Count([mid EXCEPT ![u] = "woken"], places)
          = Count(mid, places) + Here("woken", places) - Here(mid[u], places)
    BY <1>1, CountMove
  <2> QED BY <1>5, <2>1
<1> QED BY <1>3, <1>4
-----------------------------------------------------------------------------
(* No step leaves the types of the variables, whatever values init is      *)
(* called with.                                                            *)
LEMMA TypeStep == ASSUME TypeOK, [Next]_vars PROVE TypeOK'
<1> USE InitAssumption, BoundsAssumption DEF TypeOK, object, history, bounds, Tally, Within
<1>1. CASE CallOfInit
  <2>1. PICK v \in InitValues, m \in InitMaxes :
          InitRejected(v, m) \/ InitMutexFails(v, m) \/ InitCondFails(v, m) \/ InitSucceeds(v, m)
    BY <1>1 DEF CallOfInit
  <2>2. v \in Int /\ m \in Int
    OBVIOUS
  <2>3. CASE InitRejected(v, m)
    BY <2>3 DEF InitRejected, CallInit
  <2>4. CASE InitMutexFails(v, m)
    BY <2>2, <2>4 DEF InitMutexFails, InitStores, CallInit
  <2>5. CASE InitCondFails(v, m)
    <3>1. inits' \in 0 .. MaxInits /\ UNCHANGED <<lock, pc, result, spurious, counted>>
      BY <2>5 DEF InitCondFails, InitStores, CallInit
    <3>2. mutexLive' \in BOOLEAN /\ condLive' \in BOOLEAN
      BY <2>5 DEF InitCondFails
    <3> QED BY <2>2, <2>5, <3>1, <3>2 DEF InitCondFails, InitStores
  <2>6. CASE InitSucceeds(v, m)
    BY <2>2, <2>6 DEF InitSucceeds, InitStores, CallInit
  <2> QED BY <2>1, <2>3, <2>4, <2>5, <2>6
<1>2. CASE DestroySem
  BY <1>2 DEF DestroySem
<1>3. ASSUME NEW t \in Threads, StartWait(t) PROVE TypeOK'
  BY <1>3 DEF StartWait, Goto, Pcs, WaitPcs
<1>4. ASSUME NEW t \in Threads, StartSignal(t) PROVE TypeOK'
  BY <1>4 DEF StartSignal, Goto, Pcs, SignalPcs
<1>5. ASSUME NEW t \in Threads, SpuriousWake(t) PROVE TypeOK'
  BY <1>5 DEF SpuriousWake, Goto, Pcs, WaitPcs
<1>6. ASSUME NEW t \in Threads, WaitStep(t) PROVE TypeOK'
  <2>1. CASE WaitLock(t)
    BY <2>1 DEF WaitLock, LockMutex, Goto, Pcs, WaitPcs
  <2>2. CASE WaitBlock(t)
    BY <2>2 DEF WaitBlock, UnlockMutex, Goto, Pcs, WaitPcs
  <2>3. CASE WaitRelock(t)
    BY <2>3 DEF WaitRelock, LockMutex, Goto, Pcs, WaitPcs
  <2>4. CASE WaitTake(t)
    BY <2>4 DEF WaitTake, Goto, Pcs
  <2>5. CASE WaitReturn(t)
    BY <2>5 DEF WaitReturn, UnlockMutex, Goto, Pcs
  <2> QED BY <1>6, <2>1, <2>2, <2>3, <2>4, <2>5 DEF WaitStep
<1>7. ASSUME NEW t \in Threads, SignalStep(t) PROVE TypeOK'
  <2>1. CASE SignalLock(t)
    BY <2>1 DEF SignalLock, LockMutex, Goto, Pcs, SignalPcs
  <2>2. CASE SignalGive(t)
    BY <2>2 DEF SignalGive, Goto, Pcs, GivenPcs
  <2>3. CASE SignalFull(t)
    BY <2>3 DEF SignalFull, Goto, Pcs, GivenPcs
  <2>4. CASE CondSignal(t)
    BY <2>4 DEF CondSignal, Pcs, GivenPcs, WaitPcs
  <2>5. CASE SignalReturn(t)
    BY <2>5 DEF SignalReturn, UnlockMutex, Goto, Pcs
  <2> QED BY <1>7, <2>1, <2>2, <2>3, <2>4, <2>5 DEF SignalStep
<1>8. CASE UNCHANGED vars
  BY <1>8 DEF vars
<1> QED BY <1>1, <1>2, <1>3, <1>4, <1>5, <1>6, <1>7, <1>8 DEF Next, Step
-----------------------------------------------------------------------------
(* The inductive invariant, the calls of init and destroy first.           *)
LEMMA InitStep ==
  ASSUME InitValues \subseteq Nat, IInv, CallOfInit PROVE IInv'
<1> USE DEF IInv, DeadInv
<1>1. PICK v \in InitValues, m \in InitMaxes :
        InitRejected(v, m) \/ InitMutexFails(v, m) \/ InitCondFails(v, m) \/ InitSucceeds(v, m)
  BY DEF CallOfInit
<1>2. /\ ~Live /\ UNCHANGED <<lock, pc, result, counted>>
      /\ ~mutexLive /\ ~condLive
      /\ \A t \in Threads : pc[t] = "idle"
  BY <1>1 DEF InitRejected, InitMutexFails, InitCondFails, InitSucceeds, InitStores, CallInit
<1>3. TypeOK'
  <2> SUFFICES Next
    BY TypeStep
  <2> QED BY DEF Next
<1>4. LockInv' /\ WakeupInv'
  BY <1>2 DEF LockInv, WakeupInv
<1>5. Count(pc, InWait) = 0 /\ Count(pc, SignalPcs) = 0 /\ Returning = 0
  BY <1>2, CountNat DEF InWait, WaitPcs, SignalPcs, TypeOK, Returning
<1>6. UNCHANGED <<Count(pc, InWait), Count(pc, SignalPcs), Returning>>
  BY <1>2 DEF Returning
<1>7. CASE InitRejected(v, m)
  <2>1. UNCHANGED <<Live, value, valueMax>>
    BY <1>7 DEF InitRejected, object, Live
  <2>2. UNCHANGED <<mutexLive, condLive, given, taken, waits, waitsDone, signals, initial>>
    BY <1>7 DEF InitRejected, object, history
  <2> QED BY <1>2, <1>3, <1>4, <1>6, <2>1, <2>2
          DEF ValueInv, TakenInv, WaitsInv, SignalInv, SumInv
<1>8. CASE InitMutexFails(v, m) \/ InitCondFails(v, m)
  <2>1. ~mutexLive' /\ ~condLive' /\ ~Live'
    BY <1>2, <1>8 DEF InitMutexFails, InitCondFails, Live
  <2>2. value' \in Nat
    BY <1>8 DEF InitMutexFails, InitCondFails, InitStores
  <2>3. UNCHANGED <<given, taken, waits, waitsDone, signals>>
    BY <1>8 DEF InitMutexFails, InitCondFails, history
  <2> QED BY <1>2, <1>3, <1>4, <1>6, <2>1, <2>2, <2>3
          DEF ValueInv, TakenInv, WaitsInv, SignalInv, SumInv, GivenPcs
<1>9. CASE InitSucceeds(v, m)
  <2>1. Live' /\ value' \in Nat /\ valueMax' \in Int /\ value' <= valueMax' /\ valueMax' >= 1
    BY <1>9, InitAssumption DEF InitSucceeds, InitStores, InitArgsBad, Live
  <2>2. /\ initial' = value' /\ given' = 0 /\ taken' = 0
        /\ waits' = 0 /\ waitsDone' = 0 /\ signals' = 0
    BY <1>9 DEF InitSucceeds, InitStores
  <2> QED BY <1>2, <1>3, <1>4, <1>5, <1>6, <2>1, <2>2
          DEF ValueInv, TakenInv, WaitsInv, SignalInv, SumInv, GivenPcs
<1> QED BY <1>1, <1>7, <1>8, <1>9

(* When FinishedWith holds nobody is inside a call any more: no wait, and  *)
(* no signal because one that still held the mutex would leave a permit    *)
(* that no wait has taken.                                                 *)
LEMMA FinishedMeansIdle ==
  ASSUME IInv, Live, FinishedWith
  PROVE  lock = NoThread /\ \A t \in Threads : pc[t] = "idle"
<1> USE DEF IInv, TypeOK
<1>1. \A t \in Threads : pc[t] \notin InWait
  BY DEF FinishedWith, At, InWait
<1>2. \A t \in Threads : pc[t] \notin SignalPcs \cup GivenPcs
  <2>1. CASE At(SignalPcs \cup GivenPcs) = {}
    BY <2>1 DEF At
  <2>2. CASE counted /\ waitsDone = initial + signals
    <3>1. value <= 0 /\ Count(pc, SignalPcs) = 0
      BY <2>2, CountNat DEF TakenInv, Returning, SignalInv, SumInv, ValueInv
    <3> QED BY <3>1, CountNat DEF ValueInv
  <2> QED BY <2>1, <2>2 DEF FinishedWith
<1>3. \A t \in Threads : pc[t] = "idle"
  BY <1>1, <1>2 DEF Pcs, InWait
<1> QED BY <1>3 DEF LockInv, Critical

(* pthread_sem_destroy of a semaphore that is finished with: no thread is  *)
(* inside it, so that nothing of it is held or waited for.                 *)
LEMMA DestroyStep == ASSUME IInv, DestroySem PROVE IInv'
<1>1. lock = NoThread /\ \A t \in Threads : pc[t] = "idle"
  BY FinishedMeansIdle DEF DestroySem
<1>2. TypeOK'
  <2> SUFFICES Next
    BY TypeStep DEF IInv
  <2> QED BY DEF Next
<1>3. ~mutexLive' /\ ~condLive' /\ ~Live'
  BY DEF DestroySem, Live
<1>4. UNCHANGED <<value, lock, pc, result, given, taken, waits, waitsDone, signals, counted>>
  BY DEF DestroySem, history, bounds
<1> QED BY <1>1, <1>2, <1>3, <1>4
        DEF IInv, LockInv, ValueInv, TakenInv, Returning, WaitsInv, SignalInv, SumInv,
            WakeupInv, DeadInv
-----------------------------------------------------------------------------
(* The steps of one thread.  Each moves it from one place to another, so   *)
(* that the counts change by what the places say; a thread inside a call   *)
(* means a live semaphore (DeadInv).                                       *)
LEMMA WaitStepInv ==
  ASSUME IInv, TypeOK', NEW t \in Threads, WaitStep(t)
  PROVE  IInv'
<1> USE DEF IInv, TypeOK
<1>0. \A places \in {InWait, SignalPcs, Coming} : Count(pc, places) \in Nat
  BY CountNat
<1>1. CASE WaitLock(t)
  <2>1. Goto(t, "wait_lock", "wait_test") /\ "wait_test" \in Pcs
    BY <1>1 DEF WaitLock, Pcs, WaitPcs, SignalPcs, GivenPcs
  <2>2. /\ pc[t] = "wait_lock" /\ pc'[t] = "wait_test"
        /\ \A u \in Threads \ {t} : pc'[u] = pc[u]
        /\ Count(pc', InWait) = Count(pc, InWait)
        /\ Count(pc', SignalPcs) = Count(pc, SignalPcs)
        /\ Count(pc', Coming) = Count(pc, Coming) + 1
    BY <2>1, Moves DEF Here, InWait, WaitPcs, SignalPcs, Coming
  <2>3. /\ UNCHANGED <<valueMax, Live, mutexLive, condLive, initial, counted>>
        /\ UNCHANGED <<value, taken, waitsDone, waits, given, signals, result>>
        /\ lock = NoThread /\ lock' = t
    BY <1>1 DEF WaitLock, LockMutex, object, history, Live, bounds
  <2>4. LockInv' /\ DeadInv'
    BY <2>2, <2>3, ThreadsAssumption DEF LockInv, Critical, DeadInv
  <2>5. ValueInv'
    BY <2>2, <2>3 DEF ValueInv, GivenPcs, LockInv, Critical, DeadInv
  <2>6. TakenInv' /\ WaitsInv' /\ SignalInv' /\ SumInv'
    BY <1>0, <2>2, <2>3 DEF Tally, TakenInv, Returning, WaitsInv, SignalInv, SumInv, LockInv, Critical
  <2>7. WakeupInv'
    BY <1>0, <2>2, <2>3 DEF WakeupInv
  <2> QED BY <2>4, <2>5, <2>6, <2>7
<1>2. CASE WaitBlock(t)
  <2>1. Goto(t, "wait_test", "blocked") /\ "blocked" \in Pcs
    BY <1>2 DEF WaitBlock, Pcs, WaitPcs, SignalPcs, GivenPcs
  <2>2. /\ pc[t] = "wait_test" /\ pc'[t] = "blocked"
        /\ \A u \in Threads \ {t} : pc'[u] = pc[u]
        /\ Count(pc', InWait) = Count(pc, InWait)
        /\ Count(pc', SignalPcs) = Count(pc, SignalPcs)
        /\ Count(pc', Coming) = Count(pc, Coming) - 1
    BY <2>1, Moves DEF Here, InWait, WaitPcs, SignalPcs, Coming
  <2>3. /\ UNCHANGED <<valueMax, Live, mutexLive, condLive, initial, counted>>
        /\ UNCHANGED <<value, taken, waitsDone, waits, given, signals, result>>
        /\ lock = t /\ lock' = NoThread /\ value = 0
    BY <1>2 DEF WaitBlock, UnlockMutex, object, history, Live, bounds
  <2>4. LockInv' /\ DeadInv'
    BY <2>2, <2>3, ThreadsAssumption DEF LockInv, Critical, DeadInv
  <2>5. ValueInv'
    BY <2>2, <2>3 DEF ValueInv, GivenPcs, LockInv, Critical, DeadInv
  <2>6. TakenInv' /\ WaitsInv' /\ SignalInv' /\ SumInv'
    BY <1>0, <2>2, <2>3 DEF Tally, TakenInv, Returning, WaitsInv, SignalInv, SumInv, LockInv, Critical
  <2>7. WakeupInv'
    <3>1. Count(pc', Coming) \in Nat
      BY <2>1, Moves
    <3> QED BY <2>3, <3>1 DEF WakeupInv
  <2> QED BY <2>4, <2>5, <2>6, <2>7
<1>3. CASE WaitRelock(t)
  <2>1. Goto(t, "woken", "wait_test") /\ "wait_test" \in Pcs
    BY <1>3 DEF WaitRelock, Pcs, WaitPcs, SignalPcs, GivenPcs
  <2>2. /\ pc[t] = "woken" /\ pc'[t] = "wait_test"
        /\ \A u \in Threads \ {t} : pc'[u] = pc[u]
        /\ Count(pc', InWait) = Count(pc, InWait)
        /\ Count(pc', SignalPcs) = Count(pc, SignalPcs)
        /\ Count(pc', Coming) = Count(pc, Coming)
    BY <2>1, Moves DEF Here, InWait, WaitPcs, SignalPcs, Coming
  <2>3. /\ UNCHANGED <<valueMax, Live, mutexLive, condLive, initial, counted>>
        /\ UNCHANGED <<value, taken, waitsDone, waits, given, signals, result>>
        /\ lock = NoThread /\ lock' = t
    BY <1>3 DEF WaitRelock, LockMutex, object, history, Live, bounds
  <2>4. LockInv' /\ DeadInv'
    BY <2>2, <2>3, ThreadsAssumption DEF LockInv, Critical, DeadInv
  <2>5. ValueInv'
    BY <2>2, <2>3 DEF ValueInv, GivenPcs, LockInv, Critical, DeadInv
  <2>6. TakenInv' /\ WaitsInv' /\ SignalInv' /\ SumInv'
    BY <1>0, <2>2, <2>3 DEF Tally, TakenInv, Returning, WaitsInv, SignalInv, SumInv, LockInv, Critical
  <2>7. WakeupInv'
    BY <1>0, <2>2, <2>3 DEF WakeupInv
  <2> QED BY <2>4, <2>5, <2>6, <2>7
<1>4. CASE WaitTake(t)
  <2>1. Goto(t, "wait_test", "wait_unlock") /\ "wait_unlock" \in Pcs
    BY <1>4 DEF WaitTake, Pcs, WaitPcs, SignalPcs, GivenPcs
  <2>2. /\ pc[t] = "wait_test" /\ pc'[t] = "wait_unlock"
        /\ \A u \in Threads \ {t} : pc'[u] = pc[u]
        /\ Count(pc', InWait) = Count(pc, InWait)
        /\ Count(pc', SignalPcs) = Count(pc, SignalPcs)
        /\ Count(pc', Coming) = Count(pc, Coming) - 1
    BY <2>1, Moves DEF Here, InWait, WaitPcs, SignalPcs, Coming
  <2>3. /\ UNCHANGED <<valueMax, Live, mutexLive, condLive, initial, counted>>
        /\ UNCHANGED <<waitsDone, waits, given, signals, result, lock>>
        /\ value # 0 /\ value' = value - 1 /\ taken' = Tally(taken)
    BY <1>4 DEF WaitTake, object, history, Live, bounds
  <2>4. LockInv' /\ DeadInv'
    BY <2>2, <2>3, ThreadsAssumption DEF LockInv, Critical, DeadInv
  <2>5. ValueInv'
    BY <2>2, <2>3 DEF ValueInv, GivenPcs, LockInv, Critical, DeadInv
  <2>6. TakenInv' /\ WaitsInv' /\ SignalInv' /\ SumInv'
    BY <1>0, <2>2, <2>3 DEF Tally, TakenInv, Returning, WaitsInv, SignalInv, SumInv, LockInv, Critical
  <2>7. WakeupInv'
    <3>1. (\E u \in Threads : pc'[u] = "blocked") => value <= Count(pc, Coming)
      BY <2>2 DEF WakeupInv
    <3>2. Count(pc, Coming) \in Nat
      BY <1>0
    <3> QED BY <2>2, <2>3, <3>1, <3>2 DEF WakeupInv
  <2> QED BY <2>4, <2>5, <2>6, <2>7
<1>5. CASE WaitReturn(t)
  <2>1. Goto(t, "wait_unlock", "idle") /\ "idle" \in Pcs
    BY <1>5 DEF WaitReturn, Pcs, WaitPcs, SignalPcs, GivenPcs
  <2>2. /\ pc[t] = "wait_unlock" /\ pc'[t] = "idle"
        /\ \A u \in Threads \ {t} : pc'[u] = pc[u]
        /\ Count(pc', InWait) = Count(pc, InWait) - 1
        /\ Count(pc', SignalPcs) = Count(pc, SignalPcs)
        /\ Count(pc', Coming) = Count(pc, Coming)
    BY <2>1, Moves DEF Here, InWait, WaitPcs, SignalPcs, Coming
  <2>3. /\ UNCHANGED <<valueMax, Live, mutexLive, condLive, initial, counted>>
        /\ UNCHANGED <<value, taken, waits, given, signals, result>>
        /\ lock = t /\ lock' = NoThread /\ waitsDone' = Tally(waitsDone)
    BY <1>5 DEF WaitReturn, UnlockMutex, object, history, Live, bounds
  <2>4. LockInv' /\ DeadInv'
    BY <2>2, <2>3, ThreadsAssumption DEF LockInv, Critical, DeadInv
  <2>5. ValueInv'
    BY <2>2, <2>3 DEF ValueInv, GivenPcs, LockInv, Critical, DeadInv
  <2>6. TakenInv' /\ WaitsInv' /\ SignalInv' /\ SumInv'
    BY <1>0, <2>2, <2>3 DEF Tally, TakenInv, Returning, WaitsInv, SignalInv, SumInv, LockInv, Critical
  <2>7. WakeupInv'
    BY <1>0, <2>2, <2>3 DEF WakeupInv
  <2> QED BY <2>4, <2>5, <2>6, <2>7
<1> QED BY <1>1, <1>2, <1>3, <1>4, <1>5 DEF WaitStep

(* The steps of pthread_sem_signal.                                        *)
LEMMA SignalStepInv ==
  ASSUME IInv, TypeOK', NEW t \in Threads, SignalStep(t)
  PROVE  IInv'
<1> USE DEF IInv, TypeOK
<1>0. \A places \in {InWait, SignalPcs, Coming} : Count(pc, places) \in Nat
  BY CountNat
<1>1. CASE SignalLock(t)
  <2>1. Goto(t, "sig_lock", "sig_test") /\ "sig_test" \in Pcs
    BY <1>1 DEF SignalLock, Pcs, WaitPcs, SignalPcs, GivenPcs
  <2>2. /\ pc[t] = "sig_lock" /\ pc'[t] = "sig_test"
        /\ \A u \in Threads \ {t} : pc'[u] = pc[u]
        /\ Count(pc', InWait) = Count(pc, InWait)
        /\ Count(pc', SignalPcs) = Count(pc, SignalPcs)
        /\ Count(pc', Coming) = Count(pc, Coming)
    BY <2>1, Moves DEF Here, InWait, WaitPcs, SignalPcs, Coming
  <2>3. /\ UNCHANGED <<valueMax, Live, mutexLive, condLive, initial, counted>>
        /\ UNCHANGED <<value, taken, waitsDone, waits, given, signals, result>>
        /\ lock = NoThread /\ lock' = t
    BY <1>1 DEF SignalLock, LockMutex, object, history, Live, bounds
  <2>4. LockInv' /\ DeadInv'
    BY <2>2, <2>3, ThreadsAssumption DEF LockInv, Critical, DeadInv
  <2>5. ValueInv'
    BY <2>2, <2>3 DEF ValueInv, GivenPcs, LockInv, Critical, DeadInv
  <2>6. TakenInv' /\ WaitsInv' /\ SignalInv' /\ SumInv'
    BY <1>0, <2>2, <2>3 DEF Tally, TakenInv, Returning, WaitsInv, SignalInv, SumInv, LockInv, Critical
  <2>7. WakeupInv'
    BY <1>0, <2>2, <2>3 DEF WakeupInv
  <2> QED BY <2>4, <2>5, <2>6, <2>7
<1>2. CASE SignalGive(t)
  <2>1. Goto(t, "sig_test", "sig_cond") /\ "sig_cond" \in Pcs
    BY <1>2 DEF SignalGive, Pcs, WaitPcs, SignalPcs, GivenPcs
  <2>2. /\ pc[t] = "sig_test" /\ pc'[t] = "sig_cond"
        /\ \A u \in Threads \ {t} : pc'[u] = pc[u]
        /\ Count(pc', InWait) = Count(pc, InWait)
        /\ Count(pc', SignalPcs) = Count(pc, SignalPcs) - 1
        /\ Count(pc', Coming) = Count(pc, Coming) + 1
    BY <2>1, Moves DEF Here, InWait, WaitPcs, SignalPcs, Coming
  <2>3. /\ UNCHANGED <<valueMax, Live, mutexLive, condLive, initial, counted>>
        /\ UNCHANGED <<taken, waitsDone, waits, signals, result, lock>>
        /\ value < valueMax /\ value' = value + 1 /\ given' = Tally(given)
    BY <1>2 DEF SignalGive, object, history, Live, bounds
  <2>4. LockInv' /\ DeadInv'
    BY <2>2, <2>3, ThreadsAssumption DEF LockInv, Critical, DeadInv
  <2>5. ValueInv'
    BY <2>2, <2>3 DEF ValueInv, GivenPcs, LockInv, Critical, DeadInv
  <2>6. TakenInv' /\ WaitsInv' /\ SignalInv' /\ SumInv'
    BY <1>0, <2>2, <2>3 DEF Tally, TakenInv, Returning, WaitsInv, SignalInv, SumInv, LockInv, Critical
  <2>7. WakeupInv'
    BY <1>0, <2>2, <2>3 DEF WakeupInv
  <2> QED BY <2>4, <2>5, <2>6, <2>7
<1>3. CASE SignalFull(t)
  <2>1. Goto(t, "sig_test", "sig_unlock") /\ "sig_unlock" \in Pcs
    BY <1>3 DEF SignalFull, Pcs, WaitPcs, SignalPcs, GivenPcs
  <2>2. /\ pc[t] = "sig_test" /\ pc'[t] = "sig_unlock"
        /\ \A u \in Threads \ {t} : pc'[u] = pc[u]
        /\ Count(pc', InWait) = Count(pc, InWait)
        /\ Count(pc', SignalPcs) = Count(pc, SignalPcs) - 1
        /\ Count(pc', Coming) = Count(pc, Coming)
    BY <2>1, Moves DEF Here, InWait, WaitPcs, SignalPcs, Coming
  <2>3. /\ UNCHANGED <<valueMax, Live, mutexLive, condLive, initial, counted>>
        /\ UNCHANGED <<value, taken, waitsDone, waits, given, signals, lock>>
        /\ value >= valueMax /\ result' = [result EXCEPT ![t] = "ERANGE"]
    BY <1>3 DEF SignalFull, object, history, Live, bounds
  <2>4. LockInv' /\ DeadInv'
    BY <2>2, <2>3, ThreadsAssumption DEF LockInv, Critical, DeadInv
  <2>5. ValueInv'
    BY <2>2, <2>3 DEF ValueInv, GivenPcs, LockInv, Critical, DeadInv
  <2>6. TakenInv' /\ WaitsInv' /\ SignalInv' /\ SumInv'
    BY <1>0, <2>2, <2>3 DEF Tally, TakenInv, Returning, WaitsInv, SignalInv, SumInv, LockInv, Critical
  <2>7. WakeupInv'
    BY <1>0, <2>2, <2>3 DEF WakeupInv
  <2> QED BY <2>4, <2>5, <2>6, <2>7
<1>4. CASE SignalReturn(t)
  <2>1. Goto(t, "sig_unlock", "idle") /\ "idle" \in Pcs
    BY <1>4 DEF SignalReturn, Pcs, WaitPcs, SignalPcs, GivenPcs
  <2>2. /\ pc[t] = "sig_unlock" /\ pc'[t] = "idle"
        /\ \A u \in Threads \ {t} : pc'[u] = pc[u]
        /\ Count(pc', InWait) = Count(pc, InWait)
        /\ Count(pc', SignalPcs) = Count(pc, SignalPcs)
        /\ Count(pc', Coming) = Count(pc, Coming)
    BY <2>1, Moves DEF Here, InWait, WaitPcs, SignalPcs, Coming
  <2>3. /\ UNCHANGED <<valueMax, Live, mutexLive, condLive, initial, counted>>
        /\ UNCHANGED <<value, taken, waitsDone, waits, given, signals>>
        /\ lock = t /\ lock' = NoThread /\ result' = [result EXCEPT ![t] = "OK"]
    BY <1>4 DEF SignalReturn, UnlockMutex, object, history, Live, bounds
  <2>4. LockInv' /\ DeadInv'
    BY <2>2, <2>3, ThreadsAssumption DEF LockInv, Critical, DeadInv
  <2>5. ValueInv'
    BY <2>2, <2>3 DEF ValueInv, GivenPcs, LockInv, Critical, DeadInv
  <2>6. TakenInv' /\ WaitsInv' /\ SignalInv' /\ SumInv'
    BY <1>0, <2>2, <2>3 DEF Tally, TakenInv, Returning, WaitsInv, SignalInv, SumInv, LockInv, Critical
  <2>7. WakeupInv'
    BY <1>0, <2>2, <2>3 DEF WakeupInv
  <2> QED BY <2>4, <2>5, <2>6, <2>7
<1>5. CASE CondSignal(t)
  <2>1. /\ pc[t] = "sig_cond"
        /\ UNCHANGED <<object, lock, result, history, Live, counted>>
    BY <1>5 DEF CondSignal, object, Live, bounds
  <2>2. LockInv' /\ DeadInv' /\ ValueInv'
    BY <1>5, <2>1 DEF CondSignal, Blocked, At, LockInv, Critical, DeadInv, ValueInv, GivenPcs, object
  <2>3. CASE Blocked = {} /\ Goto(t, "sig_cond", "sig_unlock")
    <3>1. "sig_unlock" \in Pcs
      BY DEF Pcs, GivenPcs
    <3>2. /\ Count(pc', InWait) = Count(pc, InWait)
          /\ Count(pc', SignalPcs) = Count(pc, SignalPcs)
      BY <2>3, <3>1, Moves DEF Here, InWait, WaitPcs, SignalPcs
    <3>3. TakenInv' /\ WaitsInv' /\ SignalInv' /\ SumInv'
      BY <2>1, <2>3, <3>2 DEF Goto, TakenInv, Returning, WaitsInv, SignalInv, SumInv, object, history
    <3>4. WakeupInv'
      BY <2>3 DEF WakeupInv, Goto, Blocked, At
    <3> QED BY <2>2, <3>3, <3>4
  <2>4. ASSUME NEW u \in Blocked, pc' = [pc EXCEPT ![t] = "sig_unlock", ![u] = "woken"]
        PROVE  IInv'
    <3>1. u \in Threads /\ pc[u] = "blocked"
      BY <2>4 DEF Blocked, At
    <3>2. \A places \in {InWait, SignalPcs, Coming} :
            Count(pc', places) = Count(pc, places) + Here("sig_unlock", places)
                                 - Here("sig_cond", places) + Here("woken", places)
                                 - Here("blocked", places)
      BY <2>1, <2>4, <3>1, TwoMoves
    <3>3. /\ Count(pc', InWait) = Count(pc, InWait)
          /\ Count(pc', SignalPcs) = Count(pc, SignalPcs)
          /\ Count(pc', Coming) = Count(pc, Coming)
      BY <1>0, <3>2 DEF Here, InWait, WaitPcs, SignalPcs, Coming
    <3>4. \A x \in Threads : pc'[x] \in {"wait_unlock", "blocked"} => pc'[x] = pc[x]
      BY <2>4
    <3>5. \A x \in Threads : pc[x] = "wait_unlock" => pc'[x] = pc[x]
      BY <2>1, <2>4 DEF Blocked, At
    <3>6. TakenInv' /\ WaitsInv' /\ SignalInv' /\ SumInv'
      BY <2>1, <3>3, <3>4, <3>5 DEF TakenInv, Returning, WaitsInv, SignalInv, SumInv, object, history
    <3>7. WakeupInv'
      BY <2>1, <3>3, <3>4 DEF WakeupInv, object
    <3> QED BY <2>2, <3>6, <3>7
  <2> QED BY <1>5, <2>3, <2>4 DEF CondSignal, Goto
<1> QED BY <1>1, <1>2, <1>3, <1>4, <1>5 DEF SignalStep

(* The calls of wait and signal, and the wakeups that nobody caused.        *)
LEMMA CallStepInv ==
  ASSUME IInv, TypeOK', NEW t \in Threads, StartWait(t) \/ StartSignal(t) \/ SpuriousWake(t)
  PROVE  IInv'
<1> USE DEF IInv, TypeOK
<1>0. \A places \in {InWait, SignalPcs, Coming} : Count(pc, places) \in Nat
  BY CountNat
<1>1. CASE StartWait(t)
  <2>1. Goto(t, "idle", "wait_lock") /\ "wait_lock" \in Pcs
    BY <1>1 DEF StartWait, Pcs, WaitPcs, SignalPcs, GivenPcs
  <2>2. /\ pc[t] = "idle" /\ pc'[t] = "wait_lock"
        /\ \A u \in Threads \ {t} : pc'[u] = pc[u]
        /\ Count(pc', InWait) = Count(pc, InWait) + 1
        /\ Count(pc', SignalPcs) = Count(pc, SignalPcs)
        /\ Count(pc', Coming) = Count(pc, Coming)
    BY <2>1, Moves DEF Here, InWait, WaitPcs, SignalPcs, Coming
  <2>3. /\ UNCHANGED <<valueMax, Live, mutexLive, condLive, initial, counted>>
        /\ UNCHANGED <<value, taken, waitsDone, given, signals, result, lock>>
        /\ Live /\ waits' = Tally(waits)
    BY <1>1 DEF StartWait, object, history, Live, bounds
  <2>4. LockInv' /\ DeadInv'
    BY <2>2, <2>3, ThreadsAssumption DEF LockInv, Critical, DeadInv
  <2>5. ValueInv'
    BY <2>2, <2>3 DEF ValueInv, GivenPcs, LockInv, Critical, DeadInv
  <2>6. TakenInv' /\ WaitsInv' /\ SignalInv' /\ SumInv'
    BY <1>0, <2>2, <2>3 DEF Tally, TakenInv, Returning, WaitsInv, SignalInv, SumInv, LockInv, Critical
  <2>7. WakeupInv'
    BY <1>0, <2>2, <2>3 DEF WakeupInv
  <2> QED BY <2>4, <2>5, <2>6, <2>7
<1>2. CASE StartSignal(t)
  <2>1. Goto(t, "idle", "sig_lock") /\ "sig_lock" \in Pcs
    BY <1>2 DEF StartSignal, Pcs, WaitPcs, SignalPcs, GivenPcs
  <2>2. /\ pc[t] = "idle" /\ pc'[t] = "sig_lock"
        /\ \A u \in Threads \ {t} : pc'[u] = pc[u]
        /\ Count(pc', InWait) = Count(pc, InWait)
        /\ Count(pc', SignalPcs) = Count(pc, SignalPcs) + 1
        /\ Count(pc', Coming) = Count(pc, Coming)
    BY <2>1, Moves DEF Here, InWait, WaitPcs, SignalPcs, Coming
  <2>3. /\ UNCHANGED <<valueMax, Live, mutexLive, condLive, initial, counted>>
        /\ UNCHANGED <<value, taken, waitsDone, waits, given, lock>>
        /\ Live /\ signals' = Tally(signals) /\ result' = [result EXCEPT ![t] = "OK"]
    BY <1>2 DEF StartSignal, object, history, Live, bounds
  <2>4. LockInv' /\ DeadInv'
    BY <2>2, <2>3, ThreadsAssumption DEF LockInv, Critical, DeadInv
  <2>5. ValueInv'
    BY <2>2, <2>3 DEF ValueInv, GivenPcs, LockInv, Critical, DeadInv
  <2>6. TakenInv' /\ WaitsInv' /\ SignalInv' /\ SumInv'
    BY <1>0, <2>2, <2>3 DEF Tally, TakenInv, Returning, WaitsInv, SignalInv, SumInv, LockInv, Critical
  <2>7. WakeupInv'
    BY <1>0, <2>2, <2>3 DEF WakeupInv
  <2> QED BY <2>4, <2>5, <2>6, <2>7
<1>3. CASE SpuriousWake(t)
  <2>1. Goto(t, "blocked", "woken") /\ "woken" \in Pcs
    BY <1>3 DEF SpuriousWake, Pcs, WaitPcs, SignalPcs, GivenPcs
  <2>2. /\ pc[t] = "blocked" /\ pc'[t] = "woken"
        /\ \A u \in Threads \ {t} : pc'[u] = pc[u]
        /\ Count(pc', InWait) = Count(pc, InWait)
        /\ Count(pc', SignalPcs) = Count(pc, SignalPcs)
        /\ Count(pc', Coming) = Count(pc, Coming) + 1
    BY <2>1, Moves DEF Here, InWait, WaitPcs, SignalPcs, Coming
  <2>3. /\ UNCHANGED <<valueMax, Live, mutexLive, condLive, initial, counted>>
        /\ UNCHANGED <<value, taken, waitsDone, waits, given, signals, result, lock>>
        /\ TRUE
    BY <1>3 DEF SpuriousWake, object, history, Live, bounds
  <2>4. LockInv' /\ DeadInv'
    BY <2>2, <2>3, ThreadsAssumption DEF LockInv, Critical, DeadInv
  <2>5. ValueInv'
    BY <2>2, <2>3 DEF ValueInv, GivenPcs, LockInv, Critical, DeadInv
  <2>6. TakenInv' /\ WaitsInv' /\ SignalInv' /\ SumInv'
    BY <1>0, <2>2, <2>3 DEF Tally, TakenInv, Returning, WaitsInv, SignalInv, SumInv, LockInv, Critical
  <2>7. WakeupInv'
    BY <1>0, <2>2, <2>3 DEF WakeupInv
  <2> QED BY <2>4, <2>5, <2>6, <2>7
<1> QED BY <1>1, <1>2, <1>3

(* The inductive invariant is one.                                         *)
LEMMA InvStep ==
  ASSUME InitValues \subseteq Nat, IInv, [Next]_vars PROVE IInv'
<1>1. TypeOK'
  BY TypeStep DEF IInv
<1>2. CASE CallOfInit
  BY <1>2, InitStep
<1>3. CASE DestroySem
  BY <1>3, DestroyStep
<1>4. ASSUME NEW t \in Threads, StartWait(t) \/ StartSignal(t) \/ SpuriousWake(t) PROVE IInv'
  BY <1>1, <1>4, CallStepInv
<1>5. ASSUME NEW t \in Threads, Step(t) PROVE IInv'
  BY <1>1, <1>5, WaitStepInv, SignalStepInv DEF Step
<1>6. CASE UNCHANGED vars
  <2>1. UNCHANGED <<Live, Count(pc, InWait), Count(pc, SignalPcs), Count(pc, Coming), Returning>>
    BY <1>6 DEF vars, object, Live, Returning
  <2> QED BY <1>1, <1>6, <2>1
          DEF vars, object, history, bounds, IInv, LockInv, ValueInv, TakenInv, WaitsInv,
              SignalInv, SumInv, WakeupInv, DeadInv
<1> QED BY <1>2, <1>3, <1>4, <1>5, <1>6 DEF Next
-----------------------------------------------------------------------------
(* The initial state has the right types.                                  *)
LEMMA InitTypeOK == ASSUME Init PROVE TypeOK
<1>1. /\ MaxInits \in Nat /\ MaxWaits \in Nat
      /\ MaxSignals \in Nat /\ MaxSpurious \in Nat
  BY BoundsAssumption
<1>2. /\ pc \in [Threads -> Pcs] /\ result \in [Threads -> {"OK", "ERANGE"}]
      /\ ret \in {"OK", "EINVAL", "ERANGE", "EPTHREAD"}
      /\ mutexLive \in BOOLEAN /\ condLive \in BOOLEAN
  BY DEF Init, Pcs
<1>3. /\ lock = NoThread /\ value = 0 /\ valueMax = 0 /\ initial = 0 /\ given = 0 /\ taken = 0
      /\ waits = 0 /\ waitsDone = 0 /\ signals = 0 /\ inits = 0 /\ spurious = 0
      /\ counted \in BOOLEAN
  BY DEF Init
<1> QED BY <1>1, <1>2, <1>3 DEF TypeOK

(* The variables keep their types, negative initial values included.       *)
THEOREM TypeCorrect == Spec => []TypeOK
<1>1. Init => TypeOK
  BY InitTypeOK
<1>2. TypeOK /\ [Next]_vars => TypeOK'
  BY TypeStep
<1> QED BY <1>1, <1>2, PTL DEF Spec

(* Every reachable state satisfies the inductive invariant.                *)
THEOREM Invariant == ASSUME InitValues \subseteq Nat PROVE Spec => []IInv
<1>1. Init => IInv
  <2> SUFFICES ASSUME Init PROVE IInv
    OBVIOUS
  <2>1. TypeOK
    BY InitTypeOK
  <2>2. \A t \in Threads : pc[t] = "idle" /\ result[t] = "OK"
    BY DEF Init
  <2>3. Count(pc, InWait) = 0 /\ Count(pc, SignalPcs) = 0 /\ Returning = 0
    BY <2>1, <2>2, CountNat DEF TypeOK, InWait, WaitPcs, SignalPcs, Returning
  <2>4. LockInv /\ WakeupInv /\ DeadInv
    BY <2>2, ThreadsAssumption DEF Init, LockInv, Critical, WakeupInv, DeadInv
  <2>5. ValueInv
    BY <2>2 DEF Init, ValueInv, GivenPcs, Live
  <2>6. TakenInv /\ WaitsInv /\ SignalInv /\ SumInv
    BY <2>3 DEF Init, TakenInv, WaitsInv, SignalInv, SumInv
  <2> QED BY <2>1, <2>4, <2>5, <2>6 DEF IInv
<1>2. IInv /\ [Next]_vars => IInv'
  BY InvStep
<1> QED BY <1>1, <1>2, PTL DEF Spec

(* The value of a live semaphore stays between zero and its limit.         *)
THEOREM ValueBounds == ASSUME InitValues \subseteq Nat PROVE Spec => []ValueInRange
<1>1. IInv => ValueInRange
  BY DEF IInv, TypeOK, ValueInv, ValueInRange
<1> QED BY <1>1, Invariant, PTL

(* The waits that got through are covered by permits that were given.      *)
THEOREM Covered == ASSUME InitValues \subseteq Nat PROVE Spec => []WaitsCovered
<1>1. IInv => WaitsCovered
  BY DEF IInv, TypeOK, ValueInv, SumInv, WaitsCovered
<1> QED BY <1>1, Invariant, PTL

(* No wakeup is lost: beside a blocked waiter every permit has somebody on *)
(* the way to it.                                                          *)
THEOREM Wakeups == ASSUME InitValues \subseteq Nat PROVE Spec => []NoLostWakeup
<1>1. IInv => NoLostWakeup
  BY DEF IInv, WakeupInv, NoLostWakeup, Blocked, At, Count, Coming
<1> QED BY <1>1, Invariant, PTL

(* A semaphore that FinishedWith lets its users destroy is not in use.     *)
THEOREM SafeDestruction == ASSUME InitValues \subseteq Nat PROVE Spec => []NoUseAfterDestroy
<1>1. IInv => NoUseAfterDestroy
  BY DEF IInv, DeadInv, NoUseAfterDestroy, At
<1> QED BY <1>1, Invariant, PTL
-----------------------------------------------------------------------------
(* The mutex and the condition variable implement the abstract semaphore.  *)
(* Every step of a thread maps to the step of the abstract semaphore that  *)
(* takes effect there, or to none: taking the mutex, blocking, waking and  *)
(* calling pthread_cond_signal cannot be seen from outside.                *)

(* What the places of a thread look like from outside.                     *)
LEMMA OpOfPlaces ==
  ASSUME NEW code
  PROVE  /\ OpOf("idle", code) = "idle"
         /\ \A place \in WaitPcs : OpOf(place, code) = "waiting"
         /\ OpOf("wait_unlock", code) = "acquired"
         /\ \A place \in SignalPcs : OpOf(place, code) = "signalling"
         /\ \A place \in GivenPcs :
              OpOf(place, code) = IF code = "ERANGE" THEN "refused" ELSE "released"
<1> USE DEF WaitPcs, SignalPcs, GivenPcs
<1>1. OpOf("idle", code) = "idle"
  BY DEF OpOf
<1>2. ASSUME NEW place \in WaitPcs PROVE OpOf(place, code) = "waiting"
  BY DEF OpOf
<1>3. OpOf("wait_unlock", code) = "acquired"
  BY DEF OpOf
<1>4. ASSUME NEW place \in SignalPcs PROVE OpOf(place, code) = "signalling"
  BY DEF OpOf
<1>5. ASSUME NEW place \in GivenPcs
      PROVE OpOf(place, code) = IF code = "ERANGE" THEN "refused" ELSE "released"
  BY DEF OpOf
<1> QED BY <1>1, <1>2, <1>3, <1>4, <1>5

(* A step of t from one place to another is a move of t's abstract         *)
(* operation, when no other thread's result is touched.                    *)
LEMMA BarMove ==
  ASSUME TypeOK, TypeOK', NEW t \in Threads, NEW from, NEW to, Goto(t, from, to),
         \A u \in Threads \ {t} : result'[u] = result[u]
  PROVE  /\ opBar[t] = OpOf(from, result[t])
         /\ opBar' = [opBar EXCEPT ![t] = OpOf(to, result'[t])]
<1>1. pc[t] = from /\ pc'[t] = to /\ \A u \in Threads \ {t} : pc'[u] = pc[u]
  BY DEF Goto, TypeOK
<1> QED BY <1>1 DEF opBar

(* A move between two places that look alike cannot be seen.               *)
LEMMA BarStutter ==
  ASSUME TypeOK, TypeOK', NEW t \in Threads, NEW from, NEW to, Goto(t, from, to),
         result' = result, OpOf(from, result[t]) = OpOf(to, result[t])
  PROVE  opBar' = opBar
<1>1. pc[t] = from /\ pc'[t] = to /\ \A u \in Threads \ {t} : pc'[u] = pc[u]
  BY DEF Goto, TypeOK
<1> QED BY <1>1 DEF opBar

(* Init, destroy, and what they do to the abstract object.                 *)
LEMMA InitRefines ==
  ASSUME InitValues \subseteq Nat, IInv, CallOfInit
  PROVE  Abs!Create \/ UNCHANGED Abs!vars
<1>1. PICK v \in InitValues, m \in InitMaxes :
        InitRejected(v, m) \/ InitMutexFails(v, m) \/ InitCondFails(v, m) \/ InitSucceeds(v, m)
  BY DEF CallOfInit
<1>2. /\ ~Live /\ ~mutexLive /\ ~condLive /\ UNCHANGED opBar
      /\ \A t \in Threads : pc[t] = "idle"
  BY <1>1 DEF InitRejected, InitMutexFails, InitCondFails, InitSucceeds, InitStores, CallInit,
              IInv, DeadInv, opBar
<1>3. CASE InitRejected(v, m) \/ InitMutexFails(v, m) \/ InitCondFails(v, m)
  <2>1. ~Live' /\ Live \in BOOLEAN /\ Live' \in BOOLEAN
    BY <1>2, <1>3 DEF InitRejected, InitMutexFails, InitCondFails, object, Live
  <2> QED BY <1>2, <2>1 DEF Abs!vars
<1>4. CASE InitSucceeds(v, m)
  <2>1. Live' /\ value' \in 0 .. valueMax' /\ valueMax' \in Nat \ {0}
    BY <1>4, InitAssumption DEF InitSucceeds, InitStores, InitArgsBad, Live
  <2>2. \A t \in Threads : opBar[t] = "idle"
    BY <1>2, OpOfPlaces DEF opBar
  <2> QED BY <1>2, <2>1, <2>2 DEF Abs!Create, Abs!Quiet
<1> QED BY <1>1, <1>3, <1>4

(* pthread_sem_destroy is the abstract one: nobody is inside.              *)
LEMMA DestroyRefines == ASSUME IInv, DestroySem PROVE Abs!Destroy
<1>1. Live /\ ~Live' /\ UNCHANGED opBar
  BY DEF DestroySem, Live, opBar
<1>2. \A t \in Threads : opBar[t] = "idle"
  BY FinishedMeansIdle, OpOfPlaces DEF DestroySem, opBar
<1> QED BY <1>1, <1>2 DEF Abs!Destroy, Abs!Quiet

(* The steps of pthread_sem_wait.                                          *)
LEMMA WaitRefines ==
  ASSUME IInv, TypeOK', NEW t \in Threads, StartWait(t) \/ WaitStep(t) \/ SpuriousWake(t)
  PROVE  Abs!CallWait(t) \/ Abs!Acquire(t) \/ Abs!Return(t) \/ UNCHANGED Abs!vars
<1> USE DEF IInv
<1>1. CASE StartWait(t)
  <2>1. Goto(t, "idle", "wait_lock") /\ Live /\ UNCHANGED <<Live, value, valueMax, result>>
    BY <1>1 DEF StartWait, object, Live
  <2>2. opBar[t] = "idle" /\ opBar' = [opBar EXCEPT ![t] = "waiting"]
    BY <2>1, BarMove, OpOfPlaces DEF WaitPcs
  <2> QED BY <2>1, <2>2 DEF Abs!CallWait, Abs!Move
<1>2. CASE WaitLock(t) \/ WaitBlock(t) \/ WaitRelock(t) \/ SpuriousWake(t)
  <2>1. /\ UNCHANGED <<Live, value, valueMax, result>>
        /\ \E from, to \in WaitPcs : Goto(t, from, to)
    BY <1>2 DEF WaitLock, WaitBlock, WaitRelock, SpuriousWake, object, Live, WaitPcs
  <2>2. UNCHANGED opBar
    BY <2>1, OpOfPlaces, BarStutter
  <2> QED BY <2>1, <2>2 DEF Abs!vars
<1>3. CASE WaitTake(t)
  <2>1. /\ Goto(t, "wait_test", "wait_unlock") /\ UNCHANGED <<Live, valueMax, result>>
        /\ value # 0 /\ value' = value - 1
    BY <1>3 DEF WaitTake, Live
  <2>2. Live /\ value \in Nat
    BY <2>1 DEF Goto, DeadInv, ValueInv, TypeOK
  <2>3. opBar[t] = "waiting" /\ opBar' = [opBar EXCEPT ![t] = "acquired"]
    BY <2>1, BarMove, OpOfPlaces DEF WaitPcs
  <2> QED BY <2>1, <2>2, <2>3 DEF Abs!Acquire, Abs!Move
<1>4. CASE WaitReturn(t)
  <2>1. Goto(t, "wait_unlock", "idle") /\ UNCHANGED <<Live, value, valueMax, result>>
    BY <1>4 DEF WaitReturn, object, Live
  <2>2. opBar[t] = "acquired" /\ opBar' = [opBar EXCEPT ![t] = "idle"]
    BY <2>1, BarMove, OpOfPlaces DEF WaitPcs
  <2> QED BY <2>1, <2>2 DEF Abs!Return
<1> QED BY <1>1, <1>2, <1>3, <1>4 DEF WaitStep

(* The steps of pthread_sem_signal: it takes effect when value is raised,  *)
(* or when it is found at the limit.                                       *)
LEMMA SignalRefines ==
  ASSUME IInv, TypeOK', NEW t \in Threads, StartSignal(t) \/ SignalStep(t)
  PROVE  \/ Abs!CallSignal(t) \/ Abs!Release(t) \/ Abs!Refuse(t) \/ Abs!Return(t)
         \/ UNCHANGED Abs!vars
<1> USE DEF IInv
<1>1. CASE StartSignal(t)
  <2>1. /\ Goto(t, "idle", "sig_lock") /\ Live /\ UNCHANGED <<Live, value, valueMax>>
        /\ \A u \in Threads \ {t} : result'[u] = result[u]
    BY <1>1 DEF StartSignal, object, Live, TypeOK
  <2>2. opBar[t] = "idle" /\ opBar' = [opBar EXCEPT ![t] = "signalling"]
    BY <2>1, BarMove, OpOfPlaces DEF SignalPcs
  <2> QED BY <2>1, <2>2 DEF Abs!CallSignal, Abs!Move
<1>2. CASE SignalLock(t)
  <2>1. Goto(t, "sig_lock", "sig_test") /\ UNCHANGED <<Live, value, valueMax, result>>
    BY <1>2 DEF SignalLock, object, Live
  <2>2. UNCHANGED opBar
    BY <2>1, BarStutter, OpOfPlaces DEF SignalPcs
  <2> QED BY <2>1, <2>2 DEF Abs!vars
<1>3. CASE SignalGive(t)
  <2>1. /\ Goto(t, "sig_test", "sig_cond") /\ UNCHANGED <<Live, valueMax, result>>
        /\ value < valueMax /\ value' = value + 1
    BY <1>3 DEF SignalGive, Live
  <2>2. Live /\ result[t] # "ERANGE"
    BY <2>1 DEF Goto, DeadInv, ValueInv
  <2>3. opBar[t] = "signalling" /\ opBar' = [opBar EXCEPT ![t] = "released"]
    BY <2>1, <2>2, BarMove, OpOfPlaces DEF SignalPcs, GivenPcs
  <2> QED BY <2>1, <2>2, <2>3 DEF Abs!Release, Abs!Move
<1>4. CASE SignalFull(t)
  <2>1. /\ Goto(t, "sig_test", "sig_unlock") /\ UNCHANGED <<Live, value, valueMax>>
        /\ ~(value < valueMax) /\ result' = [result EXCEPT ![t] = "ERANGE"]
    BY <1>4 DEF SignalFull, object, Live
  <2>2. Live /\ value = valueMax
    BY <2>1 DEF Goto, DeadInv, ValueInv, TypeOK
  <2>3. opBar[t] = "signalling" /\ opBar' = [opBar EXCEPT ![t] = "refused"]
    <3>1. result'[t] = "ERANGE" /\ \A u \in Threads \ {t} : result'[u] = result[u]
      BY <2>1 DEF TypeOK
    <3> QED BY <2>1, <3>1, BarMove, OpOfPlaces DEF SignalPcs, GivenPcs
  <2> QED BY <2>1, <2>2, <2>3 DEF Abs!Refuse, Abs!Move
<1>5. CASE CondSignal(t)
  <2>1. pc[t] = "sig_cond" /\ UNCHANGED <<Live, value, valueMax, result>>
    BY <1>5 DEF CondSignal, object, Live
  <2>2. \A u \in Threads :
          OpOf(pc'[u], result[u]) = OpOf(pc[u], result[u])
    <3>1. \A u \in Threads : \/ pc'[u] = pc[u]
                             \/ pc[u] \in GivenPcs /\ pc'[u] \in GivenPcs
                             \/ pc[u] \in WaitPcs /\ pc'[u] \in WaitPcs
      BY <1>5 DEF CondSignal, Blocked, At, GivenPcs, WaitPcs, TypeOK
    <3>2. ASSUME NEW u \in Threads PROVE OpOf(pc'[u], result[u]) = OpOf(pc[u], result[u])
      <4>1. CASE pc'[u] = pc[u]
        BY <4>1
      <4>2. CASE pc[u] \in GivenPcs /\ pc'[u] \in GivenPcs
        BY <4>2, OpOfPlaces
      <4>3. CASE pc[u] \in WaitPcs /\ pc'[u] \in WaitPcs
        BY <4>3, OpOfPlaces
      <4> QED BY <3>1, <4>1, <4>2, <4>3
    <3> QED BY <3>2
  <2>3. UNCHANGED opBar
    BY <2>1, <2>2 DEF opBar
  <2> QED BY <2>1, <2>3 DEF Abs!vars
<1>6. CASE SignalReturn(t)
  <2>1. /\ Goto(t, "sig_unlock", "idle") /\ UNCHANGED <<Live, value, valueMax>>
        /\ \A u \in Threads \ {t} : result'[u] = result[u]
    BY <1>6 DEF SignalReturn, object, Live, TypeOK
  <2>2. opBar[t] \in {"released", "refused"} /\ opBar' = [opBar EXCEPT ![t] = "idle"]
    BY <2>1, BarMove, OpOfPlaces DEF GivenPcs
  <2> QED BY <2>1, <2>2 DEF Abs!Return
<1> QED BY <1>1, <1>2, <1>3, <1>4, <1>5, <1>6 DEF SignalStep

(* Every step is one of the abstract semaphore, or cannot be seen.         *)
LEMMA StepRefines ==
  ASSUME InitValues \subseteq Nat, IInv, TypeOK', [Next]_vars
  PROVE  [Abs!Next]_(Abs!vars)
<1>1. CASE CallOfInit
  BY <1>1, InitRefines DEF Abs!Next
<1>2. CASE DestroySem
  BY <1>2, DestroyRefines DEF Abs!Next
<1>3. ASSUME NEW t \in Threads,
             \/ StartWait(t) \/ WaitStep(t) \/ SpuriousWake(t)
             \/ StartSignal(t) \/ SignalStep(t)
      PROVE  [Abs!Next]_(Abs!vars)
  BY <1>3, WaitRefines, SignalRefines DEF Abs!Next
<1>4. CASE UNCHANGED vars
  BY <1>4 DEF vars, object, Abs!vars, Live, opBar
<1> QED BY <1>1, <1>2, <1>3, <1>4 DEF Next, Step

(* pthread_semaphore.c implements the abstract bounded semaphore, for any  *)
(* threads, limits and initial values that are not negative.               *)
THEOREM Refinement == ASSUME InitValues \subseteq Nat PROVE Spec => ImplementsSemaphore
<1>1. Init => Abs!Init
  <2> SUFFICES ASSUME Init PROVE Abs!Init
    OBVIOUS
  <2>1. ~Live /\ Live \in BOOLEAN
    BY DEF Init, Live
  <2>2. opBar = [t \in Threads |-> "idle"]
    BY OpOfPlaces DEF Init, opBar
  <2> QED BY <2>1, <2>2 DEF Abs!Init
<1>2. IInv /\ [Next]_vars => [Abs!Next]_(Abs!vars)
  BY TypeStep, StepRefines DEF IInv
<1> QED BY <1>1, <1>2, Invariant, PTL DEF Spec, ImplementsSemaphore, Abs!Spec
=============================================================================
