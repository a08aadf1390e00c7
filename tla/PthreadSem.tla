----------------------------- MODULE PthreadSem -----------------------------
(***************************************************************************)
(* pthread_semaphore.c, the implementation section: a semaphore made of an *)
(* int, a pthread mutex and a pthread condition variable.  One action is   *)
(* one indivisible piece of a call: taking the mutex, the code run under   *)
(* it up to the next pthread call, pthread_cond_wait's release-and-block,  *)
(* pthread_cond_signal, and the unlock with which each call ends.          *)
(*                                                                         *)
(* The pSem == NULL early returns of the four functions touch nothing and  *)
(* are not modelled.                                                       *)
(***************************************************************************)
EXTENDS Integers, FiniteSets

CONSTANTS
  Threads,      \* the threads that call wait and signal
  NoThread,     \* "nobody", for the owner of the mutex
  InitValues,   \* the values that pthread_sem_init may be called with
  InitMaxes,    \* the limits that pthread_sem_init may be called with
  MaxInits,     \* bound: calls of pthread_sem_init
  MaxWaits,     \* bound: calls of pthread_sem_wait in a semaphore's life
  MaxSignals,   \* bound: calls of pthread_sem_signal in a semaphore's life
  MaxSpurious   \* bound: wakeups that no signal caused, in all

ASSUME ThreadsAssumption == IsFiniteSet(Threads) /\ NoThread \notin Threads
ASSUME InitAssumption == InitValues \subseteq Int /\ InitMaxes \subseteq Int
ASSUME BoundsAssumption == {MaxInits, MaxWaits, MaxSignals, MaxSpurious} \subseteq Nat

VARIABLES
  value, valueMax,       \* the two ints of pthread_sem_t
  lock,                  \* who holds the mutex
  mutexLive, condLive,   \* which of the two pthread objects are initialised
  pc,                    \* where each thread is in its call
  result,                \* pthread_sem_signal's local of that name
  ret,                   \* the code that the last call to return has returned
  initial, given, taken, \* history: the initial value, permits added and removed
  waits, waitsDone,      \* history: pthread_sem_wait calls made and returned
  signals,               \* history: pthread_sem_signal calls made
  inits, spurious,       \* what MaxInits and MaxSpurious bound
  counted                \* whether this behaviour counts its calls

object  == <<value, valueMax, mutexLive, condLive>>
history == <<initial, given, taken, waits, waitsDone, signals>>
bounds  == <<inits, spurious, counted>>
vars    == <<object, lock, pc, result, ret, history, bounds>>

WaitPcs   == {"wait_lock", "wait_test", "blocked", "woken"}
SignalPcs == {"sig_lock", "sig_test"}
GivenPcs  == {"sig_cond", "sig_unlock"}
Pcs       == {"idle", "wait_unlock"} \cup WaitPcs \cup SignalPcs \cup GivenPcs
Critical  == {"wait_test", "wait_unlock", "sig_test", "sig_cond", "sig_unlock"}

At(places) == {t \in Threads : pc[t] \in places}
Blocked    == At({"blocked"})

Live == mutexLive /\ condLive

(* A history variable grows, and bounds what may happen, in the behaviours *)
(* that count their calls.  In the others there may be any number of them. *)
Tally(n)       == IF counted THEN n + 1 ELSE n
Within(n, max) == counted => n < max
-----------------------------------------------------------------------------
TypeOK ==
  /\ value \in Int /\ valueMax \in Int
  /\ lock \in Threads \cup {NoThread}
  /\ mutexLive \in BOOLEAN /\ condLive \in BOOLEAN
  /\ pc \in [Threads -> Pcs]
  /\ result \in [Threads -> {"OK", "ERANGE"}]
  /\ ret \in {"OK", "EINVAL", "ERANGE", "EPTHREAD"}
  /\ initial \in Int
  /\ given \in Nat /\ taken \in Nat
  /\ waits \in 0 .. MaxWaits /\ waitsDone \in Nat
  /\ signals \in 0 .. MaxSignals
  /\ inits \in 0 .. MaxInits /\ spurious \in 0 .. MaxSpurious
  /\ counted \in BOOLEAN

Init ==
  /\ value = 0 /\ valueMax = 0
  /\ lock = NoThread
  /\ mutexLive = FALSE /\ condLive = FALSE
  /\ pc = [t \in Threads |-> "idle"]
  /\ result = [t \in Threads |-> "OK"]
  /\ ret = "OK"
  /\ initial = 0 /\ given = 0 /\ taken = 0
  /\ waits = 0 /\ waitsDone = 0 /\ signals = 0
  /\ inits = 0 /\ spurious = 0
  /\ counted \in BOOLEAN
-----------------------------------------------------------------------------
(* pthread_sem_init, called while no semaphore exists.  It fails in three  *)
(* ways; the last two have stored the ints already, and the third has to   *)
(* give back the mutex it created.                                         *)
CallInit ==
  /\ ~Live
  /\ Within(inits, MaxInits)
  /\ inits' = Tally(inits)
  /\ UNCHANGED <<lock, pc, result, spurious, counted>>

InitArgsBad(v, m) == m = 0 \/ v > m

InitRejected(v, m) ==
  /\ CallInit /\ InitArgsBad(v, m)
  /\ ret' = "EINVAL"
  /\ UNCHANGED <<object, history>>

InitStores(v, m) ==
  /\ CallInit /\ ~InitArgsBad(v, m)
  /\ value' = v /\ valueMax' = m

InitMutexFails(v, m) ==
  /\ InitStores(v, m)
  /\ ret' = "EPTHREAD"
  /\ UNCHANGED <<mutexLive, condLive, history>>

InitCondFails(v, m) ==
  /\ InitStores(v, m)
  /\ mutexLive' = FALSE  \* created, then destroyed again
  /\ ret' = "EPTHREAD"
  /\ UNCHANGED <<condLive, history>>

InitSucceeds(v, m) ==
  /\ InitStores(v, m)
  /\ mutexLive' = TRUE /\ condLive' = TRUE
  /\ ret' = "OK"
  /\ initial' = v
  /\ given' = 0 /\ taken' = 0
  /\ waits' = 0 /\ waitsDone' = 0 /\ signals' = 0

(* pthread_sem_destroy, when the callers may take the semaphore to be      *)
(* finished with: no wait is under way and either all signal calls have    *)
(* returned, or every signal ever begun is known to have taken effect,     *)
(* because as many waits have returned as the initial value and the signal *)
(* calls can account for.                                                  *)
FinishedWith ==
  /\ At(WaitPcs \cup {"wait_unlock"}) = {}
  /\ \/ At(SignalPcs \cup GivenPcs) = {}
     \/ counted /\ waitsDone = initial + signals

DestroySem ==
  /\ Live /\ FinishedWith
  /\ mutexLive' = FALSE /\ condLive' = FALSE
  /\ ret' = "OK"
  /\ UNCHANGED <<value, valueMax, lock, pc, result, history, bounds>>
-----------------------------------------------------------------------------
Goto(t, from, to) ==
  /\ pc[t] = from
  /\ pc' = [pc EXCEPT ![t] = to]

LockMutex(t)   == lock = NoThread /\ lock' = t
UnlockMutex(t) == lock = t /\ lock' = NoThread

(* pthread_sem_wait *)
StartWait(t) ==
  /\ Live /\ Within(waits, MaxWaits)
  /\ Goto(t, "idle", "wait_lock")
  /\ waits' = Tally(waits)
  /\ UNCHANGED <<object, lock, result, ret, initial, given, taken, waitsDone, signals, bounds>>

WaitLock(t) ==
  /\ Goto(t, "wait_lock", "wait_test")
  /\ LockMutex(t)
  /\ UNCHANGED <<object, result, ret, history, bounds>>

(* The while condition holds: pthread_cond_wait releases the mutex and     *)
(* blocks, as one step.                                                    *)
WaitBlock(t) ==
  /\ Goto(t, "wait_test", "blocked")
  /\ value = 0
  /\ UnlockMutex(t)
  /\ UNCHANGED <<object, result, ret, history, bounds>>

(* Mutant of WaitRelock: "if" in place of "while", no second test. *)
WaitRelockNoRetest(t) ==
  /\ Goto(t, "woken", "wait_unlock")
  /\ LockMutex(t)
  /\ value' = value - 1
  /\ taken' = Tally(taken)
  /\ UNCHANGED <<valueMax, mutexLive, condLive, result, ret, initial, given,
                 waits, waitsDone, signals, bounds>>

(* pthread_cond_wait returns only after taking the mutex again, back to    *)
(* the while condition.                                                    *)
WaitRelock(t) ==
  /\ Goto(t, "woken", "wait_test")
  /\ LockMutex(t)
  /\ UNCHANGED <<object, result, ret, history, bounds>>

(* POSIX lets pthread_cond_wait return although nobody signalled. *)
SpuriousWake(t) ==
  /\ Goto(t, "blocked", "woken")
  /\ Within(spurious, MaxSpurious)
  /\ spurious' = Tally(spurious)
  /\ UNCHANGED <<object, lock, result, ret, history, inits, counted>>

WaitTake(t) ==
  /\ Goto(t, "wait_test", "wait_unlock")
  /\ value # 0
  /\ value' = value - 1
  /\ taken' = Tally(taken)
  /\ UNCHANGED <<valueMax, mutexLive, condLive, lock, result, ret, initial, given,
                 waits, waitsDone, signals, bounds>>

WaitReturn(t) ==
  /\ Goto(t, "wait_unlock", "idle")
  /\ UnlockMutex(t)
  /\ ret' = "OK"
  /\ waitsDone' = Tally(waitsDone)
  /\ UNCHANGED <<object, result, initial, given, taken, waits, signals, bounds>>
-----------------------------------------------------------------------------
(* pthread_sem_signal *)
StartSignal(t) ==
  /\ Live /\ Within(signals, MaxSignals)
  /\ Goto(t, "idle", "sig_lock")
  /\ result' = [result EXCEPT ![t] = "OK"]
  /\ signals' = Tally(signals)
  /\ UNCHANGED <<object, lock, ret, initial, given, taken, waits, waitsDone, bounds>>

SignalLock(t) ==
  /\ Goto(t, "sig_lock", "sig_test")
  /\ LockMutex(t)
  /\ UNCHANGED <<object, result, ret, history, bounds>>

(* Mutants of SignalGive: one permit too many; the waiters are woken only  *)
(* when value was zero; the mutex is released before pthread_cond_signal.  *)
SignalGivePastMax(t) ==
  /\ Goto(t, "sig_test", "sig_cond")
  /\ value <= valueMax
  /\ value' = value + 1
  /\ given' = Tally(given)
  /\ UNCHANGED <<valueMax, mutexLive, condLive, lock, result, ret, initial, taken,
                 waits, waitsDone, signals, bounds>>

SignalGiveWakeFirstOnly(t) ==
  /\ Goto(t, "sig_test", IF value = 0 THEN "sig_cond" ELSE "sig_unlock")
  /\ value < valueMax
  /\ value' = value + 1
  /\ given' = Tally(given)
  /\ UNCHANGED <<valueMax, mutexLive, condLive, lock, result, ret, initial, taken,
                 waits, waitsDone, signals, bounds>>

SignalGiveUnlocksFirst(t) ==
  /\ Goto(t, "sig_test", "sig_cond")
  /\ UnlockMutex(t)
  /\ value < valueMax
  /\ value' = value + 1
  /\ given' = Tally(given)
  /\ UNCHANGED <<valueMax, mutexLive, condLive, result, ret, initial, taken,
                 waits, waitsDone, signals, bounds>>

SignalGive(t) ==
  /\ Goto(t, "sig_test", "sig_cond")
  /\ value < valueMax
  /\ value' = value + 1
  /\ given' = Tally(given)
  /\ UNCHANGED <<valueMax, mutexLive, condLive, lock, result, ret, initial, taken,
                 waits, waitsDone, signals, bounds>>

(* Mutant of SignalFull: a code that the function does not document. *)
SignalFullOtherCode(t) ==
  /\ Goto(t, "sig_test", "sig_unlock")
  /\ ~(value < valueMax)
  /\ result' = [result EXCEPT ![t] = "EAGAIN"]
  /\ UNCHANGED <<object, lock, ret, history, bounds>>

SignalFull(t) ==
  /\ Goto(t, "sig_test", "sig_unlock")
  /\ ~(value < valueMax)
  /\ result' = [result EXCEPT ![t] = "ERANGE"]
  /\ UNCHANGED <<object, lock, ret, history, bounds>>

(* pthread_cond_signal, with the mutex still held: it wakes one blocked    *)
(* thread and is not remembered when there is none.                        *)
CondSignal(t) ==
  /\ pc[t] = "sig_cond"
  /\ \/ /\ Blocked = {}
        /\ pc' = [pc EXCEPT ![t] = "sig_unlock"]
     \/ \E u \in Blocked : pc' = [pc EXCEPT ![t] = "sig_unlock", ![u] = "woken"]
  /\ UNCHANGED <<object, lock, result, ret, history, bounds>>

(* Mutant of SignalReturn: ERANGE is returned past the unlock. *)
SignalReturnKeepsLock(t) ==
  /\ Goto(t, "sig_unlock", "idle")
  /\ lock = t
  /\ lock' = IF result[t] = "OK" THEN NoThread ELSE t
  /\ ret' = result[t]
  /\ result' = [result EXCEPT ![t] = "OK"]
  /\ UNCHANGED <<object, history, bounds>>

SignalReturn(t) ==
  /\ Goto(t, "sig_unlock", "idle")
  /\ UnlockMutex(t)
  /\ ret' = result[t]
  /\ result' = [result EXCEPT ![t] = "OK"]
  /\ UNCHANGED <<object, history, bounds>>
-----------------------------------------------------------------------------
CallOfInit == \E v \in InitValues, m \in InitMaxes :
                 \/ InitRejected(v, m)
                 \/ InitMutexFails(v, m)
                 \/ InitCondFails(v, m)
                 \/ InitSucceeds(v, m)

(* The steps of a thread that is inside a call. *)
WaitStep(t)   == WaitLock(t) \/ WaitBlock(t) \/ WaitRelock(t) \/ WaitTake(t) \/ WaitReturn(t)
SignalStep(t) == SignalLock(t) \/ SignalGive(t) \/ SignalFull(t) \/ CondSignal(t) \/ SignalReturn(t)
Step(t)       == WaitStep(t) \/ SignalStep(t)

Next ==
  \/ CallOfInit
  \/ DestroySem
  \/ \E t \in Threads : \/ StartWait(t)
                        \/ StartSignal(t)
                        \/ SpuriousWake(t)
                        \/ Step(t)

Spec == Init /\ [][Next]_vars

(* A thread inside a call keeps running when it can.  Whether and when     *)
(* calls are made, whether wakeups happen spuriously, and who gets the     *)
(* mutex when several want it, is not promised.                            *)
FairSpec == Spec /\ \A t \in Threads : WF_vars(Step(t))
-----------------------------------------------------------------------------
(* A live semaphore's value stays between zero and its limit, however the  *)
(* tests of value and the updates that follow them interleave between      *)
(* calls (pthread_semaphore.c:82-86 and 103-104).                          *)
ValueInRange == Live => value \in 0 .. valueMax

(* Nothing is granted that was not given: the waits that got through are   *)
(* covered by the initial value and the signals that were accepted.  (An   *)
(* initial value below zero, which pthread_semaphore.c:40 lets through,    *)
(* makes the first wait return with neither; callers are to pass none.)    *)
WaitsCovered ==
  counted /\ Live => taken <= (IF initial > 0 THEN initial ELSE 0) + given

(* No lost wakeup: whenever a thread is blocked on the condition variable, *)
(* each permit has a thread on its way to it: a woken waiter or one about  *)
(* to test value, or a signaller that has yet to call pthread_cond_signal. *)
(* Waking one thread per signal, only after value changed, is enough.      *)
NoLostWakeup ==
  Blocked # {} => value <= Cardinality(At({"woken", "wait_test", "sig_cond"}))

(* A semaphore that its users may take to be finished with is finished     *)
(* with: when the mutex and the condition variable are destroyed, or were  *)
(* never both created, neither exists, no thread is inside a call and      *)
(* nobody owns the mutex.  In particular the signal that let the last      *)
(* waiter through has unlocked before that waiter returns.                 *)
NoUseAfterDestroy ==
  ~Live => /\ ~mutexLive /\ ~condLive
           /\ lock = NoThread
           /\ At({"idle"}) = Threads
-----------------------------------------------------------------------------
(* What a caller sees of a thread's position: a call takes effect when     *)
(* value changes, or, for a refused signal, when it is found too large.    *)
OpOf(place, code) ==
  CASE place = "idle"        -> "idle"
    [] place \in WaitPcs     -> "waiting"
    [] place = "wait_unlock" -> "acquired"
    [] place \in SignalPcs   -> "signalling"
    [] place \in GivenPcs    -> IF code = "ERANGE" THEN "refused" ELSE "released"

opBar == [t \in Threads |-> OpOf(pc[t], result[t])]

Abs == INSTANCE Semaphore WITH
         alive    <- Live,
         permits  <- IF Live THEN value ELSE 0,
         capacity <- IF Live THEN valueMax ELSE 0,
         op       <- opBar

(* The mutex and the condition variable implement the semaphore: every     *)
(* call takes effect atomically, waits only out of permits and refusals    *)
(* only when full (pthread_semaphore.c:36-113).                            *)
ImplementsSemaphore == Abs!Spec

(* POSIX does not say who gets a mutex that several threads want, and a    *)
(* thread that asks for it again and again, such as one whose signals are  *)
(* all refused, may keep it from the others for ever.  What the code can   *)
(* promise is for callers that stop calling at some time, with no wakeups  *)
(* out of nowhere after that, or for a mutex that serves everybody who     *)
(* finds it free often enough.                                             *)
CallsEnd ==
  <>[][\A t \in Threads : ~StartWait(t) /\ ~StartSignal(t) /\ ~SpuriousWake(t)]_vars

FairMutex ==
  \A t \in Threads : SF_vars(WaitLock(t) \/ WaitRelock(t) \/ SignalLock(t))

EverybodyServed == CallsEnd \/ FairMutex

(* The implementation is live: where everybody is served, threads that     *)
(* keep running never leave a permit unused beside a waiter, nor a signal  *)
(* call stuck, however many calls are made.                                *)
ImplementsFairness == EverybodyServed => Abs!Fairness

(* Where everybody is served, a thread that waits gets through, or every   *)
(* permit it could have had went to somebody else.                         *)
PermitReachesWaiter ==
  EverybodyServed =>
    \A t \in Threads :
      (pc[t] \in WaitPcs /\ value > 0) ~> (pc[t] \notin WaitPcs \/ value = 0)
=============================================================================
