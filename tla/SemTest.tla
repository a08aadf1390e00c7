------------------------------- MODULE SemTest -------------------------------
(***************************************************************************)
(* pthread_semaphore.c, the testing section: a main thread, two producers  *)
(* and a consumer around the counter g_counter, its mutex g_lock, the      *)
(* semaphore g_sem that counts the items, and the flag g_done.             *)
(*                                                                         *)
(* The semaphore is the abstract one of module Semaphore, which PthreadSem *)
(* implements.  g_done is a plain int that is read without a lock; every   *)
(* read of it follows a call that the compiler cannot see into, so that it *)
(* is a load from memory.                                                  *)
(***************************************************************************)
EXTENDS Integers, FiniteSets

CONSTANTS
  Main, Consumer, P0, P1,  \* the four threads
  Limit                    \* the 1000 of the source: items, and permits

Producers == {P0, P1}
Threads   == {Main, Consumer} \cup Producers

ASSUME LimitAssumption == Limit \in Nat \ {0}
ASSUME ThreadsAssumption == Cardinality(Threads) = 4
ASSUME NobodyAssumption == "nobody" \notin Threads

VARIABLES
  gLock,    \* who holds g_lock
  counter,  \* g_counter
  done,     \* g_done
  pc,       \* where each thread is
  alive, permits, capacity, op  \* g_sem

own  == <<gLock, counter, done, pc>>
sem  == <<alive, permits, capacity, op>>
vars == <<own, sem>>

Sem == INSTANCE Semaphore

MainPcs     == {"init", "create_c", "create_p0", "create_p1", "getchar", "signal_1",
                "join_c", "join_p0", "signal_2", "join_p1", "exit"}
ProducerPcs == {"new", "loop", "lock", "produce", "signal", "exit"}
ConsumerPcs == {"new", "wait", "check", "lock", "consume", "exit"}

TypeOK ==
  /\ gLock \in Threads \cup {"nobody"}
  /\ counter \in Int
  /\ done \in BOOLEAN
  /\ pc[Main] \in MainPcs
  /\ pc[Consumer] \in ConsumerPcs
  /\ \A p \in Producers : pc[p] \in ProducerPcs
  /\ Sem!TypeOK

Init ==
  /\ gLock = "nobody"
  /\ counter = 0
  /\ done = FALSE
  /\ pc = [t \in Threads |-> IF t = Main THEN "init" ELSE "new"]
  /\ Sem!Init

Goto(t, from, to) ==
  /\ pc[t] = from
  /\ pc' = [pc EXCEPT ![t] = to]

LockG(t)   == gLock = "nobody" /\ gLock' = t
UnlockG(t) == gLock = t /\ gLock' = "nobody"

(* A call of pthread_sem_signal or pthread_sem_wait made at pc = at: the   *)
(* call itself and its effect leave pc alone, the return moves on to next. *)
Signalling(t, at, next) ==
  \/ pc[t] = at /\ Sem!CallSignal(t) /\ UNCHANGED own
  \/ pc[t] = at /\ (Sem!Release(t) \/ Sem!Refuse(t)) /\ UNCHANGED own
  \/ Goto(t, at, next) /\ Sem!Return(t) /\ UNCHANGED <<gLock, counter, done>>

Waiting(t, at, next) ==
  \/ pc[t] = at /\ Sem!CallWait(t) /\ UNCHANGED own
  \/ pc[t] = at /\ Sem!Acquire(t) /\ UNCHANGED own
  \/ Goto(t, at, next) /\ Sem!Return(t) /\ UNCHANGED <<gLock, counter, done>>
-----------------------------------------------------------------------------
(* producer_thread *)
ProducerLoop(p) ==
  /\ Goto(p, "loop", IF done THEN "exit" ELSE "lock")
  /\ UNCHANGED <<gLock, counter, done, sem>>

ProducerLock(p) ==
  /\ Goto(p, "lock", "produce")
  /\ LockG(p)
  /\ UNCHANGED <<counter, done, sem>>

(* Mutant of ProducerFull: no "continue" after the unlock. *)
ProducerFullFallsThrough(p) ==
  /\ Goto(p, "produce", "signal")
  /\ counter = Limit
  /\ UnlockG(p)
  /\ UNCHANGED <<counter, done, sem>>

(* Under g_lock: no room, so try again. *)
ProducerFull(p) ==
  /\ Goto(p, "produce", "loop")
  /\ counter = Limit
  /\ UnlockG(p)
  /\ UNCHANGED <<counter, done, sem>>

(* Mutant of ProducerAdd: the limit is not tested. *)
ProducerAddAlways(p) ==
  /\ Goto(p, "produce", "signal")
  /\ counter' = counter + 1
  /\ UnlockG(p)
  /\ UNCHANGED <<done, sem>>

ProducerAdd(p) ==
  /\ Goto(p, "produce", "signal")
  /\ counter # Limit
  /\ counter' = counter + 1
  /\ UnlockG(p)
  /\ UNCHANGED <<done, sem>>

ProducerSignal(p) == Signalling(p, "signal", "loop")

ProducerStep(p) ==
  \/ ProducerLoop(p)
  \/ ProducerLock(p)
  \/ ProducerFull(p)
  \/ ProducerAdd(p)
  \/ ProducerSignal(p)
-----------------------------------------------------------------------------
(* consumer_thread; pthread_sem_wait never fails here. *)
ConsumerWait == Waiting(Consumer, "wait", "check")

(* Mutant of ConsumerCheck: the consumer does not look at g_done. *)
ConsumerCheckNothing ==
  /\ Goto(Consumer, "check", "lock")
  /\ UNCHANGED <<gLock, counter, done, sem>>

ConsumerCheck ==
  /\ Goto(Consumer, "check", IF done THEN "exit" ELSE "lock")
  /\ UNCHANGED <<gLock, counter, done, sem>>

ConsumerLock ==
  /\ Goto(Consumer, "lock", "consume")
  /\ LockG(Consumer)
  /\ UNCHANGED <<counter, done, sem>>

ConsumerTake ==
  /\ Goto(Consumer, "consume", "wait")
  /\ counter' = counter - 1
  /\ UnlockG(Consumer)
  /\ UNCHANGED <<done, sem>>

ConsumerStep ==
  \/ ConsumerWait
  \/ ConsumerCheck
  \/ ConsumerLock
  \/ ConsumerTake
-----------------------------------------------------------------------------
(* main *)
MainInit ==
  /\ Goto(Main, "init", "create_c")
  /\ permits' = 0 /\ capacity' = Limit
  /\ Sem!Create
  /\ UNCHANGED <<gLock, counter, done>>

(* Mutant of MainCreate: producer_thread is passed for every thread. *)
MainCreateProducer(at, t, first, next) ==
  /\ pc[Main] = at /\ pc[t] = "new"
  /\ pc' = [pc EXCEPT ![Main] = next, ![t] = "loop"]
  /\ UNCHANGED <<gLock, counter, done, sem>>

MainCreate(at, t, first, next) ==
  /\ pc[Main] = at /\ pc[t] = "new"
  /\ pc' = [pc EXCEPT ![Main] = next, ![t] = first]
  /\ UNCHANGED <<gLock, counter, done, sem>>

(* The user presses Enter. *)
MainGetchar ==
  /\ Goto(Main, "getchar", "signal_1")
  /\ done' = TRUE
  /\ UNCHANGED <<gLock, counter, sem>>

MainJoin(at, t, next) ==
  /\ Goto(Main, at, next)
  /\ pc[t] = "exit"
  /\ UNCHANGED <<gLock, counter, done, sem>>

(* Mutant of MainSignals: the wakeup for the consumer comes too late. *)
MainSignalsSecondOnly ==
  \/ Goto(Main, "signal_1", "join_c") /\ UNCHANGED <<gLock, counter, done, sem>>
  \/ Signalling(Main, "signal_2", "join_p1")

MainSignals ==
  \/ Signalling(Main, "signal_1", "join_c")
  \/ Signalling(Main, "signal_2", "join_p1")

MainStep ==
  \/ MainInit
  \/ MainCreate("create_c", Consumer, "wait", "create_p0")
  \/ MainCreate("create_p0", P0, "loop", "create_p1")
  \/ MainCreate("create_p1", P1, "loop", "getchar")
  \/ MainSignals
  \/ MainJoin("join_c", Consumer, "join_p0")
  \/ MainJoin("join_p0", P0, "signal_2")
  \/ MainJoin("join_p1", P1, "exit")

(* The process is gone. *)
Exited == pc[Main] = "exit" /\ UNCHANGED vars
-----------------------------------------------------------------------------
Next ==
  \/ MainStep
  \/ MainGetchar
  \/ ConsumerStep
  \/ \E p \in Producers : ProducerStep(p)
  \/ Exited

Spec == Init /\ [][Next]_vars

(* Every thread keeps running; the user need not press Enter. *)
FairSpec ==
  /\ Spec
  /\ Sem!Fairness
  /\ WF_vars(MainStep)
  /\ WF_vars(ConsumerStep)
  /\ \A p \in Producers : WF_vars(ProducerStep(p))
-----------------------------------------------------------------------------
(* The unsigned counter neither wraps below zero when the consumer takes   *)
(* an item (line 190) nor passes the limit, at shutdown included.          *)
CounterInRange == counter \in 0 .. Limit

(* Each permit stands for an item: until shutdown, the counter is what the *)
(* semaphore holds, plus the items a producer has counted but not yet      *)
(* signalled, plus the one whose permit the consumer has but has not yet   *)
(* counted off.                                                            *)
ItemsCovered ==
  ~done =>
    counter = permits
              + Cardinality({p \in Producers : pc[p] = "signal" /\ op[p] \in {"idle", "signalling"}})
              + (IF op[Consumer] = "acquired" \/ pc[Consumer] \in {"check", "lock", "consume"}
                   THEN 1 ELSE 0)

(* The two limits of 1000 (lines 151 and 205) fit: a producer that found   *)
(* room for its item is never refused by the semaphore before shutdown.    *)
SignalsAccepted == \A p \in Producers : op[p] = "refused" => done

(* Once g_done is set the one signal that main sends before it joins the   *)
(* consumer is enough: every thread ends and main returns.                 *)
ShutdownCompletes == done ~> \A t \in Threads : pc[t] = "exit"
=============================================================================
