--------------------------- MODULE SemTestProofs ---------------------------
(***************************************************************************)
(* The counter of the semaphore's test program and its semaphore agree,    *)
(* for every number of items.                                              *)
(*                                                                         *)
(* ItemsCovered speaks of the time before shutdown only, while the counter *)
(* must not pass below zero after it either, when main's signals have made *)
(* permits without items.  What carries over is that the consumer decides  *)
(* to take an item at the moment it sees g_done still unset, and that from *)
(* then on nobody else takes one (ItemForConsumer).                        *)
(***************************************************************************)
EXTENDS SemTest, FiniteSetTheorems, TLAPS

(* A thread is inside a call of the semaphore only where it makes one.     *)
CallInv ==
  /\ op[Main] \in {"idle", "signalling", "released", "refused"}
  /\ op[Main] # "idle" => pc[Main] \in {"signal_1", "signal_2"}
  /\ op[Consumer] \in {"idle", "waiting", "acquired"}
  /\ op[Consumer] # "idle" => pc[Consumer] = "wait"
  /\ \A p \in Producers : /\ op[p] \in {"idle", "signalling", "released", "refused"}
                          /\ op[p] # "idle" => pc[p] = "signal"

BeforeShutdown == {"init", "create_c", "create_p0", "create_p1", "getchar"}

(* What main has done by the time it is where it is.                       *)
MainInv ==
  /\ done <=> pc[Main] \notin BeforeShutdown
  /\ alive <=> pc[Main] # "init"
  /\ alive => capacity = Limit
  /\ ~alive => /\ counter = 0
               /\ \A t \in Threads \ {Main} : pc[t] = "new"

ItemForConsumer == pc[Consumer] \in {"lock", "consume"} => counter >= 1

(* From its first signal's effect to the join of the consumer, main has    *)
(* left a permit that only the consumer takes, and only to exit with it.   *)
WakeupLeft ==
  \/ pc[Main] = "signal_1" /\ op[Main] \in {"released", "refused"}
  \/ pc[Main] = "join_c"
  => permits > 0 \/ op[Consumer] = "acquired" \/ pc[Consumer] \in {"check", "exit"}

IInv ==
  /\ pc \in [Threads -> MainPcs \cup ConsumerPcs \cup ProducerPcs]
  /\ TypeOK
  /\ CallInv
  /\ MainInv
  /\ CounterInRange
  /\ ItemsCovered
  /\ SignalsAccepted
  /\ ItemForConsumer
  /\ WakeupLeft
-----------------------------------------------------------------------------
(* An element adds at most one to a cardinality.                           *)
LEMMA OneMore ==
  ASSUME NEW S, IsFiniteSet(S), NEW x
  PROVE  /\ IsFiniteSet(S \cup {x})
         /\ Cardinality(S \cup {x}) \in Nat
         /\ Cardinality(S \cup {x}) <= Cardinality(S) + 1
<1>1. IsFiniteSet(S \cup {x})
  BY FS_AddElement
<1>2. Cardinality(S \cup {x}) = IF x \in S THEN Cardinality(S) ELSE Cardinality(S) + 1
  BY FS_AddElement
<1>3. Cardinality(S) \in Nat
  BY FS_CardinalityType
<1> QED BY <1>1, <1>2, <1>3

(* The four threads are four.                                              *)
LEMMA FourThreads ==
  /\ Main # Consumer /\ Main # P0 /\ Main # P1
  /\ Consumer # P0 /\ Consumer # P1 /\ P0 # P1
<1>1. ASSUME NEW a, NEW b, NEW c PROVE Cardinality({a, b, c}) <= 3
  <2> DEFINE A == {a}
             B == A \cup {b}
             C == B \cup {c}
  <2>1. IsFiniteSet(A) /\ Cardinality(A) = 1
    BY FS_Singleton
  <2>2. C = {a, b, c}
    OBVIOUS
  <2> HIDE DEF A
  <2>3. IsFiniteSet(B) /\ Cardinality(B) \in Nat /\ Cardinality(B) <= 2
    BY <2>1, OneMore
  <2> HIDE DEF B
  <2>4. Cardinality(C) \in Nat /\ Cardinality(C) <= Cardinality(B) + 1
    BY <2>3, OneMore
  <2> HIDE DEF C
  <2> QED BY <2>2, <2>3, <2>4
<1>2. ASSUME NEW a, NEW b, NEW c, Threads = {a, b, c} PROVE FALSE
  <2>1. Cardinality(Threads) <= 3
    BY <1>1, <1>2
  <2> QED BY <2>1, ThreadsAssumption
<1>3. Main = Consumer => Threads = {Main, P0, P1}
  BY DEF Threads, Producers
<1>4. Main = P0 => Threads = {Main, Consumer, P1}
  BY DEF Threads, Producers
<1>5. Main = P1 => Threads = {Main, Consumer, P0}
  BY DEF Threads, Producers
<1>6. Consumer = P0 => Threads = {Main, Consumer, P1}
  BY DEF Threads, Producers
<1>7. Consumer = P1 => Threads = {Main, Consumer, P0}
  BY DEF Threads, Producers
<1>8. P0 = P1 => Threads = {Main, Consumer, P0}
  BY DEF Threads, Producers
<1> QED BY <1>2, <1>3, <1>4, <1>5, <1>6, <1>7, <1>8

(* 1 while producer p has counted an item and not given its permit.        *)
Pending(f, g, p) == IF f[p] = "signal" /\ g[p] \in {"idle", "signalling"} THEN 1 ELSE 0

(* 1 while the consumer has a permit and has not counted off its item.     *)
Owed(f, g) ==
  IF g[Consumer] = "acquired" \/ f[Consumer] \in {"check", "lock", "consume"} THEN 1 ELSE 0

(* The producers with a permit on the way are those that Balanced adds up. *)
LEMMA PendingItems ==
  ASSUME NEW f, NEW g
  PROVE  Cardinality({p \in Producers : f[p] = "signal" /\ g[p] \in {"idle", "signalling"}})
           = Pending(f, g, P0) + Pending(f, g, P1)
<1> DEFINE S == {p \in Producers : f[p] = "signal" /\ g[p] \in {"idle", "signalling"}}
<1> SUFFICES Cardinality(S) = Pending(f, g, P0) + Pending(f, g, P1)
  OBVIOUS
<1>1. S \subseteq {P0, P1}
  BY DEF Producers
<1>2. (P0 \in S <=> Pending(f, g, P0) = 1) /\ (P1 \in S <=> Pending(f, g, P1) = 1)
  BY DEF Pending, Producers
<1>3. Pending(f, g, P0) \in {0, 1} /\ Pending(f, g, P1) \in {0, 1}
  BY DEF Pending
<1> HIDE DEF S
<1>4. P0 # P1
  BY FourThreads
<1>5. CASE P0 \in S /\ P1 \in S
  <2>1. S = {P0} \cup {P1} /\ P1 \notin {P0}
    BY <1>1, <1>4, <1>5
  <2>2. IsFiniteSet({P0}) /\ Cardinality({P0}) = 1
    BY FS_Singleton
  <2>3. Cardinality({P0} \cup {P1}) = Cardinality({P0}) + 1
    BY <2>1, <2>2, FS_AddElement
  <2> QED BY <1>2, <1>5, <2>1, <2>2, <2>3
<1>6. CASE P0 \in S /\ P1 \notin S
  <2>1. S = {P0}
    BY <1>1, <1>6
  <2> QED BY <1>2, <1>3, <1>6, <2>1, FS_Singleton
<1>7. CASE P0 \notin S /\ P1 \in S
  <2>1. S = {P1}
    BY <1>1, <1>7
  <2> QED BY <1>2, <1>3, <1>7, <2>1, FS_Singleton
<1>8. CASE P0 \notin S /\ P1 \notin S
  <2>1. S = {}
    BY <1>1, <1>8
  <2> QED BY <1>2, <1>3, <1>8, <2>1, FS_EmptySet
<1> QED BY <1>5, <1>6, <1>7, <1>8

(* The books are kept: ItemsCovered without a cardinality, which is the    *)
(* form in which the steps are looked at.                                  *)
Balanced ==
  ~done => counter = permits + Pending(pc, op, P0) + Pending(pc, op, P1) + Owed(pc, op)

(* Balanced says what ItemsCovered says, before a step and after it.       *)
LEMMA BalancedIsCovered ==
  /\ permits \in Int => (Balanced <=> ItemsCovered)
  /\ permits' \in Int => (Balanced' <=> ItemsCovered')
<1> DEFINE Card == Cardinality({p \in Producers : pc[p] = "signal" /\ op[p] \in {"idle", "signalling"}})
<1>1. Card = Pending(pc, op, P0) + Pending(pc, op, P1)
  BY PendingItems
<1>2. Card' = Pending(pc', op', P0) + Pending(pc', op', P1)
  BY PendingItems
<1>3. ItemsCovered <=> (~done => counter = permits + Card + Owed(pc, op))
  BY DEF ItemsCovered, Owed
<1>4. ItemsCovered' <=> (~done' => counter' = permits' + Card' + Owed(pc', op'))
  BY DEF ItemsCovered, Owed
<1>5. \A f, g : Owed(f, g) \in Int /\ \A p \in Producers : Pending(f, g, p) \in Int
  BY DEF Owed, Pending
<1> HIDE DEF Card
<1> QED BY <1>1, <1>2, <1>3, <1>4, <1>5 DEF Balanced, Producers
-----------------------------------------------------------------------------
(* What the steps are looked at with: the invariant with Balanced in the   *)
(* place of ItemsCovered.                                                  *)
Books ==
  /\ pc \in [Threads -> MainPcs \cup ConsumerPcs \cup ProducerPcs]
  /\ TypeOK
  /\ CallInv
  /\ MainInv
  /\ CounterInRange
  /\ Balanced
  /\ SignalsAccepted
  /\ ItemForConsumer
  /\ WakeupLeft

(* The invariant with its sums written out.                                *)
LEMMA BooksAreInv == (Books <=> IInv) /\ (Books' <=> IInv')
<1>1. permits \in Int => (Books <=> IInv)
  BY BalancedIsCovered DEF Books, IInv
<1>2. permits' \in Int => (Books' <=> IInv')
  BY BalancedIsCovered DEF Books, IInv
<1>3. (Books => permits \in Int) /\ (IInv => permits \in Int)
  BY DEF Books, IInv, TypeOK, Sem!TypeOK
<1>4. (Books' => permits' \in Int) /\ (IInv' => permits' \in Int)
  BY DEF Books, IInv, TypeOK, Sem!TypeOK
<1> QED BY <1>1, <1>2, <1>3, <1>4

(* Each item gets its permit: a producer's steps keep the books, and the   *)
(* semaphore has room for what it has counted.                             *)
LEMMA ProducerKeeps ==
  ASSUME Books, NEW p \in Producers, ProducerStep(p)
  PROVE  Books'
<1> USE FourThreads, LimitAssumption, NobodyAssumption
    DEF Books, TypeOK, Sem!TypeOK, Sem!Ops, CallInv, MainInv, CounterInRange, Balanced,
        SignalsAccepted, ItemForConsumer, WakeupLeft, Goto, Threads, Producers,
        MainPcs, ProducerPcs, ConsumerPcs, BeforeShutdown, Pending, Owed, own, sem
<1>1. CASE ProducerLoop(p)
  BY <1>1 DEF ProducerLoop
<1>2. CASE ProducerLock(p)
  BY <1>2 DEF ProducerLock, LockG
<1>3. CASE ProducerFull(p)
  BY <1>3 DEF ProducerFull, UnlockG
<1>4. CASE ProducerAdd(p)
  BY <1>4 DEF ProducerAdd, UnlockG
<1>5. CASE ProducerSignal(p)
  <2>1. CASE pc[p] = "signal" /\ Sem!CallSignal(p) /\ UNCHANGED own
    BY <2>1 DEF Sem!CallSignal, Sem!Move
  <2>2. CASE pc[p] = "signal" /\ Sem!Release(p) /\ UNCHANGED own
    BY <2>2 DEF Sem!Release, Sem!Move
  <2>3. CASE pc[p] = "signal" /\ Sem!Refuse(p) /\ UNCHANGED own
    BY <2>3 DEF Sem!Refuse, Sem!Move
  <2>4. CASE Goto(p, "signal", "loop") /\ Sem!Return(p) /\ UNCHANGED <<gLock, counter, done>>
    BY <2>4 DEF Sem!Return
  <2> QED BY <1>5, <2>1, <2>2, <2>3, <2>4 DEF ProducerSignal, Signalling
<1> QED BY <1>1, <1>2, <1>3, <1>4, <1>5 DEF ProducerStep

(* The consumer takes an item only with a permit it got before shutdown.   *)
LEMMA ConsumerKeeps ==
  ASSUME Books, ConsumerStep
  PROVE  Books'
<1> USE FourThreads, LimitAssumption, NobodyAssumption
    DEF Books, TypeOK, Sem!TypeOK, Sem!Ops, CallInv, MainInv, CounterInRange, Balanced,
        SignalsAccepted, ItemForConsumer, WakeupLeft, Goto, Threads, Producers,
        MainPcs, ProducerPcs, ConsumerPcs, BeforeShutdown, Pending, Owed, own, sem
<1>1. CASE ConsumerWait
  <2>1. CASE pc[Consumer] = "wait" /\ Sem!CallWait(Consumer) /\ UNCHANGED own
    BY <2>1 DEF Sem!CallWait, Sem!Move
  <2>2. CASE pc[Consumer] = "wait" /\ Sem!Acquire(Consumer) /\ UNCHANGED own
    BY <2>2 DEF Sem!Acquire, Sem!Move
  <2>3. CASE /\ Goto(Consumer, "wait", "check")
             /\ Sem!Return(Consumer)
             /\ UNCHANGED <<gLock, counter, done>>
    BY <2>3 DEF Sem!Return
  <2> QED BY <1>1, <2>1, <2>2, <2>3 DEF ConsumerWait, Waiting
<1>2. CASE ConsumerCheck
  BY <1>2 DEF ConsumerCheck
<1>3. CASE ConsumerLock
  BY <1>3 DEF ConsumerLock, LockG
<1>4. CASE ConsumerTake
  BY <1>4 DEF ConsumerTake, UnlockG
<1> QED BY <1>1, <1>2, <1>3, <1>4 DEF ConsumerStep

(* main's own signals come after it has set g_done.                        *)
LEMMA MainKeeps ==
  ASSUME Books, MainStep \/ MainGetchar \/ Exited
  PROVE  Books'
<1> USE FourThreads, LimitAssumption, NobodyAssumption
    DEF Books, TypeOK, Sem!TypeOK, Sem!Ops, CallInv, MainInv, CounterInRange, Balanced,
        SignalsAccepted, ItemForConsumer, WakeupLeft, Goto, Threads, Producers,
        MainPcs, ProducerPcs, ConsumerPcs, BeforeShutdown, Pending, Owed, own, sem
<1>1. CASE MainInit
  BY <1>1 DEF MainInit, Sem!Create, Sem!Quiet
<1>2. CASE MainCreate("create_c", Consumer, "wait", "create_p0")
  BY <1>2 DEF MainCreate
<1>3. CASE MainCreate("create_p0", P0, "loop", "create_p1")
  BY <1>3 DEF MainCreate
<1>4. CASE MainCreate("create_p1", P1, "loop", "getchar")
  BY <1>4 DEF MainCreate
<1>5. ASSUME NEW at, NEW next, Signalling(Main, at, next),
             \/ at = "signal_1" /\ next = "join_c"
             \/ at = "signal_2" /\ next = "join_p1"
      PROVE  Books'
  <2>1. CASE pc[Main] = at /\ Sem!CallSignal(Main) /\ UNCHANGED own
    BY <1>5, <2>1 DEF Sem!CallSignal, Sem!Move
  <2>2. CASE pc[Main] = at /\ Sem!Release(Main) /\ UNCHANGED own
    BY <1>5, <2>2 DEF Sem!Release, Sem!Move
  <2>3. CASE pc[Main] = at /\ Sem!Refuse(Main) /\ UNCHANGED own
    BY <1>5, <2>3 DEF Sem!Refuse, Sem!Move
  <2>4. CASE Goto(Main, at, next) /\ Sem!Return(Main) /\ UNCHANGED <<gLock, counter, done>>
    BY <1>5, <2>4 DEF Sem!Return
  <2> QED BY <1>5, <2>1, <2>2, <2>3, <2>4 DEF Signalling
<1>6. CASE MainJoin("join_c", Consumer, "join_p0")
  BY <1>6 DEF MainJoin
<1>7. CASE MainJoin("join_p0", P0, "signal_2")
  BY <1>7 DEF MainJoin
<1>8. CASE MainJoin("join_p1", P1, "exit")
  BY <1>8 DEF MainJoin
<1>9. CASE MainGetchar
  BY <1>9 DEF MainGetchar
<1>10. CASE Exited
  BY <1>10 DEF Exited, vars
<1> QED BY <1>1, <1>2, <1>3, <1>4, <1>5, <1>6, <1>7, <1>8, <1>9, <1>10
        DEF MainStep, MainSignals

(* Each step keeps the invariant.                                          *)
LEMMA InvStep == ASSUME IInv, [Next]_vars PROVE IInv'
<1>1. Books
  BY BooksAreInv
<1>2. ASSUME NEW p \in Producers, ProducerStep(p) PROVE Books'
  BY <1>1, <1>2, ProducerKeeps
<1>3. CASE ConsumerStep
  BY <1>1, <1>3, ConsumerKeeps, BooksAreInv
<1>4. CASE MainStep \/ MainGetchar \/ Exited
  BY <1>1, <1>4, MainKeeps, BooksAreInv
<1>5. CASE UNCHANGED vars
  <2>1. vars' = vars => Books' = Books
    BY DEF vars, own, sem, Books, TypeOK, Sem!TypeOK, CallInv, MainInv, CounterInRange,
           Balanced, SignalsAccepted, ItemForConsumer, WakeupLeft, Pending, Owed
  <2> QED BY <1>1, <1>5, <2>1, BooksAreInv
<1> QED BY <1>2, <1>3, <1>4, <1>5, BooksAreInv DEF Next

(* It holds before main has created anything.                              *)
LEMMA InitInv == Init => IInv
<1> SUFFICES ASSUME Init PROVE Books
  BY BooksAreInv
<1>1. /\ pc[Main] = "init"
      /\ \A t \in Threads \ {Main} : pc[t] = "new"
      /\ \A t \in Threads : op[t] = "idle"
  BY DEF Init, Sem!Init, Threads
<1>2. pc \in [Threads -> MainPcs \cup ConsumerPcs \cup ProducerPcs]
  BY DEF Init, MainPcs, ProducerPcs
<1>3. counter = 0 /\ permits = 0 /\ capacity = 0 /\ ~done /\ ~alive
  BY DEF Init, Sem!Init
<1>4. TypeOK
  <2>1. alive \in BOOLEAN /\ done \in BOOLEAN
    BY DEF Init, Sem!Init
  <2>2. op \in [Threads -> Sem!Ops]
    BY DEF Init, Sem!Init, Sem!Ops
  <2>3. /\ pc[Main] \in MainPcs /\ pc[Consumer] \in ConsumerPcs
        /\ \A p \in Producers : pc[p] \in ProducerPcs
    BY <1>1, FourThreads DEF Threads, Producers, MainPcs, ConsumerPcs, ProducerPcs
  <2>4. gLock \in Threads \cup {"nobody"}
    BY DEF Init
  <2> QED BY <1>3, <2>1, <2>2, <2>3, <2>4 DEF TypeOK, Sem!TypeOK
<1>5. CallInv /\ MainInv /\ SignalsAccepted /\ ItemForConsumer /\ WakeupLeft
  BY <1>1, <1>3, FourThreads
     DEF CallInv, MainInv, SignalsAccepted, ItemForConsumer, WakeupLeft,
         Threads, Producers, BeforeShutdown
<1>6. CounterInRange /\ Balanced
  BY <1>1, <1>3, FourThreads, LimitAssumption
     DEF CounterInRange, Balanced, Pending, Owed, Threads, Producers
<1> QED BY <1>2, <1>4, <1>5, <1>6 DEF Books

(* Every reachable state satisfies the inductive invariant.                *)
THEOREM Invariant == Spec => []IInv
<1>1. IInv /\ [Next]_vars => IInv'
  BY InvStep
<1> QED BY <1>1, InitInv, PTL DEF Spec

(* The variables keep their types (pthread_semaphore.c:126-228).           *)
THEOREM TypeCorrect == Spec => []TypeOK
<1>1. IInv => TypeOK
  BY DEF IInv
<1> QED BY <1>1, Invariant, PTL

(* The unsigned g_counter does not wrap, and does not pass its limit.      *)
THEOREM CounterBounds == Spec => []CounterInRange
<1>1. IInv => CounterInRange
  BY DEF IInv
<1> QED BY <1>1, Invariant, PTL

(* Until shutdown each item has its permit, in the semaphore or on the way *)
(* into it or out of it.                                                   *)
THEOREM PermitPerItem == Spec => []ItemsCovered
<1>1. IInv => ItemsCovered
  BY DEF IInv
<1> QED BY <1>1, Invariant, PTL

(* No producer is refused before shutdown: counter and semaphore have the  *)
(* same limit.                                                             *)
THEOREM NoRefusal == Spec => []SignalsAccepted
<1>1. IInv => SignalsAccepted
  BY DEF IInv
<1> QED BY <1>1, Invariant, PTL

(* The safety in ShutdownCompletes: when main joins the consumer, one that *)
(* has yet to get a permit finds one, although nobody else may give        *)
(* another before main does again, after the join.                         *)
ConsumerWakes ==
  pc[Main] = "join_c" /\ op[Consumer] = "waiting" => permits > 0

(* main never waits for a consumer that waits for main.                    *)
THEOREM NoStuckJoin == Spec => []ConsumerWakes
<1>1. IInv => ConsumerWakes
  BY DEF IInv, WakeupLeft, ConsumerWakes, CallInv
<1> QED BY <1>1, Invariant, PTL
=============================================================================
