------------------------------ MODULE Semaphore ------------------------------
(***************************************************************************)
(* What pthread_semaphore.c promises its callers: a bounded counting       *)
(* semaphore whose wait and signal calls take effect atomically, at one    *)
(* instant between the call and the return.  Nothing of the mutex and the  *)
(* condition variable that implement it is visible here.                   *)
(***************************************************************************)
EXTENDS Integers

CONSTANT Threads

VARIABLES
  alive,     \* between a successful pthread_sem_init and pthread_sem_destroy
  permits,   \* how many more waits can be granted now
  capacity,  \* the limit on permits
  op         \* how far each thread is in its current call

vars == <<alive, permits, capacity, op>>

Ops == {"idle", "waiting", "acquired", "signalling", "released", "refused"}

TypeOK ==
  /\ alive \in BOOLEAN
  /\ permits \in Nat
  /\ capacity \in Nat
  /\ op \in [Threads -> Ops]

Init ==
  /\ alive = FALSE
  /\ permits = 0
  /\ capacity = 0
  /\ op = [t \in Threads |-> "idle"]

Move(t, from, to) ==
  /\ op[t] = from
  /\ op' = [op EXCEPT ![t] = to]
-----------------------------------------------------------------------------
(* Nobody can be inside a call while the object comes to life or dies. *)
Quiet == \A t \in Threads : op[t] = "idle"

Create ==
  /\ ~alive /\ Quiet
  /\ alive' = TRUE
  /\ capacity' \in Nat \ {0}
  /\ permits' \in 0 .. capacity'
  /\ UNCHANGED op

Destroy ==
  /\ alive /\ Quiet
  /\ alive' = FALSE
  /\ permits' = 0
  /\ capacity' = 0
  /\ UNCHANGED op

CallWait(t) ==
  /\ alive
  /\ Move(t, "idle", "waiting")
  /\ UNCHANGED <<alive, permits, capacity>>

(* A wait is granted only out of a permit. *)
Acquire(t) ==
  /\ Move(t, "waiting", "acquired")
  /\ permits > 0
  /\ permits' = permits - 1
  /\ UNCHANGED <<alive, capacity>>

CallSignal(t) ==
  /\ alive
  /\ Move(t, "idle", "signalling")
  /\ UNCHANGED <<alive, permits, capacity>>

Release(t) ==
  /\ Move(t, "signalling", "released")
  /\ permits < capacity
  /\ permits' = permits + 1
  /\ UNCHANGED <<alive, capacity>>

(* ERANGE: a signal is refused only when the semaphore is full. *)
Refuse(t) ==
  /\ Move(t, "signalling", "refused")
  /\ permits = capacity
  /\ UNCHANGED <<alive, permits, capacity>>

Return(t) ==
  /\ op[t] \in {"acquired", "released", "refused"}
  /\ op' = [op EXCEPT ![t] = "idle"]
  /\ UNCHANGED <<alive, permits, capacity>>
-----------------------------------------------------------------------------
Next ==
  \/ Create
  \/ Destroy
  \/ \E t \in Threads : \/ CallWait(t)
                        \/ Acquire(t)
                        \/ CallSignal(t)
                        \/ Release(t)
                        \/ Refuse(t)
                        \/ Return(t)

Spec == Init /\ [][Next]_vars

(* A permit does not lie idle while somebody waits; signal calls are       *)
(* always decided and decided calls return.  Which of several competing    *)
(* callers is served first is not promised.                                *)
Fairness ==
  /\ WF_vars(\E t \in Threads : Acquire(t))
  /\ WF_vars(\E t \in Threads : Release(t) \/ Refuse(t))
  /\ \A t \in Threads : WF_vars(Return(t))

FairSpec == Spec /\ Fairness
=============================================================================
