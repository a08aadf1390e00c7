---------------------------- MODULE MCPthreadSem ----------------------------
(* An instance of PthreadSem for TLC. *)
EXTENDS PthreadSem

CONSTANTS t1, t2, t3

MCThreads == {t1, t2, t3}

(* Empty, partly filled and full semaphores, and arguments that init       *)
(* rejects (a limit of 0, a value beyond the limit).                       *)
MCValues == {0, 1, 2}
MCMaxes  == {0, 1, 2}
=============================================================================
