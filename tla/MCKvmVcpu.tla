------------------------------- MODULE MCKvmVcpu -------------------------------
(***************************************************************************)
(* Instance of KvmVcpu: the cpu thread, the timer thread and two threads of *)
(* the client that compete for the lock.                                   *)
(***************************************************************************)
EXTENDS KvmVcpu
===============================================================================
