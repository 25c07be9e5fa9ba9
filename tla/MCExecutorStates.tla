--------------------------- MODULE MCExecutorStates ---------------------------
(***************************************************************************)
(* Instance of ExecutorStates: at most four states are ever created, enough *)
(* for two unfiled forks while another state waits and one is terminated.  *)
(***************************************************************************)
EXTENDS ExecutorStates
===============================================================================
