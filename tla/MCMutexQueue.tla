---------------------------- MODULE MCMutexQueue ----------------------------
(***************************************************************************)
(* The mutex queue, instantiated by MCMutexQueue.cfg.                      *)
(***************************************************************************)
EXTENDS MutexQueue
=============================================================================
