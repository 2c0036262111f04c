------------------------- MODULE MCWorkerRegistry -------------------------
(***************************************************************************)
(* The instance of WorkerRegistry for TLC.  Its run checks liveness, so it *)
(* uses no symmetry of Procs.                                              *)
(***************************************************************************)
EXTENDS WorkerRegistry
=============================================================================
