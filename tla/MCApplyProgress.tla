-------------------------- MODULE MCApplyProgress --------------------------
(***************************************************************************)
(* Small instances of ApplyProgress for TLC.                               *)
(***************************************************************************)
EXTENDS ApplyProgress
=============================================================================
