------------------------- MODULE MCCreateSubscriber -------------------------
(***************************************************************************)
(* Instances of CreateSubscriber, and of Subscription within it, for TLC.  *)
(***************************************************************************)
EXTENDS CreateSubscriber
=============================================================================
