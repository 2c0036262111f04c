-------------------------- MODULE ReliableDelivery --------------------------
(***************************************************************************)
(* What replication promises to its user, without its machinery: the       *)
(* transactions of the provider reach the subscriber in order and without  *)
(* gaps, a crash of the subscriber takes back only what was not durable,   *)
(* and the provider forgets a transaction only when it is durable there.   *)
(*                                                                         *)
(* It does not promise that each is applied once: the last one applied may *)
(* be applied again when the stream is resumed, as long as the provider    *)
(* has not released it.  No other is, and none within one stream.          *)
(*                                                                         *)
(* Transactions are numbered in commit order.  Some are empty for this     *)
(* subscriber: none of their rows is sent, and nothing is applied.         *)
(***************************************************************************)
EXTENDS Integers, Sequences

CONSTANT Empty

VARIABLES
  committed,  \* the last transaction committed on the provider
  applied,    \* the transactions applied on the subscriber, one after the other
  durable,    \* how many of these would survive a crash there
  released,   \* the last transaction the provider will not send again
  resumed     \* the stream was resumed at the last one applied, which comes again

dvars == <<committed, applied, durable, released, resumed>>

LastApplied == IF applied = <<>> THEN 0 ELSE applied[Len(applied)]

DeliveryInit ==
  committed = 0 /\ applied = <<>> /\ durable = 0 /\ released = 0 /\ resumed = FALSE

Commit ==
  /\ committed' = committed + 1
  /\ UNCHANGED <<applied, durable, released, resumed>>

\* The next transaction that is not empty.
Deliver ==
  /\ ~resumed
  /\ \E i \in LastApplied + 1 .. committed :
       /\ i \notin Empty
       /\ \A j \in LastApplied + 1 .. i - 1 : j \in Empty
       /\ applied' = Append(applied, i)
  /\ UNCHANGED <<committed, durable, released, resumed>>

\* The last one again, once for each time the stream is resumed there.
Redeliver ==
  /\ resumed
  /\ released < LastApplied
  /\ applied' = Append(applied, LastApplied)
  /\ resumed' = FALSE
  /\ UNCHANGED <<committed, durable, released>>

\* The stream starts.  The last transaction comes again only if it was not released.
Resume ==
  /\ ~resumed
  /\ released < LastApplied
  /\ resumed' = TRUE
  /\ UNCHANGED <<committed, applied, durable, released>>

Stop ==
  /\ resumed' = FALSE
  /\ UNCHANGED <<committed, applied, durable, released>>

Harden ==
  /\ durable' \in durable + 1 .. Len(applied)
  /\ UNCHANGED <<committed, applied, released, resumed>>

\* The provider's position may also go back.
Release ==
  /\ released' \in Nat
  /\ \A i \in 1 .. released' : i \in Empty \/ \E k \in 1 .. durable : applied[k] = i
  /\ resumed => released' < LastApplied
  /\ UNCHANGED <<committed, applied, durable, resumed>>

Crash ==
  /\ applied' = SubSeq(applied, 1, durable)
  /\ resumed' = FALSE
  /\ UNCHANGED <<committed, durable, released>>

DeliveryNext == Commit \/ Deliver \/ Redeliver \/ Resume \/ Stop \/ Harden \/ Release \/ Crash

DeliverySpec == DeliveryInit /\ [][DeliveryNext]_dvars
=============================================================================
