--------------------------- MODULE ApplyProgress ---------------------------
(***************************************************************************)
(* How the apply worker (pglogical_apply.c) tracks what it has replayed,   *)
(* what it reports to the provider, and where it resumes.                  *)
(*                                                                         *)
(* The provider's transactions are numbered in commit order.  They are     *)
(* streamed whole; the worker commits each one locally, asynchronously by  *)
(* default, and remembers in lsn_mapping which local WAL position makes    *)
(* which remote transaction durable.  The replication origin, updated by   *)
(* every local commit, and the slot's confirmed position, updated by       *)
(* feedback, decide where streaming resumes after a restart.               *)
(*                                                                         *)
(* The local WAL is the sequence hist of remote transactions committed     *)
(* locally; a local WAL position is an index into it.                      *)
(***************************************************************************)
EXTENDS Integers, Sequences

CONSTANTS
  MaxTx,             \* bound: transactions committed on the provider
  Empty,             \* transactions none of whose rows reach the subscriber
  MaxRestarts,       \* bound: exits of the worker and crashes of the server
  RestartAfterFlush  \* TRUE: a worker starts after its predecessor's commits were flushed

ASSUME ProgressAssumption ==
  /\ MaxTx \in Nat
  /\ Empty \subseteq Nat
  /\ MaxRestarts \in Nat
  /\ RestartAfterFlush \in BOOLEAN

VARIABLES
  head,           \* transactions committed on the provider
  confirmed,      \* the slot's confirmed_flush_lsn
  ack,            \* flush position on its way to the provider, 0 if none
  hist,           \* remote transactions committed locally, in order
  flushed,        \* how much of hist has reached the disk
  up,             \* the apply worker is streaming
  next,           \* the transaction being streamed, or the next one
  phase,          \* "idle", or in a remote transaction: "begun", "rows"
  last_received,  \* apply_work's last_received
  lsn_mapping,    \* local_end and remote_end of commits not known to be flushed
  last_pos,       \* last_recvpos, last_writepos and last_flushpos
  restarts        \* exits and crashes so far

stream == <<up, next, phase, last_received>>

vars == <<head, confirmed, ack, hist, flushed, stream, lsn_mapping, last_pos,
          restarts>>

Txs == 1 .. MaxTx

-----------------------------------------------------------------------------
(* LSNs on the provider.  0 is InvalidXLogRecPtr and 1 is where the slot   *)
(* was created.  The commit record of transaction i starts at CommitLsn(i) *)
(* and ends at EndLsn(i); all its changes are before CommitLsn(i).         *)

InvalidXLogRecPtr == 0

SlotStart == 1

CommitLsn(i) == 2 * i

EndLsn(i) == 2 * i + 1

Later(a, b) == IF a < b THEN b ELSE a

\* PGLFlushPosition.
FlushPosition == [local_end : Nat, remote_end : Nat]

\* One type invariant for the module.
TypeOK ==
  /\ head \in 0 .. MaxTx
  /\ confirmed \in Nat
  /\ ack \in Nat
  /\ hist \in Seq(Txs)
  /\ flushed \in 0 .. Len(hist)
  /\ up \in {0, 1}
  /\ next \in 1 .. MaxTx + 1
  /\ phase \in {"idle", "begun", "rows"}
  /\ last_received \in Nat
  /\ lsn_mapping \in Seq(FlushPosition)
  /\ last_pos \in [recv : Nat, write : Nat, flush : Nat]
  /\ restarts \in 0 .. MaxRestarts

Invalid == [recv  |-> InvalidXLogRecPtr, write |-> InvalidXLogRecPtr,
            flush |-> InvalidXLogRecPtr]

Init ==
  /\ head = 0
  /\ confirmed = SlotStart
  /\ ack = InvalidXLogRecPtr
  /\ hist = <<>>
  /\ flushed = 0
  /\ up = 0
  /\ next = 1
  /\ phase = "idle"
  /\ last_received = InvalidXLogRecPtr
  /\ lsn_mapping = <<>>
  /\ last_pos = Invalid
  /\ restarts = 0

-----------------------------------------------------------------------------
\* A transaction commits on the provider.
ProviderCommit ==
  /\ head < MaxTx
  /\ head' = head + 1
  /\ UNCHANGED <<confirmed, ack, hist, flushed, stream, lsn_mapping, last_pos,
                 restarts>>

\* Mutant: the origin's progress is not found, and the stream starts over.
OriginProgress_Lost == SlotStart

\* The progress of the replication origin: handle_begin sets
\* replorigin_session_origin_lsn to the commit LSN, and a local commit that
\* wrote something records it.
OriginProgress == IF hist = <<>> THEN SlotStart ELSE CommitLsn(hist[Len(hist)])

\* Streaming starts at the later of the requested position and the slot's, and
\* skips the transactions that committed before it.
IsFirstAfter(start, i) == CommitLsn(i) >= start /\ CommitLsn(i - 1) < start

\* pglogical_apply_main up to the start of apply_work.  The new process has an
\* empty lsn_mapping whatever its predecessor still had to flush.
WorkerStart ==
  /\ up = 0
  /\ RestartAfterFlush => flushed = Len(hist)
  /\ \E i \in 1 .. MaxTx + 1 :
       /\ IsFirstAfter(Later(OriginProgress, confirmed), i)
       /\ next' = i
  /\ up' = 1
  /\ phase' = "idle"
  /\ last_received' = InvalidXLogRecPtr
  /\ lsn_mapping' = <<>>
  /\ last_pos' = Invalid
  /\ ack' = InvalidXLogRecPtr
  /\ UNCHANGED <<head, confirmed, hist, flushed, restarts>>

\* The LSNs a message about the current transaction may carry.
ChangeLsns == 1 .. CommitLsn(next) - 1

\* A BEGIN message: handle_begin.
HandleBegin(lsn) ==
  /\ up = 1 /\ phase = "idle" /\ next <= head
  /\ last_received' = Later(last_received, lsn)
  /\ phase' = "begun"
  /\ UNCHANGED <<head, confirmed, ack, hist, flushed, up, next, lsn_mapping,
                 last_pos, restarts>>

\* Row messages of the transaction, which open a local transaction.
HandleRows(lsn) ==
  /\ up = 1 /\ phase = "begun" /\ next \notin Empty
  /\ last_received' = Later(last_received, lsn)
  /\ phase' = "rows"
  /\ UNCHANGED <<head, confirmed, ack, hist, flushed, up, next, lsn_mapping,
                 last_pos, restarts>>

\* Whether handle_commit finds a local transaction to commit.
IsTransactionState == phase = "rows"

\* A COMMIT message: handle_commit.
HandleCommit ==
  /\ up = 1
  /\ phase = IF next \in Empty THEN "begun" ELSE "rows"
  /\ last_received' = Later(last_received, EndLsn(next))
  /\ IF IsTransactionState
     THEN /\ hist' = Append(hist, next)
          /\ lsn_mapping' = Append(lsn_mapping, [local_end  |-> Len(hist) + 1,
                                                 remote_end |-> EndLsn(next)])
     ELSE UNCHANGED <<hist, lsn_mapping>>
  /\ phase' = "idle"
  /\ next' = next + 1
  /\ UNCHANGED <<head, confirmed, ack, flushed, up, last_pos, restarts>>

\* Mutant: every entry is taken for flushed.
FlushedPrefix_All(n) == n = Len(lsn_mapping)

\* get_flush_position deletes the first n entries: the flushed ones before the
\* first that is not.
FlushedPrefix(n) ==
  /\ \A j \in 1 .. n : lsn_mapping[j].local_end <= flushed
  /\ n < Len(lsn_mapping) => lsn_mapping[n + 1].local_end > flushed

\* The received position send_feedback works with.
RecvPos(pos) == Later(pos, last_pos.recv)

\* The positions get_flush_position finds when it deletes n entries; with no
\* entry left, send_feedback takes the received position for both.
FoundWrite(pos, n) ==
  IF n = Len(lsn_mapping) THEN RecvPos(pos)
  ELSE lsn_mapping[Len(lsn_mapping)].remote_end

\* Mutant: nothing is ever reported as flushed.
FoundFlush_Never(pos, n) == InvalidXLogRecPtr

FoundFlush(pos, n) ==
  IF n = Len(lsn_mapping) THEN RecvPos(pos)
  ELSE IF n = 0 THEN InvalidXLogRecPtr
  ELSE lsn_mapping[n].remote_end

\* The positions reported never go back within one worker.
WritePos(pos, n) == Later(FoundWrite(pos, n), last_pos.write)

FlushPos(pos, n) == Later(FoundFlush(pos, n), last_pos.flush)

\* send_feedback.  Nothing is sent, and nothing remembered, when there is
\* nothing new to report.
SendFeedback(pos, force) ==
  \E n \in 0 .. Len(lsn_mapping) :
    /\ FlushedPrefix(n)
    /\ lsn_mapping' = SubSeq(lsn_mapping, n + 1, Len(lsn_mapping))
    /\ IF \/ force
          \/ WritePos(pos, n) # last_pos.write
          \/ FlushPos(pos, n) # last_pos.flush
       THEN /\ last_pos' = [recv  |-> RecvPos(pos),
                            write |-> WritePos(pos, n),
                            flush |-> FlushPos(pos, n)]
            /\ ack' = FlushPos(pos, n)
       ELSE UNCHANGED <<last_pos, ack>>

\* apply_work has drained its input and confirms all writes at once.
ConfirmWrites ==
  /\ up = 1
  /\ SendFeedback(last_received, FALSE)
  /\ UNCHANGED <<head, confirmed, hist, flushed, stream, restarts>>

\* The positions a keepalive may carry: the walsender starts at the slot's
\* confirmed position and has not passed a commit it has not sent.
KeepaliveLsns == confirmed .. CommitLsn(next)

\* A keepalive message.
Keepalive(endpos, reply_requested) ==
  /\ up = 1
  /\ SendFeedback(endpos, reply_requested)
  /\ UNCHANGED <<head, confirmed, hist, flushed, stream, restarts>>

\* The provider's walsender processes the feedback.
SlotConfirm ==
  /\ ack # InvalidXLogRecPtr
  /\ confirmed' = ack
  /\ ack' = InvalidXLogRecPtr
  /\ UNCHANGED <<head, hist, flushed, stream, lsn_mapping, last_pos, restarts>>

\* The local WAL writer flushes what has been committed.
LocalFlush ==
  /\ flushed < Len(hist)
  /\ flushed' \in flushed + 1 .. Len(hist)
  /\ UNCHANGED <<head, confirmed, ack, hist, stream, lsn_mapping, last_pos,
                 restarts>>

\* The worker exits on an error, a lost connection or a signal.
WorkerExit ==
  /\ up = 1
  /\ restarts < MaxRestarts
  /\ up' = 0
  /\ restarts' = restarts + 1
  /\ UNCHANGED <<head, confirmed, ack, hist, flushed, next, phase,
                 last_received, lsn_mapping, last_pos>>

\* The subscriber's server crashes: commits that were not flushed are gone.
ServerCrash ==
  /\ restarts < MaxRestarts
  /\ hist' = SubSeq(hist, 1, flushed)
  /\ up' = 0
  /\ restarts' = restarts + 1
  /\ UNCHANGED <<head, confirmed, ack, flushed, next, phase, last_received,
                 lsn_mapping, last_pos>>

Next ==
  \/ ProviderCommit
  \/ WorkerStart
  \/ \E lsn \in ChangeLsns : HandleBegin(lsn) \/ HandleRows(lsn)
  \/ HandleCommit
  \/ ConfirmWrites
  \/ \E endpos \in KeepaliveLsns, reply \in BOOLEAN : Keepalive(endpos, reply)
  \/ SlotConfirm
  \/ LocalFlush
  \/ WorkerExit
  \/ ServerCrash

\* The worker runs, the manager restarts it, the WAL writer flushes and the
\* walsender reads its socket.
Fairness ==
  /\ WF_vars(WorkerStart)
  /\ WF_vars(\E lsn \in ChangeLsns : HandleBegin(lsn) \/ HandleRows(lsn))
  /\ WF_vars(HandleCommit)
  /\ WF_vars(ConfirmWrites)
  /\ WF_vars(SlotConfirm)
  /\ WF_vars(LocalFlush)

Spec == Init /\ [][Next]_vars

FairSpec == Spec /\ Fairness
-----------------------------------------------------------------------------
\* Every transaction with rows that committed before lsn is on local disk.
DurableBefore(lsn) ==
  \A i \in Txs : (i \notin Empty /\ CommitLsn(i) < lsn)
                   => \E k \in 1 .. flushed : hist[k] = i

\* What the worker reports as flushed, and what the provider's slot has
\* confirmed and will never send again, is on the subscriber's disk: the
\* promise in the comment of get_flush_position.
ConfirmedIsDurable == DurableBefore(confirmed) /\ DurableBefore(ack)

\* Over any number of restarts, transactions are committed locally in the
\* provider's order, none is left out, and the only one that is ever applied
\* again is the last one (its commit LSN, not its end, is the origin's
\* progress).
AppliedInOrder ==
  /\ \A k, m \in 1 .. Len(hist) : k <= m => hist[k] <= hist[m]
  /\ \A k \in 1 .. Len(hist), i \in Txs :
       (i \notin Empty /\ i <= hist[k]) => \E m \in 1 .. k : hist[m] = i

\* A worker is never sent a transaction while an earlier one is missing here.
StreamsWithoutGap ==
  up = 1 => \A i \in Txs : i < next /\ i \notin Empty
                             => \E k \in 1 .. Len(hist) : hist[k] = i

\* The strengthening that makes the invariants above inductive, about a
\* streaming worker.  No LSN it has seen passes the commit it waits for, and
\* lsn_mapping has every local commit that is not yet flushed.
WorkerInv ==
  up = 1 =>
    /\ phase # "idle" => next <= head
    /\ \A k \in 1 .. Len(hist) : hist[k] <= next
    /\ last_received <= CommitLsn(next)
    /\ last_pos.recv <= CommitLsn(next)
    /\ DurableBefore(last_pos.flush)
    /\ \A k \in flushed + 1 .. Len(hist) :
         \E j \in 1 .. Len(lsn_mapping) : lsn_mapping[j].local_end = k
    /\ \A j \in 1 .. Len(lsn_mapping) :
         /\ lsn_mapping[j].local_end \in 1 .. Len(hist)
         /\ lsn_mapping[j].remote_end = EndLsn(hist[lsn_mapping[j].local_end])

\* Every transaction committed on the provider is in the end durable on the
\* subscriber and released by the slot, whatever was in flight at a crash.
EventuallyReleased ==
  \A i \in Txs : (head >= i) ~> (confirmed > CommitLsn(i) /\ DurableBefore(confirmed))

-----------------------------------------------------------------------------
(* The promise of replication, and how the state here shows it.            *)

\* The last transaction whose commit record starts before the slot's position.
LastReleased == (confirmed - 1) \div 2

\* The worker is streamed the last transaction committed locally.
Again == up = 1 /\ hist # <<>> /\ next = hist[Len(hist)]

Promise == INSTANCE ReliableDelivery
             WITH committed <- head, applied <- hist, durable <- flushed,
                  released <- LastReleased, resumed <- Again

\* The apply worker, its feedback and its restarts deliver what ReliableDelivery
\* promises: no transaction is skipped, applied out of order, or released by the
\* provider before it is durable here, and none is applied again but the last one,
\* once after a restart and only while the provider has not released it.
DeliversReliably == Promise!DeliverySpec
=============================================================================
