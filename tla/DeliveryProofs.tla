--------------------------- MODULE DeliveryProofs ---------------------------
(***************************************************************************)
(* Proof that ApplyProgress implements ReliableDelivery, for any number of *)
(* transactions and restarts, when a worker starts only after the local    *)
(* commits of its predecessor have been flushed.                           *)
(***************************************************************************)
EXTENDS ApplyProgressProofs

\* No position the provider or the subscriber knows of is past the transactions
\* that have committed: without it, a transaction could be released before it
\* exists.
NeverAhead ==
  /\ confirmed <= CommitLsn(head + 1)
  /\ ack <= CommitLsn(head + 1)
  /\ \A k \in 1 .. Len(hist) : hist[k] <= head
  /\ up = 1 => next <= head + 1

\* No position is past the commit a worker waits for: without it, the provider could
\* have released a transaction and send it again.
NeverPast ==
  up = 1 =>
    /\ confirmed <= CommitLsn(next) /\ ack <= CommitLsn(next)
    /\ last_pos.flush <= CommitLsn(next)
    /\ \A j \in 1 .. Len(lsn_mapping) : lsn_mapping[j].remote_end <= CommitLsn(next)

DeliveryInv == NeverAhead /\ NeverPast

\* Arithmetic: the next commit record is two positions on.
LEMMA NextCommit ==
  ASSUME NEW n \in Nat
  PROVE  /\ CommitLsn(n) \in Nat /\ EndLsn(n) \in Nat
         /\ CommitLsn(n + 1) = CommitLsn(n) + 2
         /\ EndLsn(n) = CommitLsn(n) + 1
BY DEF CommitLsn, EndLsn

\* Arithmetic: commit LSNs are ordered like the transactions.
LEMMA CommitLsnOrder ==
  ASSUME NEW m \in Nat, NEW n \in Nat, m <= n
  PROVE  CommitLsn(m) <= CommitLsn(n) /\ EndLsn(m) < CommitLsn(n + 1)
BY DEF CommitLsn, EndLsn

\* The initial positions are before the first transaction.
LEMMA DeliveryInvInit == Init => DeliveryInv
BY DEF Init, DeliveryInv, NeverAhead, NeverPast, SlotStart, CommitLsn, InvalidXLogRecPtr

\* What send_feedback reports, and what it leaves to report, is not past the commit
\* the worker waits for.
LEMMA FeedbackNeverPast ==
  ASSUME ProgressInv, DeliveryInv, up = 1, NEW at \in Nat, at <= CommitLsn(next),
         NEW force \in BOOLEAN, SendFeedback(at, force),
         UNCHANGED <<head, confirmed, hist, flushed, stream, restarts>>
  PROVE  DeliveryInv'
<1> USE ProgressAssumption
<1>0. NatFacts /\ EntryFacts
  BY TypeOKFacts DEF ProgressInv
<1>1. PICK n \in 0 .. Len(lsn_mapping) :
        /\ lsn_mapping' = SubSeq(lsn_mapping, n + 1, Len(lsn_mapping))
        /\ \/ /\ last_pos' = [recv  |-> RecvPos(at),
                              write |-> WritePos(at, n),
                              flush |-> FlushPos(at, n)]
              /\ ack' = FlushPos(at, n)
           \/ UNCHANGED <<last_pos, ack>>
  BY DEF SendFeedback
<1>2. /\ confirmed <= CommitLsn(next) /\ ack <= CommitLsn(next)
      /\ last_pos.flush <= CommitLsn(next)
      /\ \A j \in 1 .. Len(lsn_mapping) : lsn_mapping[j].remote_end <= CommitLsn(next)
  BY Zenon DEF DeliveryInv, NeverPast
<1>3. CommitLsn(next) \in Nat
  BY <1>0, NextCommit DEF NatFacts
<1>4. RecvPos(at) <= CommitLsn(next)
  <2>1. last_pos.recv <= CommitLsn(next) /\ last_pos.recv \in Nat
    BY <1>0 DEF ProgressInv, WorkerInv, NatFacts
  <2>2. QED
    BY <2>1 DEF RecvPos, Later
<1>5. FoundFlush(at, n) <= CommitLsn(next)
  <2>1. CASE n = Len(lsn_mapping)
    BY <1>4, <2>1 DEF FoundFlush
  <2>2. CASE n # Len(lsn_mapping) /\ n = 0
    BY <1>3, <2>2 DEF FoundFlush, InvalidXLogRecPtr
  <2>3. CASE n # Len(lsn_mapping) /\ n # 0
    <3>1. n \in 1 .. Len(lsn_mapping)
      BY <1>0, <2>3 DEF NatFacts
    <3>2. QED
      BY <1>2, <2>3, <3>1 DEF FoundFlush
  <2>4. QED
    BY <2>1, <2>2, <2>3
<1>6. FlushPos(at, n) <= CommitLsn(next)
  BY <1>2, <1>5 DEF FlushPos, Later
<1>7. ack' <= CommitLsn(next) /\ last_pos'.flush <= CommitLsn(next)
  BY <1>1, <1>2, <1>6
<1>8. \A j \in 1 .. Len(lsn_mapping') : lsn_mapping'[j].remote_end <= CommitLsn(next)
  <2>1. lsn_mapping \in Seq(FlushPosition)
    BY DEF ProgressInv, TypeOK
  <2>2. \A j \in 1 .. Len(lsn_mapping') :
          n + j \in 1 .. Len(lsn_mapping) /\ lsn_mapping'[j] = lsn_mapping[n + j]
    BY <1>1, <2>1
  <2>3. QED
    BY <1>2, <2>2
<1>9. NeverPast'
  BY <1>2, <1>7, <1>8 DEF NeverPast, stream
<1>10. NeverAhead'
  <2>1. CommitLsn(next) <= CommitLsn(head + 1) /\ CommitLsn(head + 1) \in Nat
    BY <1>0, CommitLsnOrder, NextCommit DEF DeliveryInv, NeverAhead, NatFacts
  <2>2. ack' \in Nat
    BY FeedbackSafe DEF TypeOK
  <2>3. ack' <= CommitLsn(head + 1)
    BY <1>3, <1>7, <2>1, <2>2
  <2>4. QED
    BY <2>3 DEF DeliveryInv, NeverAhead, stream
<1>11. QED
  BY <1>9, <1>10 DEF DeliveryInv

\* A step keeps every position behind the next commit, and behind the one waited for.
LEMMA DeliveryInvStep ==
  RestartAfterFlush /\ ProgressInv /\ DeliveryInv /\ [Next]_vars => DeliveryInv'
<1> SUFFICES ASSUME RestartAfterFlush, ProgressInv, DeliveryInv, [Next]_vars PROVE DeliveryInv'
  OBVIOUS
<1> USE ProgressAssumption
<1>1. NatFacts /\ EntryFacts
  BY TypeOKFacts DEF ProgressInv
<1>0. /\ confirmed <= CommitLsn(head + 1) /\ ack <= CommitLsn(head + 1)
      /\ \A k \in 1 .. Len(hist) : hist[k] <= head
      /\ up = 1 => next <= head + 1
  BY Zenon DEF DeliveryInv, NeverAhead
<1>2. CASE ProviderCommit
  <2>1. /\ head' = head + 1
        /\ UNCHANGED <<confirmed, ack, hist, up, next, lsn_mapping, last_pos>>
    BY <1>2 DEF ProviderCommit, stream
  <2>2. CommitLsn(head + 1) <= CommitLsn(head' + 1) /\ head <= head'
    BY <1>1, <2>1, CommitLsnOrder DEF NatFacts
  <2>3. CommitLsn(head + 1) \in Nat /\ CommitLsn(head' + 1) \in Nat /\ head' \in Nat
    BY <1>1, <2>1 DEF NatFacts, CommitLsn
  <2>4. confirmed' <= CommitLsn(head' + 1) /\ ack' <= CommitLsn(head' + 1)
    BY <1>0, <1>1, <2>1, <2>2, <2>3 DEF NatFacts
  <2>5. \A k \in 1 .. Len(hist') : hist'[k] <= head'
    <3>1. SUFFICES ASSUME NEW k \in 1 .. Len(hist) PROVE hist[k] <= head'
      BY <2>1
    <3>2. hist[k] \in Nat /\ hist[k] <= head
      BY <1>0, <1>1 DEF EntryFacts
    <3>3. head \in Nat
      BY <1>1 DEF NatFacts
    <3>4. QED
      BY <2>2, <2>3, <3>2, <3>3
  <2>6. up = 1 => next <= head' + 1
    BY <1>0, <1>1, <2>1 DEF NatFacts
  <2>7. NeverPast'
    BY <2>1, Zenon DEF DeliveryInv, NeverPast
  <2>8. QED
    BY <2>1, <2>4, <2>5, <2>6, <2>7 DEF DeliveryInv, NeverAhead
<1>3. CASE WorkerStart
  <2> DEFINE start == Later(OriginProgress, confirmed)
  <2>1. PICK i \in 1 .. MaxTx + 1 : IsFirstAfter(start, i) /\ next' = i
    BY <1>3 DEF WorkerStart
  <2>2. /\ ack' = 0 /\ last_pos'.flush = 0 /\ lsn_mapping' = <<>> /\ up' = 1
        /\ UNCHANGED <<head, confirmed, hist>>
    BY <1>3 DEF WorkerStart, InvalidXLogRecPtr, Invalid
  <2>3. CommitLsn(head + 1) \in Nat /\ CommitLsn(head + 1) = 2 * head + 2
    BY <1>1 DEF NatFacts, CommitLsn
  <2>4. OriginProgress \in Nat /\ OriginProgress <= CommitLsn(head + 1)
    <3>1. CASE hist = <<>>
      BY <1>1, <2>3, <3>1 DEF OriginProgress, SlotStart, NatFacts
    <3>2. CASE hist # <<>>
      <4>1. Len(hist) \in 1 .. Len(hist)
        BY <1>1, <3>2 DEF NatFacts, ProgressInv, TypeOK
      <4>2. hist[Len(hist)] \in Nat /\ hist[Len(hist)] <= head
        BY <1>0, <1>1, <4>1 DEF EntryFacts
      <4>3. QED
        BY <1>1, <2>3, <3>2, <4>2 DEF OriginProgress, CommitLsn, NatFacts
    <3>3. QED
      BY <3>1, <3>2
  <2>5. start \in Nat /\ start <= 2 * head + 2
    BY <1>0, <1>1, <2>3, <2>4 DEF Later, NatFacts
  <2>6. i <= head + 1
    <3>1. 2 * (i - 1) < start
      BY <2>1 DEF IsFirstAfter, CommitLsn
    <3>2. QED
      BY <1>1, <2>5, <3>1 DEF NatFacts
  <2>7. NeverAhead'
    BY <1>0, <2>1, <2>2, <2>3, <2>6 DEF NeverAhead
  <2>8. confirmed <= CommitLsn(i) /\ CommitLsn(i) \in Nat
    <3>1. start <= CommitLsn(i) /\ confirmed <= start
      BY <1>1, <2>1, <2>4 DEF IsFirstAfter, Later, NatFacts, CommitLsn
    <3>2. QED
      BY <1>1, <2>5, <3>1 DEF NatFacts, CommitLsn
  <2> HIDE DEF start
  <2>9. NeverPast'
    BY <2>1, <2>2, <2>8 DEF NeverPast
  <2>10. QED
    BY <2>7, <2>9 DEF DeliveryInv
<1>4. CASE \E lsn \in ChangeLsns : HandleBegin(lsn) \/ HandleRows(lsn)
  BY <1>4 DEF HandleBegin, HandleRows, DeliveryInv, NeverAhead, NeverPast
<1>5. CASE HandleCommit
  <2>1. /\ up = 1 /\ phase # "idle" /\ next' = next + 1
        /\ hist' = Append(hist, next) \/ hist' = hist
        /\ \/ lsn_mapping' = lsn_mapping
           \/ lsn_mapping' = Append(lsn_mapping, [local_end  |-> Len(hist) + 1,
                                                  remote_end |-> EndLsn(next)])
        /\ UNCHANGED <<head, confirmed, ack, up, last_pos>>
    BY <1>5 DEF HandleCommit
  <2>2. next <= head
    BY <2>1 DEF ProgressInv, WorkerInv
  <2>3. \A k \in 1 .. Len(hist') : hist'[k] <= head
    <3>1. CASE hist' = hist
      BY <1>0, <3>1
    <3>2. CASE hist' = Append(hist, next)
      <4>1. hist \in Seq(Nat) /\ next \in Nat
        BY <1>1 DEF ProgressInv, TypeOK, NatFacts, Txs
      <4>2. Len(hist') = Len(hist) + 1
        BY <3>2, <4>1
      <4>3. \A k \in 1 .. Len(hist') :
              hist'[k] = IF k = Len(hist) + 1 THEN next ELSE hist[k]
        BY <3>2, <4>1, <4>2
      <4>4. \A k \in 1 .. Len(hist') : k = Len(hist) + 1 \/ k \in 1 .. Len(hist)
        BY <1>1, <4>2 DEF NatFacts
      <4>5. QED
        BY <1>0, <2>2, <4>3, <4>4
    <3>3. QED
      BY <2>1, <3>1, <3>2
  <2>4. next + 1 <= head + 1
    BY <1>1, <2>2 DEF NatFacts
  <2>5. NeverAhead'
    BY <1>0, <2>1, <2>3, <2>4 DEF NeverAhead
  <2>6. /\ CommitLsn(next) \in Nat /\ CommitLsn(next + 1) \in Nat
        /\ CommitLsn(next) <= CommitLsn(next + 1) /\ EndLsn(next) <= CommitLsn(next + 1)
    BY <1>1 DEF NatFacts, CommitLsn, EndLsn
  <2>7. /\ confirmed <= CommitLsn(next) /\ ack <= CommitLsn(next)
        /\ last_pos.flush <= CommitLsn(next)
        /\ \A j \in 1 .. Len(lsn_mapping) : lsn_mapping[j].remote_end <= CommitLsn(next)
    BY <2>1, Zenon DEF DeliveryInv, NeverPast
  <2>8. \A j \in 1 .. Len(lsn_mapping) : lsn_mapping[j].remote_end <= CommitLsn(next + 1)
    BY <1>1, <2>6, <2>7 DEF EntryFacts
  <2>9. \A j \in 1 .. Len(lsn_mapping') : lsn_mapping'[j].remote_end <= CommitLsn(next + 1)
    <3>1. CASE lsn_mapping' = lsn_mapping
      BY <2>8, <3>1
    <3>2. CASE lsn_mapping' = Append(lsn_mapping, [local_end  |-> Len(hist) + 1,
                                                   remote_end |-> EndLsn(next)])
      <4>1. lsn_mapping \in Seq(FlushPosition)
        BY DEF ProgressInv, TypeOK
      <4>2. \A j \in 1 .. Len(lsn_mapping') :
              \/ j \in 1 .. Len(lsn_mapping) /\ lsn_mapping'[j] = lsn_mapping[j]
              \/ lsn_mapping'[j].remote_end = EndLsn(next)
        BY <3>2, <4>1
      <4>3. QED
        BY <2>6, <2>8, <4>2
    <3>3. QED
      BY <2>1, <3>1, <3>2
  <2>10. /\ confirmed <= CommitLsn(next + 1) /\ ack <= CommitLsn(next + 1)
         /\ last_pos.flush <= CommitLsn(next + 1)
    BY <1>1, <2>6, <2>7 DEF NatFacts
  <2>11. NeverPast'
    BY <2>1, <2>9, <2>10 DEF NeverPast
  <2>12. QED
    BY <2>5, <2>11 DEF DeliveryInv
<1>6. CASE ConfirmWrites
  <2>1. last_received \in Nat /\ last_received <= CommitLsn(next)
    BY <1>1, <1>6 DEF ConfirmWrites, NatFacts, ProgressInv, WorkerInv
  <2>2. QED
    BY <1>6, <2>1, FeedbackNeverPast DEF ConfirmWrites
<1>7. ASSUME NEW endpos \in KeepaliveLsns, NEW reply \in BOOLEAN, Keepalive(endpos, reply)
      PROVE  DeliveryInv'
  <2>1. endpos \in Nat /\ endpos <= CommitLsn(next)
    BY <1>1 DEF KeepaliveLsns, NatFacts, CommitLsn
  <2>2. QED
    BY <1>7, <2>1, FeedbackNeverPast DEF Keepalive
<1>8. CASE SlotConfirm
  <2>1. CommitLsn(head + 1) \in Nat
    BY <1>1 DEF NatFacts, CommitLsn
  <2>2. QED
    BY <1>1, <1>8, <2>1 DEF SlotConfirm, DeliveryInv, NeverAhead, NeverPast, InvalidXLogRecPtr,
                           stream, NatFacts, CommitLsn
<1>9. CASE LocalFlush \/ WorkerExit
  BY <1>9 DEF LocalFlush, WorkerExit, DeliveryInv, NeverAhead, NeverPast, stream
<1>10. CASE ServerCrash
  <2>1. /\ hist' = SubSeq(hist, 1, flushed) /\ up' = 0
        /\ UNCHANGED <<head, confirmed, ack>>
    BY <1>10 DEF ServerCrash
  <2>2. Len(hist') = flushed /\ \A k \in 1 .. flushed : hist'[k] = hist[k]
    BY <1>1, <2>1 DEF NatFacts, ProgressInv, TypeOK
  <2>3. \A k \in 1 .. flushed : k \in 1 .. Len(hist)
    BY <1>1 DEF NatFacts
  <2>4. \A k \in 1 .. Len(hist') : hist'[k] <= head'
    BY <1>0, <2>1, <2>2, <2>3
  <2>5. head' = head /\ confirmed' = confirmed /\ ack' = ack /\ ~(up' = 1)
    BY <2>1
  <2>6. QED
    BY <1>0, <2>4, <2>5 DEF DeliveryInv, NeverAhead, NeverPast
<1>11. CASE UNCHANGED vars
  BY <1>11 DEF vars, stream, DeliveryInv, NeverAhead, NeverPast
<1>12. QED
  BY <1>2, <1>3, <1>4, <1>5, <1>6, <1>7, <1>8, <1>9, <1>10, <1>11 DEF Next

-----------------------------------------------------------------------------
\* The initial states promise the initial states.
LEMMA InitImplements == Init => Promise!DeliveryInit
<1>1. (1 - 1) \div 2 = 0
  OBVIOUS
<1>2. Init => Again = FALSE
  BY Zenon DEF Init, Again
<1>3. QED
  BY <1>1, <1>2 DEF Init, Promise!DeliveryInit, LastReleased, SlotStart

\* Arithmetic: the half of a position is the last commit before it.
LEMMA HalfPosition ==
  ASSUME NEW n \in Nat, n # 0
  PROVE  (n - 1) \div 2 \in Nat /\ \A i \in 1 .. (n - 1) \div 2 : CommitLsn(i) < n
BY DEF CommitLsn

\* Arithmetic: a position not past a commit has not released its transaction.
LEMMA NotReleased ==
  ASSUME NEW n \in Nat, NEW i \in Nat, i # 0, n <= CommitLsn(i)
  PROVE  (n - 1) \div 2 < i
BY DEF CommitLsn

\* While the last transaction is streamed again, it has not been released, and its
\* number is what the promise calls the last one applied.
LEMMA AgainFacts ==
  ASSUME ProgressInv, DeliveryInv, Again
  PROVE  /\ Promise!LastApplied = next /\ LastReleased < next
         /\ (ack - 1) \div 2 < next /\ up = 1
<1>1. NatFacts /\ EntryFacts
  BY TypeOKFacts DEF ProgressInv
<1>2. up = 1 /\ hist # <<>> /\ next = hist[Len(hist)]
  BY Zenon DEF Again
<1>3. Promise!LastApplied = next
  BY <1>2, Zenon DEF Promise!LastApplied
<1>4. confirmed <= CommitLsn(next) /\ ack <= CommitLsn(next)
  BY <1>2, Zenon DEF DeliveryInv, NeverPast
<1>5. next \in Nat /\ next # 0 /\ confirmed \in Nat /\ ack \in Nat
  BY DEF ProgressInv, TypeOK
<1>6. QED
  BY <1>2, <1>3, <1>4, <1>5, NotReleased DEF LastReleased

\* A local commit of a transaction with rows delivers the next one, or repeats
\* the last after a resumption.
LEMMA CommitImplements ==
  ASSUME ProgressInv, DeliveryInv, HandleCommit
  PROVE  [Promise!DeliveryNext]_(Promise!dvars)
<1> USE ProgressAssumption
<1>1. NatFacts /\ EntryFacts
  BY TypeOKFacts DEF ProgressInv
<1>2. /\ up = 1 /\ phase # "idle" /\ next' = next + 1
      /\ UNCHANGED <<head, confirmed, flushed, up>>
  BY DEF HandleCommit
<1>3. LastReleased' = LastReleased
  BY <1>2 DEF LastReleased
<1>4. \A k \in 1 .. Len(hist) : hist[k] <= next
  BY <1>2 DEF ProgressInv, WorkerInv
<1>5. hist \in Seq(Txs) /\ next \in Nat /\ Len(hist) \in Nat /\ Txs \subseteq Nat
  BY <1>1 DEF ProgressInv, TypeOK, NatFacts
<1>6. CASE ~IsTransactionState
  <2>1. hist' = hist
    BY <1>6 DEF HandleCommit
  <2>2. Again' = FALSE
    <3>1. hist # <<>> => hist[Len(hist)] <= next /\ hist[Len(hist)] \in Nat
      <4>1. hist # <<>> => Len(hist) \in 1 .. Len(hist)
        BY <1>5
      <4>2. QED
        BY <1>1, <1>4, <4>1 DEF EntryFacts
    <3>2. hist # <<>> => hist[Len(hist)] # next + 1
      BY <1>5, <3>1
    <3>3. QED
      BY <1>2, <2>1, <3>2, Zenon DEF Again
  <2>3. Promise!Stop
    BY <1>2, <1>3, <2>1, <2>2, Zenon DEF Promise!Stop
  <2>4. QED
    BY <2>3, Zenon DEF Promise!DeliveryNext
<1>7. CASE IsTransactionState
  <2>1. hist' = Append(hist, next) /\ next \notin Empty
    BY <1>7 DEF HandleCommit, IsTransactionState
  <2>2. next <= head /\ head \in Nat
    BY <1>1, <1>2 DEF ProgressInv, TypeOK, NatFacts, WorkerInv
  <2>3. hist' # <<>> /\ hist'[Len(hist')] = next
    <3>1. next \in Txs
      BY <1>5, <2>2 DEF ProgressInv, TypeOK, Txs
    <3>2. QED
      BY <1>5, <2>1, <3>1
  <2>4. Again' = FALSE
    <3>1. next + 1 # next
      BY <1>5
    <3>2. QED
      BY <1>2, <2>3, <3>1, Zenon DEF Again
  <2>5. CASE Again
    <3>1. Promise!LastApplied = next /\ LastReleased < next
      BY <2>5, AgainFacts
    <3>2. Promise!Redeliver
      BY <1>2, <1>3, <2>1, <2>4, <2>5, <3>1, Zenon DEF Promise!Redeliver
    <3>3. QED
      BY <3>2, Zenon DEF Promise!DeliveryNext
  <2>6. CASE ~Again
    <3> DEFINE last == Promise!LastApplied
    <3>1. hist = <<>> => last = 0
      BY Zenon DEF Promise!LastApplied
    <3>2. hist # <<>> => last = hist[Len(hist)] /\ last # next
      BY <1>2, <2>6, Zenon DEF Promise!LastApplied, Again
    <3>3. \A k \in 1 .. Len(hist) : hist[k] <= last
      <4>1. SUFFICES ASSUME NEW k \in 1 .. Len(hist) PROVE hist[k] <= last
        OBVIOUS
      <4>2. hist # <<>> /\ Len(hist) \in 1 .. Len(hist) /\ k <= Len(hist)
        BY <1>5
      <4>3. QED
        BY <3>2, <4>2 DEF ProgressInv, AppliedInOrder
    <3>4. last \in Nat /\ last < next
      <4>1. CASE hist = <<>>
        BY <1>5, <3>1, <4>1 DEF ProgressInv, TypeOK
      <4>2. CASE hist # <<>>
        BY <1>1, <1>4, <1>5, <3>2, <4>2 DEF EntryFacts
      <4>3. QED
        BY <4>1, <4>2
    <3> HIDE DEF last
    <3>5. next \in last + 1 .. head
      BY <1>5, <2>2, <3>4
    <3>6. ASSUME NEW i \in last + 1 .. next - 1 PROVE i \in Empty
      <4>1. i \in Txs /\ i < next /\ last < i
        BY <1>5, <2>2, <3>4 DEF ProgressInv, TypeOK, Txs
      <4>2. SUFFICES ASSUME i \notin Empty PROVE FALSE
        OBVIOUS
      <4>3. PICK k \in 1 .. Len(hist) : hist[k] = i
        BY <1>2, <4>1, <4>2 DEF ProgressInv, StreamsWithoutGap
      <4>4. i <= last
        BY <3>3, <4>3
      <4>5. QED
        BY <3>4, <3>6, <4>1, <4>4
    <3>7. Promise!Deliver
      <4>1. Again = FALSE
        BY <2>6, Zenon DEF Again
      <4>2. head' = head /\ flushed' = flushed /\ LastReleased' = LastReleased /\ Again' = Again
        BY <1>2, <1>3, <2>4, <4>1, Zenon
      <4>3. \E i \in Promise!LastApplied + 1 .. head :
              /\ i \notin Empty
              /\ \A j \in Promise!LastApplied + 1 .. i - 1 : j \in Empty
              /\ hist' = Append(hist, i)
        BY <2>1, <3>5, <3>6 DEF last
      <4>4. QED
        BY <2>6, <4>2, <4>3, Zenon DEF Promise!Deliver
    <3>8. QED
      BY <3>7, Zenon DEF Promise!DeliveryNext
  <2>7. QED
    BY <2>5, <2>6
<1>8. QED
  BY <1>6, <1>7

\* The position the slot confirms releases only what is durable, and not what is being
\* streamed again.
LEMMA ConfirmImplements ==
  ASSUME ProgressInv, DeliveryInv, SlotConfirm
  PROVE  Promise!Release
<1> USE ProgressAssumption
<1>1. NatFacts /\ EntryFacts
  BY TypeOKFacts DEF ProgressInv
<1>2. /\ ack \in Nat /\ ack # 0 /\ confirmed' = ack
      /\ UNCHANGED <<head, hist, flushed, up, next>>
  BY <1>1 DEF SlotConfirm, InvalidXLogRecPtr, NatFacts, stream
<1>3. LastReleased' = (ack - 1) \div 2
  BY <1>2 DEF LastReleased
<1>4. LastReleased' \in Nat /\ \A i \in 1 .. LastReleased' : CommitLsn(i) < ack
  BY <1>2, <1>3, HalfPosition
<1>5. ASSUME NEW i \in 1 .. LastReleased', i \notin Empty
      PROVE  \E k \in 1 .. flushed : hist[k] = i
  <2>1. CommitLsn(i) < ack /\ i \in Nat /\ i # 0
    BY <1>4
  <2>2. ack <= CommitLsn(head + 1)
    BY Zenon DEF DeliveryInv, NeverAhead
  <2>3. i <= head
    BY <1>1, <1>2, <2>1, <2>2 DEF CommitLsn, NatFacts
  <2>4. i \in Txs
    BY <1>1, <2>1, <2>3 DEF ProgressInv, TypeOK, Txs
  <2>5. QED
    BY <1>5, <2>1, <2>4 DEF ProgressInv, ConfirmedIsDurable, DurableBefore
<1>6. Again' <=> Again
  BY <1>2, Zenon DEF Again
<1>7. Again => LastReleased' < Promise!LastApplied
  BY <1>3, AgainFacts
<1>8. QED
  BY <1>2, <1>4, <1>5, <1>6, <1>7, Zenon DEF Promise!Release

\* A worker that starts resumes the stream, at the last transaction committed
\* locally only if the provider has not released it.
LEMMA StartImplements ==
  ASSUME ProgressInv, DeliveryInv, ProgressInv', DeliveryInv', WorkerStart
  PROVE  [Promise!DeliveryNext]_(Promise!dvars)
<1>1. UNCHANGED <<head, confirmed, hist, flushed>> /\ up = 0
  BY DEF WorkerStart
<1>2. ~Again
  BY <1>1 DEF Again
<1>3. LastReleased' = LastReleased /\ Promise!LastApplied' = Promise!LastApplied
  BY <1>1, Zenon DEF LastReleased, Promise!LastApplied
<1>4. CASE Again'
  <2>1. (Promise!LastApplied = next /\ LastReleased < next)'
    <3>1. hist' # <<>> /\ next' = hist'[Len(hist')] /\ up' = 1
      BY <1>4, Zenon DEF Again
    <3>2. Promise!LastApplied' = next'
      BY <3>1, Zenon DEF Promise!LastApplied
    <3>3. confirmed' <= CommitLsn(next')
      BY <3>1, Zenon DEF DeliveryInv, NeverPast, CommitLsn
    <3>4. next' \in Nat /\ next' # 0 /\ confirmed' \in Nat
      BY ProgressAssumption DEF ProgressInv, TypeOK
    <3>5. (confirmed' - 1) \div 2 < next'
      BY <3>3, <3>4, NotReleased
    <3>6. QED
      BY <3>2, <3>5 DEF LastReleased
  <2>2. LastReleased < Promise!LastApplied
    BY <1>3, <2>1
  <2>3. Promise!Resume
    BY <1>1, <1>2, <1>3, <1>4, <2>2, Zenon DEF Promise!Resume
  <2>4. QED
    BY <2>3, Zenon DEF Promise!DeliveryNext
<1>5. CASE ~Again'
  <2>1. (Again' <=> Again)
    BY <1>2, <1>5
  <2>2. QED
    BY <1>1, <1>3, <2>1, Zenon DEF Promise!dvars
<1>6. QED
  BY <1>4, <1>5

\* A crash takes back what was not durable, and nothing else.
LEMMA CrashImplements ==
  ASSUME ProgressInv, ServerCrash
  PROVE  Promise!Crash
<1>1. hist' = SubSeq(hist, 1, flushed) /\ up' = 0 /\ UNCHANGED <<head, confirmed, flushed>>
  BY DEF ServerCrash
<1>2. Again' = FALSE
  <2>1. ~(up' = 1)
    BY <1>1
  <2>2. QED
    BY <2>1, Zenon DEF Again
<1>3. QED
  BY <1>1, <1>2, Zenon DEF Promise!Crash, LastReleased

\* Every step is a step of the promise, or invisible to it.
LEMMA StepImplements ==
  ProgressInv /\ DeliveryInv /\ ProgressInv' /\ DeliveryInv' /\ [Next]_vars
    => [Promise!DeliveryNext]_(Promise!dvars)
<1> SUFFICES ASSUME ProgressInv, DeliveryInv, ProgressInv', DeliveryInv', [Next]_vars
             PROVE  [Promise!DeliveryNext]_(Promise!dvars)
  OBVIOUS
<1>1. ASSUME UNCHANGED <<head, confirmed, hist, flushed, up, next>>
      PROVE  UNCHANGED Promise!dvars
  BY <1>1, Zenon DEF Promise!dvars, Again, LastReleased
<1>2. CASE ProviderCommit
  <2>1. head' = head + 1 /\ UNCHANGED <<confirmed, hist, flushed, up, next>>
    BY <1>2 DEF ProviderCommit, stream
  <2>2. Promise!Commit
    BY <2>1, Zenon DEF Promise!Commit, Again, LastReleased
  <2>3. QED
    BY <2>2, Zenon DEF Promise!DeliveryNext
<1>3. CASE WorkerStart
  BY <1>3, StartImplements
<1>4. CASE WorkerExit
  <2>1. up' = 0 /\ UNCHANGED <<head, confirmed, hist, flushed>>
    BY <1>4 DEF WorkerExit
  <2>2. Again' = FALSE
    <3>1. ~(up' = 1)
      BY <2>1
    <3>2. QED
      BY <3>1, Zenon DEF Again
  <2>3. Promise!Stop
    BY <2>1, <2>2, Zenon DEF Promise!Stop, LastReleased
  <2>4. QED
    BY <2>3, Zenon DEF Promise!DeliveryNext
<1>5. CASE \E lsn \in ChangeLsns : HandleBegin(lsn) \/ HandleRows(lsn)
  BY <1>1, <1>5 DEF HandleBegin, HandleRows
<1>6. CASE HandleCommit
  BY <1>6, CommitImplements
<1>7. CASE ConfirmWrites \/ \E endpos \in KeepaliveLsns, reply \in BOOLEAN : Keepalive(endpos, reply)
  BY <1>1, <1>7 DEF ConfirmWrites, Keepalive, stream
<1>8. CASE SlotConfirm
  BY <1>8, ConfirmImplements DEF Promise!DeliveryNext
<1>9. CASE LocalFlush
  <2>1. /\ flushed' \in flushed + 1 .. Len(hist)
        /\ UNCHANGED <<head, confirmed, hist, up, next>>
    BY <1>9 DEF LocalFlush, stream
  <2>2. Promise!Harden
    BY <2>1, Zenon DEF Promise!Harden, Again, LastReleased
  <2>3. QED
    BY <2>2, Zenon DEF Promise!DeliveryNext
<1>10. CASE ServerCrash
  BY <1>10, CrashImplements DEF Promise!DeliveryNext
<1>11. CASE UNCHANGED vars
  BY <1>1, <1>11 DEF vars, stream
<1>12. QED
  BY <1>2, <1>3, <1>4, <1>5, <1>6, <1>7, <1>8, <1>9, <1>10, <1>11 DEF Next

\* The apply worker's progress tracking, with its feedback, restarts and crashes,
\* delivers reliably, when workers start after the flush of their predecessor:
\* transactions are applied in order without a gap; only the last one is ever applied
\* again, once after a restart, and not when the provider has released it; a crash
\* takes back only what was not durable, and nothing is released that is not durable.
THEOREM DeliveryImplemented == RestartAfterFlush => (Spec => DeliversReliably)
<1> SUFFICES ASSUME RestartAfterFlush PROVE Spec => DeliversReliably
  OBVIOUS
<1>1. ProgressInv /\ [Next]_vars => ProgressInv'
  BY ProgressStep
<1>2. ProgressInv /\ DeliveryInv /\ [Next]_vars => DeliveryInv'
  BY DeliveryInvStep
<1>3. QED
  BY ProgressInit, <1>1, <1>2, DeliveryInvInit, InitImplements, StepImplements, PTL
     DEF Spec, DeliversReliably, Promise!DeliverySpec
=============================================================================
