------------------------ MODULE ApplyProgressProofs ------------------------
(***************************************************************************)
(* Proofs about the progress tracking of the apply worker, for any number  *)
(* of transactions and restarts, when a worker starts only after the local *)
(* commits of its predecessor have been flushed.                           *)
(***************************************************************************)
EXTENDS ApplyProgress, TLAPS

\* The inductive invariant.
ProgressInv ==
  /\ TypeOK
  /\ ConfirmedIsDurable
  /\ AppliedInOrder
  /\ StreamsWithoutGap
  /\ WorkerInv

\* The parts of the invariant other than the types.
ProgressSafe ==
  ConfirmedIsDurable /\ AppliedInOrder /\ StreamsWithoutGap /\ WorkerInv

\* Arithmetic: an LSN is never negative.
LEMMA DoubleNat ==
  ASSUME NEW n \in Nat
  PROVE  0 <= 2 * n
OBVIOUS

\* Arithmetic: what is not flushed later was not flushed before.
LEMMA LaterRange ==
  ASSUME NEW a \in Nat, NEW b \in Nat, NEW n \in Nat, a < b
  PROVE  \A k \in b + 1 .. n : k \in a + 1 .. n
OBVIOUS

\* Arithmetic: what was flushed before is flushed later.
LEMMA EarlierRange ==
  ASSUME NEW a \in Nat, NEW b \in Nat, a < b
  PROVE  \A k \in 1 .. a : k \in 1 .. b
OBVIOUS

\* Arithmetic: commit LSNs are ordered like the transactions.
LEMMA DoubleOrder ==
  ASSUME NEW x \in Nat, NEW y \in Nat, NEW z \in Nat, 2 * x <= z, z <= 2 * y
  PROVE  x <= y
OBVIOUS

\* Arithmetic: a transaction that commits before another ends is not later.
LEMMA CommitBeforeEnd ==
  ASSUME NEW x \in Nat, NEW y \in Nat, CommitLsn(x) < EndLsn(y)
  PROVE  x <= y
BY DEF CommitLsn, EndLsn

\* Arithmetic: what is before the first transaction at or after a position
\* commits before the position.
LEMMA CommitsBefore ==
  ASSUME NEW x \in Nat, NEW y \in Nat, NEW z \in Nat,
         x < y, CommitLsn(y - 1) < z
  PROVE  CommitLsn(x) < z
BY DEF CommitLsn

\* Arithmetic: commit records follow one another.
LEMMA CommitLsnGrows ==
  ASSUME NEW x \in Nat, NEW y \in Nat, x <= CommitLsn(y)
  PROVE  x <= CommitLsn(y + 1)
BY DEF CommitLsn

\* Arithmetic: a transaction ends before the next one commits.
LEMMA EndBeforeNext ==
  ASSUME NEW y \in Nat
  PROVE  EndLsn(y) \in Nat /\ EndLsn(y) <= CommitLsn(y + 1)
BY DEF CommitLsn, EndLsn

\* In the initial state nothing is confirmed beyond the slot's start.
LEMMA ProgressInit == Init => ProgressInv
BY ProgressAssumption
   DEF Init, ProgressInv, TypeOK, ConfirmedIsDurable, AppliedInOrder,
       StreamsWithoutGap, WorkerInv, DurableBefore, Invalid, Txs, CommitLsn,
       SlotStart, InvalidXLogRecPtr

\* The consequences of the type invariant that the proofs below use: the numbers
\* are naturals,
NatFacts ==
  /\ Txs \subseteq Nat
  /\ Len(hist) \in Nat
  /\ flushed \in Nat /\ flushed <= Len(hist)
  /\ Len(lsn_mapping) \in Nat
  /\ head \in Nat /\ next \in Nat /\ last_received \in Nat
  /\ confirmed \in Nat /\ ack \in Nat
  /\ last_pos.recv \in Nat /\ last_pos.write \in Nat /\ last_pos.flush \in Nat

\* and the two sequences have well-formed entries.
EntryFacts ==
  /\ \A k \in 1 .. Len(hist) : hist[k] \in Txs /\ hist[k] \in Nat
  /\ \A j \in 1 .. Len(lsn_mapping) :
       /\ lsn_mapping[j] \in FlushPosition
       /\ lsn_mapping[j].local_end \in Nat
       /\ lsn_mapping[j].remote_end \in Nat

\* They follow from the type invariant.
LEMMA TypeOKFacts == TypeOK => NatFacts /\ EntryFacts
<1> SUFFICES ASSUME TypeOK PROVE NatFacts /\ EntryFacts
  OBVIOUS
<1> USE ProgressAssumption
<1>1. Txs \subseteq Nat
  BY DEF Txs
<1>2. /\ Len(hist) \in Nat
      /\ \A k \in 1 .. Len(hist) : hist[k] \in Txs
  BY DEF TypeOK
<1>3. Len(lsn_mapping) \in Nat
  BY DEF TypeOK
<1>4. ASSUME NEW j \in 1 .. Len(lsn_mapping)
      PROVE  /\ lsn_mapping[j] \in FlushPosition
             /\ lsn_mapping[j].local_end \in Nat
             /\ lsn_mapping[j].remote_end \in Nat
  <2>1. lsn_mapping[j] \in FlushPosition
    BY DEF TypeOK
  <2>2. QED
    BY <2>1 DEF FlushPosition
<1>5. flushed \in Nat /\ flushed <= Len(hist)
  BY <1>2 DEF TypeOK
<1>6. last_pos.recv \in Nat /\ last_pos.write \in Nat /\ last_pos.flush \in Nat
  BY DEF TypeOK
<1>7. /\ head \in Nat /\ next \in Nat /\ last_received \in Nat
      /\ confirmed \in Nat /\ ack \in Nat
  BY DEF TypeOK
<1>8. QED
  BY <1>1, <1>2, <1>3, <1>4, <1>5, <1>6, <1>7 DEF NatFacts, EntryFacts

\* What send_feedback reports as flushed is on local disk, and what it leaves
\* in lsn_mapping still covers every local commit that is not.
LEMMA FeedbackSafe ==
  ASSUME ProgressInv, up = 1, NEW at \in Nat, at <= CommitLsn(next),
         NEW force \in BOOLEAN, SendFeedback(at, force),
         UNCHANGED <<head, confirmed, hist, flushed, stream, restarts>>
  PROVE  TypeOK' /\ ProgressSafe'
<1> USE ProgressAssumption
<1>1. PICK n \in 0 .. Len(lsn_mapping) :
        /\ FlushedPrefix(n)
        /\ lsn_mapping' = SubSeq(lsn_mapping, n + 1, Len(lsn_mapping))
        /\ \/ /\ last_pos' = [recv  |-> RecvPos(at),
                               write |-> WritePos(at, n),
                               flush |-> FlushPos(at, n)]
              /\ ack' = FlushPos(at, n)
           \/ UNCHANGED <<last_pos, ack>>
  BY DEF SendFeedback
<1>3. NatFacts /\ EntryFacts
  BY TypeOKFacts DEF ProgressInv
<1> USE DEF NatFacts, EntryFacts
<1>4. /\ n \in Nat /\ n <= Len(lsn_mapping)
      /\ \A j \in 1 .. n : lsn_mapping[j].local_end <= flushed
  BY <1>1, <1>3 DEF FlushedPrefix
<1>5. /\ \A k \in flushed + 1 .. Len(hist) :
           \E j \in 1 .. Len(lsn_mapping) : lsn_mapping[j].local_end = k
      /\ \A j \in 1 .. Len(lsn_mapping) :
           /\ lsn_mapping[j].local_end \in 1 .. Len(hist)
           /\ lsn_mapping[j].remote_end = EndLsn(hist[lsn_mapping[j].local_end])
  BY DEF ProgressInv, WorkerInv
<1>6. RecvPos(at) \in Nat /\ RecvPos(at) <= CommitLsn(next)
  BY <1>3 DEF RecvPos, Later, ProgressInv, WorkerInv, CommitLsn
<1>7. DurableBefore(FoundFlush(at, n)) /\ FoundFlush(at, n) \in Nat
  <2>1. CASE n = Len(lsn_mapping)
    <3>1. Len(hist) \notin flushed + 1 .. Len(hist)
      <4>1. SUFFICES ASSUME Len(hist) \in flushed + 1 .. Len(hist) PROVE FALSE
        OBVIOUS
      <4>2. PICK j \in 1 .. Len(lsn_mapping) : lsn_mapping[j].local_end = Len(hist)
        BY <4>1, <1>5
      <4>3. QED
        BY <2>1, <4>1, <4>2, <1>3, <1>4
    <3>2. flushed = Len(hist)
      BY <3>1, <1>3
    <3>3. ASSUME NEW i \in Txs, i \notin Empty, CommitLsn(i) < RecvPos(at)
          PROVE  \E k \in 1 .. flushed : hist[k] = i
      <4>1. i < next
        BY <3>3, <1>3, <1>6 DEF CommitLsn
      <4>2. QED
        BY <3>2, <3>3, <4>1 DEF ProgressInv, StreamsWithoutGap
    <3>4. QED
      BY <2>1, <3>3, <1>6 DEF FoundFlush, DurableBefore
  <2>2. CASE n # Len(lsn_mapping) /\ n = 0
    BY <2>2, <1>3 DEF FoundFlush, DurableBefore, InvalidXLogRecPtr, CommitLsn
  <2>3. CASE n # Len(lsn_mapping) /\ n # 0
    <3>1. n \in 1 .. Len(lsn_mapping) /\ FoundFlush(at, n) = lsn_mapping[n].remote_end
      BY <2>3, <1>3, <1>4 DEF FoundFlush
    <3>2. n \in 1 .. n
      BY <3>1
    <3> DEFINE k == lsn_mapping[n].local_end
    <3>3. k \in 1 .. Len(hist) /\ k <= flushed /\ FoundFlush(at, n) = EndLsn(hist[k])
      BY <3>1, <3>2, <1>4, <1>5
    <3> HIDE DEF k
    <3>4. ASSUME NEW i \in Txs, i \notin Empty, CommitLsn(i) < EndLsn(hist[k])
          PROVE  \E m \in 1 .. flushed : hist[m] = i
      <4>1. i <= hist[k]
        <5>1. i \in Nat /\ hist[k] \in Nat
          BY <3>3, <1>3
        <5>2. QED
          BY <3>4, <5>1, CommitBeforeEnd
      <4>2. PICK m \in 1 .. k : hist[m] = i
        BY <3>3, <3>4, <4>1 DEF ProgressInv, AppliedInOrder
      <4>3. m \in 1 .. flushed
        BY <3>3, <1>3
      <4>4. QED
        BY <4>2, <4>3
    <3>5. QED
      BY <3>1, <3>3, <3>4, <1>3 DEF DurableBefore
  <2>4. QED
    BY <2>1, <2>2, <2>3
<1>8. DurableBefore(FlushPos(at, n)) /\ FlushPos(at, n) \in Nat
  BY <1>3, <1>7 DEF FlushPos, Later, ProgressInv, WorkerInv
<1>9. WritePos(at, n) \in Nat
  <2>1. FoundWrite(at, n) \in Nat
    <3>1. CASE n = Len(lsn_mapping)
      BY <3>1, <1>6 DEF FoundWrite
    <3>2. CASE n # Len(lsn_mapping)
      BY <3>2, <1>3, <1>4 DEF FoundWrite
    <3>3. QED
      BY <3>1, <3>2
  <2>2. QED
    BY <2>1, <1>3 DEF WritePos, Later
<1>10. /\ last_pos' \in [recv : Nat, write : Nat, flush : Nat]
      /\ last_pos'.recv <= CommitLsn(next)
      /\ DurableBefore(last_pos.flush)'
      /\ ack' \in Nat /\ DurableBefore(ack)'
  <2>1. CASE UNCHANGED <<last_pos, ack>>
    BY <2>1, <1>3 DEF ProgressInv, TypeOK, WorkerInv, ConfirmedIsDurable, DurableBefore
  <2>2. CASE /\ last_pos' = [recv  |-> RecvPos(at),
                         write |-> WritePos(at, n),
                         flush |-> FlushPos(at, n)]
             /\ ack' = FlushPos(at, n)
    BY <2>2, <1>3, <1>6, <1>8, <1>9 DEF DurableBefore
  <2>3. QED
    BY <1>1, <2>1, <2>2
<1>11. /\ lsn_mapping' \in Seq(FlushPosition)
      /\ Len(lsn_mapping') = Len(lsn_mapping) - n
      /\ \A j \in 1 .. Len(lsn_mapping') : lsn_mapping'[j] = lsn_mapping[n + j]
  <2>1. \A j \in n + 1 .. Len(lsn_mapping) : lsn_mapping[j] \in FlushPosition
    BY <1>3
  <2>2. /\ SubSeq(lsn_mapping, n + 1, Len(lsn_mapping)) \in Seq(FlushPosition)
        /\ Len(SubSeq(lsn_mapping, n + 1, Len(lsn_mapping)))
             = IF n + 1 <= Len(lsn_mapping) THEN Len(lsn_mapping) - (n + 1) + 1 ELSE 0
        /\ \A j \in 1 .. Len(lsn_mapping) - (n + 1) + 1 :
             SubSeq(lsn_mapping, n + 1, Len(lsn_mapping))[j] = lsn_mapping[n + 1 + j - 1]
    <3> HIDE DEF NatFacts, EntryFacts
    <3>1. n + 1 \in Int /\ Len(lsn_mapping) \in Int
      BY <1>3 DEF NatFacts
    <3>2. QED
      BY <2>1, <3>1
  <2>3. n + 1 \in Nat /\ \A j \in Nat : n + 1 + j - 1 = n + j
    OBVIOUS
  <2>4. QED
    BY <1>1, <1>3, <2>2, <2>3
<1>12. TypeOK'
  BY <1>10, <1>11 DEF ProgressInv, TypeOK, stream
<1>13. ConfirmedIsDurable'
  BY <1>10 DEF ProgressInv, ConfirmedIsDurable, DurableBefore
<1>14. AppliedInOrder' /\ StreamsWithoutGap'
  BY DEF ProgressInv, AppliedInOrder, StreamsWithoutGap, stream
<1>15. \A k \in flushed + 1 .. Len(hist) :
         \E j \in 1 .. Len(lsn_mapping') : lsn_mapping'[j].local_end = k
  <2> SUFFICES ASSUME NEW k \in flushed + 1 .. Len(hist)
               PROVE  \E j \in 1 .. Len(lsn_mapping') : lsn_mapping'[j].local_end = k
    OBVIOUS
  <2>1. PICK j \in 1 .. Len(lsn_mapping) : lsn_mapping[j].local_end = k
    BY <1>5
  <2>2. j > n
    BY <2>1, <1>3, <1>4
  <2>3. j - n \in 1 .. Len(lsn_mapping') /\ n + (j - n) = j
    BY <2>2, <1>3, <1>11
  <2>4. QED
    BY <2>1, <2>3, <1>11
<1>16. \A j \in 1 .. Len(lsn_mapping') :
         /\ lsn_mapping'[j].local_end \in 1 .. Len(hist)
         /\ lsn_mapping'[j].remote_end = EndLsn(hist[lsn_mapping'[j].local_end])
  <2> SUFFICES ASSUME NEW j \in 1 .. Len(lsn_mapping')
               PROVE  /\ lsn_mapping'[j].local_end \in 1 .. Len(hist)
                      /\ lsn_mapping'[j].remote_end
                           = EndLsn(hist[lsn_mapping'[j].local_end])
    OBVIOUS
  <2>1. n + j \in 1 .. Len(lsn_mapping) /\ lsn_mapping'[j] = lsn_mapping[n + j]
    BY <1>3, <1>11
  <2>2. QED
    BY <2>1, <1>5
<1>17. WorkerInv'
  BY <1>10, <1>15, <1>16 DEF ProgressInv, WorkerInv, stream, DurableBefore
<1>18. QED
  BY <1>12, <1>13, <1>14, <1>17 DEF ProgressSafe

\* handle_commit: the new local commit is the next transaction in order, and
\* its entry in lsn_mapping covers it until it is flushed.
LEMMA CommitSafe ==
  ASSUME ProgressInv, HandleCommit
  PROVE  TypeOK' /\ ProgressSafe'
<1> USE ProgressAssumption
<1>1. NatFacts /\ EntryFacts
  BY TypeOKFacts DEF ProgressInv
<1>2. /\ up = 1 /\ up' = 1 /\ phase # "idle" /\ phase' = "idle"
      /\ next' = next + 1
      /\ last_received' = Later(last_received, EndLsn(next))
      /\ UNCHANGED <<head, confirmed, ack, flushed, last_pos, restarts>>
  BY DEF HandleCommit
<1>3. next <= head /\ next \in Txs
  BY <1>2, <1>1 DEF ProgressInv, WorkerInv, TypeOK, Txs, NatFacts
<1>4. last_received' \in Nat /\ last_received' <= CommitLsn(next')
  <2>1. last_received <= CommitLsn(next)
    BY <1>2 DEF ProgressInv, WorkerInv
  <2>2. last_received \in Nat /\ next \in Nat
    BY <1>1 DEF NatFacts
  <2>3. last_received <= CommitLsn(next + 1)
    BY <2>1, <2>2, CommitLsnGrows
  <2>4. EndLsn(next) \in Nat /\ EndLsn(next) <= CommitLsn(next + 1)
    BY <2>2, EndBeforeNext
  <2>5. QED
    BY <1>2, <2>2, <2>3, <2>4 DEF Later
<1>5. last_pos'.recv <= CommitLsn(next')
  <2>1. last_pos.recv <= CommitLsn(next)
    BY <1>2 DEF ProgressInv, WorkerInv
  <2>2. last_pos.recv \in Nat /\ next \in Nat
    BY <1>1 DEF NatFacts
  <2>3. QED
    BY <1>2, <2>1, <2>2, CommitLsnGrows
<1>6. CASE ~IsTransactionState
  <2>1. UNCHANGED <<hist, lsn_mapping>> /\ next \in Empty
    BY <1>6 DEF HandleCommit, IsTransactionState
  <2>2. TypeOK'
    BY <1>2, <1>3, <1>4, <2>1 DEF ProgressInv, TypeOK, Txs
  <2>3. ConfirmedIsDurable' /\ AppliedInOrder' /\ DurableBefore(last_pos.flush)'
    BY <1>2, <2>1 DEF ProgressInv, ConfirmedIsDurable, AppliedInOrder,
                      DurableBefore, WorkerInv
  <2>4. StreamsWithoutGap'
    <3> SUFFICES ASSUME NEW i \in Txs, i < next', i \notin Empty
                 PROVE  \E k \in 1 .. Len(hist) : hist[k] = i
      BY <2>1 DEF StreamsWithoutGap
    <3>1. i < next
      BY <1>1, <1>2, <2>1 DEF NatFacts
    <3>2. QED
      BY <3>1, <1>2 DEF ProgressInv, StreamsWithoutGap
  <2>5. WorkerInv'
    <3>1. \A k \in 1 .. Len(hist) : hist[k] <= next
      BY <1>2 DEF ProgressInv, WorkerInv
    <3>2. \A k \in 1 .. Len(hist') : hist'[k] <= next'
      BY <3>1, <1>1, <1>2, <2>1 DEF NatFacts, EntryFacts
    <3>3. QED
      BY <3>2, <1>2, <1>4, <1>5, <2>1, <2>3 DEF ProgressInv, WorkerInv
  <2>6. QED
    BY <2>2, <2>3, <2>4, <2>5 DEF ProgressSafe
<1>7. CASE IsTransactionState
  <2> DEFINE at == [local_end |-> Len(hist) + 1, remote_end |-> EndLsn(next)]
  <2>1. hist' = Append(hist, next) /\ lsn_mapping' = Append(lsn_mapping, at)
    BY <1>7 DEF HandleCommit
  <2>2. at \in FlushPosition /\ at.local_end = Len(hist) + 1
        /\ at.remote_end = EndLsn(next)
    BY <1>1 DEF NatFacts, FlushPosition, EndLsn
  <2> HIDE DEF at
  <2>3. /\ hist' \in Seq(Txs)
        /\ Len(hist') = Len(hist) + 1
        /\ \A k \in 1 .. Len(hist) : hist'[k] = hist[k]
        /\ hist'[Len(hist) + 1] = next
    BY <2>1, <1>3 DEF ProgressInv, TypeOK
  <2>4. /\ lsn_mapping' \in Seq(FlushPosition)
        /\ Len(lsn_mapping') = Len(lsn_mapping) + 1
        /\ \A j \in 1 .. Len(lsn_mapping) : lsn_mapping'[j] = lsn_mapping[j]
        /\ lsn_mapping'[Len(lsn_mapping) + 1] = at
    BY <2>1, <2>2 DEF ProgressInv, TypeOK
  <2>5. TypeOK'
    BY <1>1, <1>2, <1>3, <1>4, <2>3, <2>4 DEF NatFacts, ProgressInv, TypeOK, Txs
  <2>6. \A k \in 1 .. flushed : hist'[k] = hist[k]
    BY <1>1, <2>3 DEF NatFacts
  <2>7. ConfirmedIsDurable' /\ DurableBefore(last_pos.flush)'
    BY <1>2, <2>6 DEF ProgressInv, ConfirmedIsDurable, DurableBefore, WorkerInv
  <2>8. ASSUME NEW i \in Txs, i \notin Empty, i <= next
        PROVE  \E m \in 1 .. Len(hist) + 1 : hist'[m] = i
    <3>1. CASE i = next
      <4>1. Len(hist) + 1 \in 1 .. Len(hist) + 1
        BY <1>1 DEF NatFacts
      <4>2. QED
        BY <3>1, <4>1, <2>3
    <3>2. CASE i < next
      <4>1. PICK m \in 1 .. Len(hist) : hist[m] = i
        BY <2>8, <3>2, <1>2 DEF ProgressInv, StreamsWithoutGap
      <4>2. m \in 1 .. Len(hist) + 1
        BY <1>1 DEF NatFacts
      <4>3. QED
        BY <4>1, <4>2, <2>3
    <3>3. QED
      BY <3>1, <3>2, <2>8, <1>1 DEF NatFacts
  <2>9. ASSUME NEW k \in 1 .. Len(hist'), NEW m \in 1 .. Len(hist'), k <= m
        PROVE  hist'[k] <= hist'[m]
    <3>1. CASE m = Len(hist) + 1
      <4>1. CASE k = m
        BY <3>1, <4>1, <1>1, <2>3 DEF NatFacts
      <4>2. CASE k # m
        <5>1. k \in 1 .. Len(hist)
          BY <3>1, <4>2, <2>9, <2>3, <1>1 DEF NatFacts
        <5>2. QED
          BY <5>1, <3>1, <1>2, <2>3 DEF ProgressInv, WorkerInv
      <4>3. QED
        BY <4>1, <4>2
    <3>2. CASE m # Len(hist) + 1
      <4>1. k \in 1 .. Len(hist) /\ m \in 1 .. Len(hist)
        BY <3>2, <2>3, <2>9, <1>1 DEF NatFacts
      <4>2. QED
        BY <4>1, <2>3, <2>9 DEF ProgressInv, AppliedInOrder
    <3>3. QED
      BY <3>1, <3>2
  <2>10. ASSUME NEW k \in 1 .. Len(hist'), NEW i \in Txs,
                i \notin Empty, i <= hist'[k]
         PROVE  \E m \in 1 .. k : hist'[m] = i
    <3>1. CASE k = Len(hist) + 1
      BY <3>1, <2>3, <2>8, <2>10
    <3>2. CASE k # Len(hist) + 1
      <4>1. k \in 1 .. Len(hist)
        BY <3>2, <2>3, <1>1 DEF NatFacts
      <4>2. PICK m \in 1 .. k : hist[m] = i
        BY <4>1, <2>3, <2>10 DEF ProgressInv, AppliedInOrder
      <4>3. m \in 1 .. Len(hist)
        BY <4>1, <1>1 DEF NatFacts
      <4>4. QED
        BY <4>2, <4>3, <2>3
    <3>3. QED
      BY <3>1, <3>2
  <2>11. AppliedInOrder'
    BY <2>9, <2>10 DEF AppliedInOrder
  <2>12. StreamsWithoutGap'
    <3> SUFFICES ASSUME NEW i \in Txs, i < next', i \notin Empty
                 PROVE  \E k \in 1 .. Len(hist') : hist'[k] = i
      BY DEF StreamsWithoutGap
    <3>1. i <= next
      BY <1>1, <1>2 DEF NatFacts
    <3>2. QED
      BY <3>1, <2>3, <2>8
  <2>13. \A k \in 1 .. Len(hist') : hist'[k] <= next'
    <3> SUFFICES ASSUME NEW k \in 1 .. Len(hist) + 1 PROVE hist'[k] <= next + 1
      BY <1>2, <2>3
    <3>1. CASE k = Len(hist) + 1
      BY <3>1, <1>1, <2>3 DEF NatFacts
    <3>2. CASE k # Len(hist) + 1
      <4>0. Len(hist) \in Nat
        BY <1>1 DEF NatFacts
      <4>1. k \in 1 .. Len(hist)
        BY <3>2, <4>0
      <4>2. hist[k] <= next
        BY <4>1, <1>2 DEF ProgressInv, WorkerInv
      <4>3. QED
        BY <4>1, <4>2, <1>1, <2>3 DEF NatFacts, EntryFacts
    <3>3. QED
      BY <3>1, <3>2
  <2>14. ASSUME NEW k \in flushed + 1 .. Len(hist')
         PROVE  \E j \in 1 .. Len(lsn_mapping') : lsn_mapping'[j].local_end = k
    <3>1. CASE k = Len(hist) + 1
      <4>1. Len(lsn_mapping) + 1 \in 1 .. Len(lsn_mapping')
        BY <1>1, <2>4 DEF NatFacts
      <4>2. QED
        BY <3>1, <4>1, <2>2, <2>4
    <3>2. CASE k # Len(hist) + 1
      <4>1. k \in flushed + 1 .. Len(hist)
        BY <3>2, <1>1, <2>3 DEF NatFacts
      <4>2. PICK j \in 1 .. Len(lsn_mapping) : lsn_mapping[j].local_end = k
        BY <4>1, <1>2 DEF ProgressInv, WorkerInv
      <4>3. j \in 1 .. Len(lsn_mapping')
        BY <1>1, <2>4 DEF NatFacts
      <4>4. QED
        BY <4>2, <4>3, <2>4
    <3>3. QED
      BY <3>1, <3>2
  <2>15. ASSUME NEW j \in 1 .. Len(lsn_mapping')
         PROVE  /\ lsn_mapping'[j].local_end \in 1 .. Len(hist')
                /\ lsn_mapping'[j].remote_end
                     = EndLsn(hist'[lsn_mapping'[j].local_end])
    <3>1. CASE j = Len(lsn_mapping) + 1
      BY <3>1, <1>1, <2>2, <2>3, <2>4 DEF NatFacts
    <3>2. CASE j # Len(lsn_mapping) + 1
      <4>1. j \in 1 .. Len(lsn_mapping)
        BY <3>2, <1>1, <2>4 DEF NatFacts
      <4>2. /\ lsn_mapping[j].local_end \in 1 .. Len(hist)
            /\ lsn_mapping[j].remote_end = EndLsn(hist[lsn_mapping[j].local_end])
        BY <4>1, <1>2 DEF ProgressInv, WorkerInv
      <4>3. lsn_mapping'[j] = lsn_mapping[j]
        BY <4>1, <2>4
      <4>4. hist'[lsn_mapping[j].local_end] = hist[lsn_mapping[j].local_end]
        BY <4>2, <2>3
      <4>5. 1 .. Len(hist) \subseteq 1 .. Len(hist')
        BY <1>1, <2>3 DEF NatFacts
      <4>6. QED
        BY <4>2, <4>3, <4>4, <4>5
    <3>3. QED
      BY <3>1, <3>2
  <2>16. WorkerInv'
    BY <1>2, <1>4, <1>5, <2>7, <2>13, <2>14, <2>15 DEF WorkerInv
  <2>17. QED
    BY <2>5, <2>7, <2>11, <2>12, <2>16 DEF ProgressSafe
<1>8. QED
  BY <1>6, <1>7

\* A new worker resumes where nothing is missing before it.
LEMMA StartSafe ==
  ASSUME ProgressInv, RestartAfterFlush, WorkerStart
  PROVE  TypeOK' /\ ProgressSafe'
<1> USE ProgressAssumption
<1>1. NatFacts /\ EntryFacts
  BY TypeOKFacts DEF ProgressInv
<1> DEFINE start == Later(OriginProgress, confirmed)
<1>2. /\ flushed = Len(hist)
      /\ next' \in 1 .. MaxTx + 1
      /\ CommitLsn(next') >= start /\ CommitLsn(next' - 1) < start
      /\ up' = 1 /\ phase' = "idle" /\ last_received' = 0 /\ lsn_mapping' = <<>>
      /\ last_pos' = Invalid /\ ack' = 0
      /\ UNCHANGED <<head, confirmed, hist, flushed, restarts>>
  BY DEF WorkerStart, IsFirstAfter, InvalidXLogRecPtr
<1>3. last_pos' = [recv |-> 0, write |-> 0, flush |-> 0]
  BY <1>2 DEF Invalid, InvalidXLogRecPtr
<1>4. TypeOK'
  <2>1. lsn_mapping' \in Seq(FlushPosition)
    BY <1>2
  <2>2. last_pos' \in [recv : Nat, write : Nat, flush : Nat]
    BY <1>3
  <2>3. QED
    BY <1>2, <2>1, <2>2 DEF ProgressInv, TypeOK
<1>5. ConfirmedIsDurable' /\ DurableBefore(last_pos.flush)'
  BY <1>1, <1>2, <1>3 DEF NatFacts, ProgressInv, ConfirmedIsDurable,
                          DurableBefore, CommitLsn
<1>6. AppliedInOrder'
  BY <1>2 DEF ProgressInv, AppliedInOrder
<1>7. \/ start = confirmed
      \/ hist = <<>> /\ start = SlotStart
      \/ hist # <<>> /\ start = CommitLsn(hist[Len(hist)])
  BY DEF Later, OriginProgress
<1>8. start \in Nat /\ OriginProgress <= start
  <2>1. OriginProgress \in Nat
    <3>1. CASE hist = <<>>
      BY <3>1 DEF OriginProgress, SlotStart
    <3>2. CASE hist # <<>>
      <4>1. Len(hist) \in 1 .. Len(hist)
        BY <3>2, <1>1 DEF NatFacts, ProgressInv, TypeOK
      <4>2. QED
        BY <3>2, <4>1, <1>1 DEF NatFacts, EntryFacts, OriginProgress, CommitLsn
    <3>3. QED
      BY <3>1, <3>2
  <2>2. QED
    BY <2>1, <1>1 DEF NatFacts, Later
<1> HIDE DEF start
<1>9. ASSUME NEW i \in Txs, i < next', i \notin Empty
      PROVE  \E k \in 1 .. Len(hist) : hist[k] = i
  <2>1. CommitLsn(i) < start
    <3>1. i \in Nat /\ next' \in Nat
      BY <1>1, <1>2 DEF NatFacts
    <3>2. QED
      BY <1>2, <1>8, <1>9, <3>1, CommitsBefore
  <2>2. CASE start = confirmed
    BY <2>1, <2>2, <1>2, <1>9 DEF ProgressInv, ConfirmedIsDurable, DurableBefore
  <2>3. CASE hist = <<>> /\ start = SlotStart
    BY <2>1, <2>3, <1>1 DEF SlotStart, CommitLsn, Txs
  <2>4. CASE hist # <<>> /\ start = CommitLsn(hist[Len(hist)])
    <3>1. Len(hist) \in 1 .. Len(hist)
      BY <2>4, <1>1 DEF NatFacts, ProgressInv, TypeOK
    <3>2. i <= hist[Len(hist)]
      BY <2>1, <2>4, <3>1, <1>1 DEF NatFacts, EntryFacts, CommitLsn
    <3>3. QED
      BY <3>1, <3>2, <1>9 DEF ProgressInv, AppliedInOrder
  <2>5. QED
    BY <1>7, <2>2, <2>3, <2>4
<1>10. StreamsWithoutGap'
  BY <1>2, <1>9 DEF StreamsWithoutGap
<1>11. ASSUME NEW k \in 1 .. Len(hist)
       PROVE  hist[k] <= next'
  <2>1. Len(hist) \in 1 .. Len(hist) /\ k <= Len(hist)
    BY <1>1 DEF NatFacts
  <2>2. hist # <<>>
    BY <2>1
  <2>3. OriginProgress = CommitLsn(hist[Len(hist)])
    BY <2>2 DEF OriginProgress
  <2>4. hist[k] <= hist[Len(hist)]
    BY <2>1 DEF ProgressInv, AppliedInOrder
  <2>5. QED
    <3>1. hist[k] \in Nat /\ hist[Len(hist)] \in Nat /\ next' \in Nat
      BY <2>1, <1>1, <1>2 DEF NatFacts, EntryFacts
    <3>2. start \in Nat /\ 2 * hist[Len(hist)] <= start
      BY <2>3, <1>8 DEF CommitLsn
    <3>3. start <= 2 * next'
      BY <3>1, <3>2, <1>2 DEF CommitLsn
    <3>4. hist[Len(hist)] <= next'
      BY <3>1, <3>2, <3>3, DoubleOrder
    <3>5. QED
      BY <2>4, <3>1, <3>4
<1>12. WorkerInv'
  <2>1. Len(lsn_mapping') = 0
    BY <1>2
  <2>2. last_received' <= CommitLsn(next') /\ last_pos'.recv <= CommitLsn(next')
    <3>1. next' \in Nat /\ last_received' = 0 /\ last_pos'.recv = 0
      BY <1>2, <1>3
    <3>2. CommitLsn(next') = 2 * next'
      BY DEF CommitLsn
    <3>3. 0 <= 2 * next'
      BY <3>1, DoubleNat
    <3>4. QED
      BY <3>1, <3>2, <3>3
  <2>3. QED
    <3>1. \A k \in flushed + 1 .. Len(hist) : FALSE
      BY <1>1, <1>2 DEF NatFacts
    <3>2. \A j \in 1 .. Len(lsn_mapping') : FALSE
      BY <2>1
    <3>3. QED
      BY <1>2, <1>5, <1>11, <2>2, <3>1, <3>2 DEF WorkerInv
<1>13. QED
  BY <1>4, <1>5, <1>6, <1>10, <1>12 DEF ProgressSafe

\* After a crash of the server the surviving local commits are those that had
\* been flushed, in order.
LEMMA CrashSafe ==
  ASSUME ProgressInv, ServerCrash
  PROVE  TypeOK' /\ ProgressSafe'
<1> USE ProgressAssumption
<1>1. NatFacts /\ EntryFacts
  BY TypeOKFacts DEF ProgressInv
<1>2. /\ hist' = SubSeq(hist, 1, flushed) /\ up' = 0
      /\ restarts < MaxRestarts /\ restarts' = restarts + 1
      /\ UNCHANGED <<head, confirmed, ack, flushed, next, phase, last_received,
                     lsn_mapping, last_pos>>
  BY DEF ServerCrash
<1>3. /\ hist' \in Seq(Txs)
      /\ Len(hist') = flushed
      /\ \A k \in 1 .. flushed : hist'[k] = hist[k]
  <2>1. \A k \in 1 .. flushed : hist[k] \in Txs
    BY <1>1 DEF NatFacts, EntryFacts
  <2>2. flushed \in Int /\ 1 \in Int
    BY <1>1 DEF NatFacts
  <2>3. /\ SubSeq(hist, 1, flushed) \in Seq(Txs)
        /\ Len(SubSeq(hist, 1, flushed)) = IF 1 <= flushed THEN flushed - 1 + 1 ELSE 0
        /\ \A k \in 1 .. flushed - 1 + 1 : SubSeq(hist, 1, flushed)[k] = hist[1 + k - 1]
    BY <2>1, <2>2
  <2>4. QED
    BY <1>1, <1>2, <2>3 DEF NatFacts
<1>4. TypeOK'
  BY <1>1, <1>2, <1>3 DEF NatFacts, ProgressInv, TypeOK
<1>5. ConfirmedIsDurable'
  BY <1>2, <1>3 DEF ProgressInv, ConfirmedIsDurable, DurableBefore
<1>6. AppliedInOrder'
  <2>1. ASSUME NEW k \in 1 .. Len(hist'), NEW m \in 1 .. Len(hist'), k <= m
        PROVE  hist'[k] <= hist'[m]
    <3>1. k \in 1 .. Len(hist) /\ m \in 1 .. Len(hist)
      BY <1>1, <1>3 DEF NatFacts
    <3>2. QED
      BY <2>1, <3>1, <1>3 DEF ProgressInv, AppliedInOrder
  <2>2. ASSUME NEW k \in 1 .. Len(hist'), NEW i \in Txs,
               i \notin Empty, i <= hist'[k]
        PROVE  \E m \in 1 .. k : hist'[m] = i
    <3>1. k \in 1 .. Len(hist) /\ i <= hist[k]
      BY <1>1, <1>3, <2>2 DEF NatFacts
    <3>2. PICK m \in 1 .. k : hist[m] = i
      BY <2>2, <3>1 DEF ProgressInv, AppliedInOrder
    <3>3. m \in 1 .. flushed
      BY <1>1, <1>3 DEF NatFacts
    <3>4. QED
      BY <3>2, <3>3, <1>3
  <2>3. QED
    BY <2>1, <2>2 DEF AppliedInOrder
<1>7. StreamsWithoutGap' /\ WorkerInv'
  BY <1>2 DEF StreamsWithoutGap, WorkerInv
<1>8. QED
  BY <1>4, <1>5, <1>6, <1>7 DEF ProgressSafe

\* The invariant is inductive.
LEMMA ProgressStep ==
  RestartAfterFlush /\ ProgressInv /\ [Next]_vars => ProgressInv'
<1> SUFFICES ASSUME RestartAfterFlush, ProgressInv, [Next]_vars PROVE ProgressInv'
  OBVIOUS
<1> SUFFICES TypeOK' /\ ProgressSafe'
  BY DEF ProgressInv, ProgressSafe
<1> USE ProgressAssumption
<1>1. NatFacts /\ EntryFacts
  BY TypeOKFacts DEF ProgressInv
<1>2. CASE ProviderCommit
  <2>1. TypeOK'
    BY <1>2 DEF ProviderCommit, ProgressInv, TypeOK, stream
  <2>2. UNCHANGED <<confirmed, ack, hist, flushed, up, next, phase, last_received,
                    lsn_mapping, last_pos>>
    BY <1>2 DEF ProviderCommit, stream
  <2>3. ConfirmedIsDurable'
    BY <2>2 DEF ProgressInv, ConfirmedIsDurable, DurableBefore
  <2>4. AppliedInOrder' /\ StreamsWithoutGap'
    BY <2>2 DEF ProgressInv, AppliedInOrder, StreamsWithoutGap
  <2>5. next <= head => next <= head'
    BY <1>1, <1>2 DEF ProviderCommit, NatFacts
  <2>6. WorkerInv'
    BY <2>2, <2>5 DEF ProgressInv, WorkerInv, DurableBefore
  <2>7. QED
    BY <2>1, <2>3, <2>4, <2>6 DEF ProgressSafe
<1>3. CASE WorkerStart
  BY <1>3, StartSafe
<1>4. ASSUME NEW lsn \in ChangeLsns, HandleBegin(lsn) \/ HandleRows(lsn)
      PROVE  TypeOK' /\ ProgressSafe'
  <2>1. lsn \in Nat /\ lsn <= CommitLsn(next)
    BY <1>1 DEF ChangeLsns, CommitLsn, NatFacts
  <2>2. last_received' \in Nat /\ (up = 1 => last_received' <= CommitLsn(next))
    BY <1>1, <1>4, <2>1 DEF HandleBegin, HandleRows, Later, NatFacts,
                            ProgressInv, WorkerInv, CommitLsn
  <2>3. TypeOK'
    BY <1>4, <2>2 DEF HandleBegin, HandleRows, ProgressInv, TypeOK
  <2>4. UNCHANGED <<head, confirmed, ack, hist, flushed, up, next, lsn_mapping,
                    last_pos>>
    BY <1>4 DEF HandleBegin, HandleRows
  <2>5. ConfirmedIsDurable' /\ AppliedInOrder' /\ StreamsWithoutGap'
    BY <2>4 DEF ProgressInv, ConfirmedIsDurable, DurableBefore, AppliedInOrder,
                StreamsWithoutGap
  <2>6. up = 1 => next <= head
    BY <1>4 DEF HandleBegin, HandleRows, ProgressInv, WorkerInv
  <2>7. WorkerInv'
    BY <2>2, <2>4, <2>6 DEF ProgressInv, WorkerInv, DurableBefore
  <2>8. QED
    BY <2>3, <2>5, <2>7 DEF ProgressSafe
<1>5. CASE HandleCommit
  BY <1>5, CommitSafe
<1>6. CASE ConfirmWrites
  <2>1. last_received \in Nat /\ last_received <= CommitLsn(next)
    BY <1>1, <1>6 DEF ConfirmWrites, NatFacts, ProgressInv, WorkerInv
  <2>2. QED
    BY <1>6, <2>1, FeedbackSafe DEF ConfirmWrites
<1>7. ASSUME NEW endpos \in KeepaliveLsns, NEW reply \in BOOLEAN,
             Keepalive(endpos, reply)
      PROVE  TypeOK' /\ ProgressSafe'
  <2>1. endpos \in Nat /\ endpos <= CommitLsn(next)
    BY <1>1 DEF KeepaliveLsns, NatFacts, CommitLsn
  <2>2. QED
    BY <1>7, <2>1, FeedbackSafe DEF Keepalive
<1>8. CASE SlotConfirm
  <2>1. TypeOK'
    BY <1>8 DEF SlotConfirm, ProgressInv, TypeOK, stream, InvalidXLogRecPtr
  <2>2. ConfirmedIsDurable'
    <3>1. confirmed' = ack /\ ack' = 0 /\ UNCHANGED <<hist, flushed>>
      BY <1>8 DEF SlotConfirm, InvalidXLogRecPtr
    <3>2. DurableBefore(confirmed)'
      BY <3>1 DEF ProgressInv, ConfirmedIsDurable, DurableBefore
    <3>3. \A i \in Txs : ~(CommitLsn(i) < 0)
      BY <1>1 DEF NatFacts, CommitLsn
    <3>4. DurableBefore(ack)'
      BY <3>1, <3>3 DEF DurableBefore
    <3>5. QED
      BY <3>2, <3>4 DEF ConfirmedIsDurable
  <2>3. UNCHANGED <<head, hist, flushed, up, next, phase, last_received,
                    lsn_mapping, last_pos>>
    BY <1>8 DEF SlotConfirm, stream
  <2>4. AppliedInOrder' /\ StreamsWithoutGap'
    BY <2>3 DEF ProgressInv, AppliedInOrder, StreamsWithoutGap
  <2>5. WorkerInv'
    BY <2>3 DEF ProgressInv, WorkerInv, DurableBefore
  <2>6. QED
    BY <2>1, <2>2, <2>4, <2>5 DEF ProgressSafe
<1>9. CASE LocalFlush
  <2>1. /\ flushed' \in Nat /\ flushed' > flushed /\ flushed' <= Len(hist)
        /\ UNCHANGED <<head, confirmed, ack, hist, stream, lsn_mapping, last_pos,
                       restarts>>
    <3>1. flushed' \in flushed + 1 .. Len(hist)
      BY <1>9 DEF LocalFlush
    <3>2. flushed \in Nat /\ Len(hist) \in Nat
      BY <1>1 DEF NatFacts
    <3>3. flushed' \in Nat /\ flushed' > flushed /\ flushed' <= Len(hist)
      BY <3>1, <3>2
    <3>4. QED
      BY <1>9, <3>3 DEF LocalFlush
  <2>2. TypeOK'
    BY <2>1 DEF ProgressInv, TypeOK, stream
  <2>3. \A k \in 1 .. flushed : k \in 1 .. flushed'
    <3>1. flushed \in Nat
      BY <1>1 DEF NatFacts
    <3>2. QED
      BY <2>1, <3>1, EarlierRange
  <2>4. /\ ConfirmedIsDurable'
        /\ up = 1 => DurableBefore(last_pos.flush)'
    <3>1. ASSUME NEW lsn, DurableBefore(lsn),
                 NEW i \in Txs, i \notin Empty, CommitLsn(i) < lsn
          PROVE  \E k \in 1 .. flushed' : hist[k] = i
      BY <3>1, <2>3 DEF DurableBefore
    <3>2. DurableBefore(confirmed) => DurableBefore(confirmed)'
      BY <3>1, <2>1 DEF DurableBefore
    <3>3. DurableBefore(ack) => DurableBefore(ack)'
      BY <3>1, <2>1 DEF DurableBefore
    <3>4. DurableBefore(last_pos.flush) => DurableBefore(last_pos.flush)'
      BY <3>1, <2>1 DEF DurableBefore
    <3>5. QED
      BY <3>2, <3>3, <3>4 DEF ProgressInv, ConfirmedIsDurable, WorkerInv
  <2>5. AppliedInOrder' /\ StreamsWithoutGap'
    BY <2>1 DEF ProgressInv, AppliedInOrder, StreamsWithoutGap, stream
  <2>6. \A k \in flushed' + 1 .. Len(hist) : k \in flushed + 1 .. Len(hist)
    <3>1. Len(hist) \in Nat /\ flushed \in Nat
      BY <1>1 DEF NatFacts
    <3>2. QED
      BY <2>1, <3>1, LaterRange
  <2>7. WorkerInv'
    BY <2>1, <2>4, <2>6 DEF ProgressInv, WorkerInv, stream
  <2>8. QED
    BY <2>2, <2>4, <2>5, <2>7 DEF ProgressSafe
<1>10. CASE WorkerExit
  <2>1. TypeOK'
    BY <1>10 DEF WorkerExit, ProgressInv, TypeOK
  <2>2. up' # 1 /\ UNCHANGED <<confirmed, ack, hist, flushed>>
    BY <1>10 DEF WorkerExit
  <2>3. ConfirmedIsDurable' /\ AppliedInOrder'
    BY <2>2 DEF ProgressInv, ConfirmedIsDurable, DurableBefore, AppliedInOrder
  <2>4. StreamsWithoutGap' /\ WorkerInv'
    BY <2>2 DEF StreamsWithoutGap, WorkerInv
  <2>5. QED
    BY <2>1, <2>3, <2>4 DEF ProgressSafe
<1>11. CASE ServerCrash
  BY <1>11, CrashSafe
<1>12. CASE UNCHANGED vars
  <2>1. UNCHANGED <<head, confirmed, ack, hist, flushed, up, next, phase,
                    last_received, lsn_mapping, last_pos, restarts>>
    BY <1>12 DEF vars, stream
  <2>2. TypeOK'
    BY <2>1 DEF ProgressInv, TypeOK
  <2>3. ConfirmedIsDurable'
    BY <2>1 DEF ProgressInv, ConfirmedIsDurable, DurableBefore
  <2>4. AppliedInOrder' /\ StreamsWithoutGap'
    BY <2>1 DEF ProgressInv, AppliedInOrder, StreamsWithoutGap
  <2>5. WorkerInv'
    BY <2>1 DEF ProgressInv, WorkerInv, DurableBefore
  <2>6. QED
    BY <2>2, <2>3, <2>4, <2>5 DEF ProgressSafe
<1>13. QED
  BY <1>2, <1>3, <1>4, <1>5, <1>6, <1>7, <1>8, <1>9, <1>10, <1>11, <1>12 DEF Next

\* For any number of transactions, empty ones among them, and any number of
\* worker restarts and server crashes: the provider only ever releases what is
\* on the subscriber's disk, and the local history is the provider's in order
\* without a gap, repeating at most the last transaction after a restart.
THEOREM ProgressCorrect ==
  RestartAfterFlush => (Spec => [](TypeOK /\ ConfirmedIsDurable /\ AppliedInOrder))
<1> SUFFICES ASSUME RestartAfterFlush
             PROVE  Spec => [](TypeOK /\ ConfirmedIsDurable /\ AppliedInOrder)
  OBVIOUS
<1>1. ProgressInv /\ [Next]_vars => ProgressInv'
  BY ProgressStep
<1>2. ProgressInv => TypeOK /\ ConfirmedIsDurable /\ AppliedInOrder
  BY DEF ProgressInv
<1>3. QED
  BY ProgressInit, <1>1, <1>2, PTL DEF Spec

\* The walsender never streams a transaction to a worker that misses an
\* earlier one.
THEOREM StreamsWithoutGapCorrect ==
  RestartAfterFlush => (Spec => []StreamsWithoutGap)
<1> SUFFICES ASSUME RestartAfterFlush PROVE Spec => []StreamsWithoutGap
  OBVIOUS
<1>1. ProgressInv /\ [Next]_vars => ProgressInv'
  BY ProgressStep
<1>2. ProgressInv => StreamsWithoutGap
  BY DEF ProgressInv
<1>3. QED
  BY ProgressInit, <1>1, <1>2, PTL DEF Spec
=============================================================================
