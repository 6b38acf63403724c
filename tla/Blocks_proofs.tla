---------------------------- MODULE Blocks_proofs ----------------------------
(***************************************************************************)
(* Three blocks of the SoC that stand by themselves.                        *)
(*                                                                         *)
(* sirv_gnrl_fifo, for every depth and payload: occupancy code and pointers *)
(* agree, the registers keep their widths, and it implements BoundedQueue.  *)
(*                                                                         *)
(* The clock crossing, for every length of the synchronisers and every set  *)
(* of payloads: the four phases alternate, and it neither loses,            *)
(* duplicates, reorders nor tears a payload.                                *)
(*                                                                         *)
(* The demo co-processor, for every memory, row and sequence of its         *)
(* instructions: each makes its three accesses and leaves memory, row       *)
(* buffer and sum as its description says, if the memory is prompt.         *)
(***************************************************************************)
EXTENDS GnrlFifo, CdcCrossing, NiceCore, FiniteSetTheorems, SequenceTheorems, TLAPS

-----------------------------------------------------------------------------
(* sirv_gnrl_fifo *)

\* Moving the one-hot pointer is the successor modulo DP.
LEMMA NextPtrWraps ==
  ASSUME NEW r \in 0..(DP - 1), NEW n \in 0..DP, n < DP
  PROVE  /\ NextPtr({r}) = {Wrap(r + 1)}
         /\ NextPtr({Wrap(r + n)}) = {Wrap(r + (n + 1))}
         /\ Wrap(r + 1) \in 0..(DP - 1)
         /\ Wrap(r + n) \in 0..(DP - 1)
BY FifoAssumption DEF NextPtr, Wrap

\* A thermometer code of n entries grows and shrinks by one place.
LEMMA Thermometer ==
  ASSUME NEW n \in 0..DP
  PROVE  /\ n < DP => VecPush(0..n) = 0..(n + 1)
         /\ n > 0  => VecPop(0..n) = 0..(n - 1)
         /\ DP \in 0..n <=> n = DP
         /\ 1 \in 0..n <=> n > 0
<1>1. n < DP => VecPush(0..n) = 0..(n + 1)
  <2> SUFFICES ASSUME n < DP PROVE VecPush(0..n) = 0..(n + 1)
    OBVIOUS
  <2>1. (0..n) \ {DP} = 0..n
    BY FifoAssumption
  <2>2. ASSUME NEW x \in 0..(n + 1) PROVE x \in {0} \cup {b + 1 : b \in 0..n}
    <3>1. x = 0 \/ (x - 1 \in 0..n /\ x = (x - 1) + 1)
      BY FifoAssumption
    <3> QED BY <3>1
  <2>3. ASSUME NEW x \in {0} \cup {b + 1 : b \in 0..n} PROVE x \in 0..(n + 1)
    BY FifoAssumption
  <2> QED BY <2>1, <2>2, <2>3 DEF VecPush
<1>2. n > 0 => VecPop(0..n) = 0..(n - 1)
  <2> SUFFICES ASSUME n > 0 PROVE VecPop(0..n) = 0..(n - 1)
    OBVIOUS
  <2>1. ASSUME NEW x \in 0..(n - 1) PROVE x \in {b - 1 : b \in (0..n) \ {0}}
    <3>1. x + 1 \in (0..n) \ {0} /\ x = (x + 1) - 1
      BY FifoAssumption
    <3> QED BY <3>1
  <2>2. ASSUME NEW x \in {b - 1 : b \in (0..n) \ {0}} PROVE x \in 0..(n - 1)
    BY FifoAssumption
  <2> QED BY <2>1, <2>2 DEF VecPop
<1>3. /\ DP \in 0..n <=> n = DP
      /\ 1 \in 0..n <=> n > 0
  BY FifoAssumption
<1> QED BY <1>1, <1>2, <1>3

\* The occupancy code and the pointers agree in every reachable state, for
\* every depth: the property of sirv_gnrl_fifo that makes full and empty mean
\* what the pointers say.
THEOREM FifoPointersAgree == FifoSpec => []PointersAgree
<1>1. FifoInit => PointersAgree
  <2>1. 0 \in 0..(DP - 1) /\ 0 \in 0..DP /\ Wrap(0 + 0) = 0 /\ 0..0 = {0}
    BY FifoAssumption DEF Wrap
  <2> QED BY <2>1 DEF FifoInit, PointersAgree
<1>2. ASSUME PointersAgree, [FifoNext]_fifoVars PROVE PointersAgree'
  <2> PICK r \in 0..(DP - 1), n \in 0..DP :
             rptr_vec_r = {r} /\ wptr_vec_r = {Wrap(r + n)} /\ vec_r = 0..n
    BY PointersAgree DEF PointersAgree
  <2>1. ASSUME NEW dat \in DAT, Push(dat) PROVE PointersAgree'
    <3>1. n < DP
      BY <2>1, Thermometer, FifoAssumption DEF Push, Full
    <3>2. /\ rptr_vec_r' = {r} /\ wptr_vec_r' = {Wrap(r + (n + 1))}
          /\ vec_r' = 0..(n + 1) /\ n + 1 \in 0..DP
      <4>1. wptr_vec_r' = NextPtr({Wrap(r + n)}) /\ vec_r' = VecPush(0..n)
        BY <2>1 DEF Push
      <4>2. NextPtr({Wrap(r + n)}) = {Wrap(r + (n + 1))}
        BY <3>1, NextPtrWraps
      <4>3. VecPush(0..n) = 0..(n + 1) /\ n + 1 \in 0..DP
        BY <3>1, Thermometer, FifoAssumption
      <4> QED BY <2>1, <4>1, <4>2, <4>3 DEF Push
    <3> QED BY <3>2 DEF PointersAgree
  <2>2. ASSUME Pop PROVE PointersAgree'
    <3>1. n > 0
      BY <2>2, Thermometer DEF Pop, o_vld
    <3>2. /\ rptr_vec_r' = {Wrap(r + 1)} /\ wptr_vec_r' = {Wrap(r + n)}
          /\ vec_r' = 0..(n - 1)
      BY <2>2, <3>1, NextPtrWraps, Thermometer, FifoAssumption DEF Pop, NextPtr, Wrap
    <3>3. /\ Wrap(r + n) = Wrap(Wrap(r + 1) + (n - 1))
          /\ n - 1 \in 0..DP /\ Wrap(r + 1) \in 0..(DP - 1)
      BY <3>1, FifoAssumption DEF Wrap
    <3> QED BY <3>2, <3>3 DEF PointersAgree
  <2>3. ASSUME NEW dat \in DAT, PushPop(dat) PROVE PointersAgree'
    <3>1. n > 0
      BY <2>3, Thermometer DEF PushPop, o_vld
    <3>2. /\ rptr_vec_r' = {Wrap(r + 1)} /\ vec_r' = 0..n
          /\ wptr_vec_r' = {Wrap(Wrap(r + n) + 1)}
      BY <2>3, FifoAssumption DEF PushPop, NextPtr, Wrap
    <3>3. /\ Wrap(Wrap(r + n) + 1) = Wrap(Wrap(r + 1) + n)
          /\ Wrap(r + 1) \in 0..(DP - 1)
      BY <3>1, FifoAssumption DEF Wrap
    <3> QED BY <3>2, <3>3 DEF PointersAgree
  <2>4. CASE UNCHANGED fifoVars
    BY <2>4 DEF fifoVars, PointersAgree
  <2> QED BY <1>2, <2>1, <2>2, <2>3, <2>4 DEF FifoNext
<1> QED BY <1>1, <1>2, PTL DEF FifoSpec


-----------------------------------------------------------------------------
(* The FIFO implements the bounded queue.                                   *)

Storage == fifo_rf_r \in [0..(DP - 1) -> DAT]

\* Theorem: at every depth the pointers and the occupancy code of
\* sirv_gnrl_fifo stay inside their registers, and the storage holds payloads.
THEOREM FifoTypeCorrect == FifoSpec => []FifoTypeOk
<1>1. Storage /\ [FifoNext]_fifoVars => Storage'
  BY DEF Storage, FifoNext, fifoVars, Push, Pop, PushPop, Written
<1>2. FifoInit => Storage
  BY DEF FifoInit, Storage
<1>3. PointersAgree /\ Storage => FifoTypeOk
  <2> SUFFICES ASSUME PointersAgree, Storage PROVE FifoTypeOk
    OBVIOUS
  <2>1. PICK r \in 0..(DP - 1), n \in 0..DP :
               rptr_vec_r = {r} /\ wptr_vec_r = {Wrap(r + n)} /\ vec_r = 0..n
    BY DEF PointersAgree
  <2>2. Wrap(r + n) \in 0..(DP - 1) /\ 0..n \subseteq 0..DP
    BY FifoAssumption DEF Wrap
  <2>3. QED BY <2>1, <2>2 DEF FifoTypeOk, Storage
<1>4. QED BY <1>1, <1>2, <1>3, FifoPointersAgree, PTL DEF FifoSpec

\* The queue, read off the pointers.
QueueReads ==
  \A r \in 0..(DP - 1), n \in 0..DP :
    Storage /\ rptr_vec_r = {r} /\ vec_r = 0..n =>
      /\ Queued \in Seq(DAT) /\ Len(Queued) = n
      /\ \A k \in 1..n : Queued[k] = fifo_rf_r[Wrap(r + k - 1)]

LEMMA QueueRead == QueueReads
  <1> SUFFICES ASSUME NEW r \in 0..(DP - 1), NEW n \in 0..DP,
                      Storage, rptr_vec_r = {r}, vec_r = 0..n
               PROVE  /\ Queued \in Seq(DAT) /\ Len(Queued) = n
                      /\ \A k \in 1..n : Queued[k] = fifo_rf_r[Wrap(r + k - 1)]
    BY DEF QueueReads
  <1>1. Count = n
    BY FS_Interval, FifoAssumption DEF Count
  <1>2. ReadEntry = r
    BY DEF ReadEntry
  <1>3. Queued = [k \in 1..n |-> fifo_rf_r[Wrap(r + k - 1)]]
    BY <1>1, <1>2 DEF Queued
  <1>4. \A k \in 1..n : Wrap(r + k - 1) \in 0..(DP - 1)
    BY FifoAssumption DEF Wrap
  <1>5. Queued \in [1..n -> DAT]
    BY <1>3, <1>4 DEF Storage
  <1>6. n \in Nat
    BY FifoAssumption
  <1>7. Queued \in Seq(DAT) /\ Len(Queued) = n
    BY <1>5, <1>6
  <1>8. QED BY <1>3, <1>7

LEMMA QueueReadNext == QueueReads'
  BY QueueRead, PTL

\* Pushing writes the place behind the youngest entry and no other.
LEMMA PlacesApart ==
  ASSUME NEW r \in 0..(DP - 1), NEW n \in 0..DP, NEW k \in 1..n
  PROVE  /\ Wrap(r + n) \in 0..(DP - 1) /\ Wrap(r + k - 1) \in 0..(DP - 1)
         /\ n < DP => Wrap(r + k - 1) # Wrap(r + n)
  BY FifoAssumption DEF Wrap

LEMMA PushEnqueues ==
  ASSUME PointersAgree, Storage, NEW dat \in DAT, Push(dat)
  PROVE  BQ!Enq(dat)
  <1>1. PICK r \in 0..(DP - 1), n \in 0..DP :
               rptr_vec_r = {r} /\ wptr_vec_r = {Wrap(r + n)} /\ vec_r = 0..n
    BY DEF PointersAgree
  <1>2. n < DP /\ n + 1 \in 0..DP /\ rptr_vec_r' = {r} /\ vec_r' = 0..(n + 1)
    BY <1>1, Thermometer, FifoAssumption DEF Push, Full
  <1>3. Storage' /\ fifo_rf_r' = [b \in 0..(DP - 1) |-> IF b = Wrap(r + n) THEN dat ELSE fifo_rf_r[b]]
    BY <1>1 DEF Push, Written, Storage
  <1>4. /\ Queued \in Seq(DAT) /\ Len(Queued) = n
        /\ \A k \in 1..n : Queued[k] = fifo_rf_r[Wrap(r + k - 1)]
    BY <1>1, QueueRead DEF QueueReads
  <1>5. /\ Queued' \in Seq(DAT) /\ Len(Queued') = n + 1
        /\ \A k \in 1..(n + 1) : Queued'[k] = fifo_rf_r'[Wrap(r + k - 1)]
    BY <1>2, <1>3, QueueReadNext DEF QueueReads
  <1>6. Queued'[n + 1] = dat
    <2>1. Wrap(r + (n + 1) - 1) = Wrap(r + n) /\ Wrap(r + n) \in 0..(DP - 1)
      BY FifoAssumption DEF Wrap
    <2>2. QED BY <1>3, <1>5, <2>1, FifoAssumption
  <1>7. \A k \in 1..n : Queued'[k] = Queued[k]
    <2> SUFFICES ASSUME NEW k \in 1..n PROVE Queued'[k] = Queued[k]
      OBVIOUS
    <2>1. k \in 1..(n + 1)
      BY FifoAssumption
    <2>2. Wrap(r + k - 1) # Wrap(r + n) /\ Wrap(r + k - 1) \in 0..(DP - 1)
      BY <1>2, PlacesApart
    <2>3. QED BY <1>3, <1>4, <1>5, <2>1, <2>2
  <1>8. /\ Append(Queued, dat) \in Seq(DAT) /\ Len(Append(Queued, dat)) = n + 1
        /\ \A k \in 1..n : Append(Queued, dat)[k] = Queued[k]
        /\ Append(Queued, dat)[n + 1] = dat
    BY <1>4, AppendProperties
  <1>9. \A k \in 1..(n + 1) : Queued'[k] = Append(Queued, dat)[k]
    <2>1. \A k \in 1..(n + 1) : k \in 1..n \/ k = n + 1
      BY FifoAssumption
    <2>2. QED BY <1>6, <1>7, <1>8, <2>1
  <1>10. Queued' = Append(Queued, dat)
    BY <1>5, <1>8, <1>9, SeqEqual
  <1>11. QED BY <1>2, <1>4, <1>10 DEF BQ!Enq

LEMMA PopDequeues ==
  ASSUME PointersAgree, Storage, Pop
  PROVE  BQ!Deq
  <1>1. PICK r \in 0..(DP - 1), n \in 0..DP :
               rptr_vec_r = {r} /\ wptr_vec_r = {Wrap(r + n)} /\ vec_r = 0..n
    BY DEF PointersAgree
  <1>2. /\ n > 0 /\ n - 1 \in 0..DP /\ Wrap(r + 1) \in 0..(DP - 1)
        /\ rptr_vec_r' = {Wrap(r + 1)} /\ vec_r' = 0..(n - 1)
    <2>1. n > 0 /\ VecPop(0..n) = 0..(n - 1)
      BY <1>1, Thermometer DEF Pop, o_vld
    <2>2. NextPtr({r}) = {Wrap(r + 1)} /\ Wrap(r + 1) \in 0..(DP - 1)
      BY FifoAssumption DEF NextPtr, Wrap
    <2>3. n - 1 \in 0..DP
      BY <2>1, FifoAssumption
    <2>4. rptr_vec_r' = NextPtr({r}) /\ vec_r' = VecPop(0..n)
      BY <1>1 DEF Pop
    <2>5. QED BY <2>1, <2>2, <2>3, <2>4
  <1>3. Storage' /\ fifo_rf_r' = fifo_rf_r
    BY DEF Pop, Storage
  <1>4. /\ Queued \in Seq(DAT) /\ Len(Queued) = n
        /\ \A k \in 1..n : Queued[k] = fifo_rf_r[Wrap(r + k - 1)]
    BY <1>1, QueueRead DEF QueueReads
  <1>5. /\ Queued' \in Seq(DAT) /\ Len(Queued') = n - 1
        /\ \A k \in 1..(n - 1) : Queued'[k] = fifo_rf_r'[Wrap(Wrap(r + 1) + k - 1)]
    BY <1>2, <1>3, QueueReadNext DEF QueueReads
  <1>6. Queued # <<>>
    BY <1>2, <1>4, EmptySeq
  <1>7. /\ Tail(Queued) \in Seq(DAT) /\ Len(Tail(Queued)) = n - 1
        /\ \A k \in 1..(n - 1) : Tail(Queued)[k] = Queued[k + 1]
    BY <1>4, <1>6, HeadTailProperties
  <1>8. \A k \in 1..(n - 1) : Queued'[k] = Tail(Queued)[k]
    <2> SUFFICES ASSUME NEW k \in 1..(n - 1) PROVE Queued'[k] = Tail(Queued)[k]
      OBVIOUS
    <2>1. k \in 1..n /\ k + 1 \in 1..n /\ r + (k + 1) - 1 = r + k
      BY FifoAssumption
    <2>2. Wrap(Wrap(r + 1) + k - 1) = Wrap(r + k)
      BY FifoAssumption DEF Wrap
    <2>3. Queued'[k] = fifo_rf_r[Wrap(r + k)]
      BY <1>3, <1>5, <2>2
    <2>4. Tail(Queued)[k] = fifo_rf_r[Wrap(r + k)]
      BY <1>4, <1>7, <2>1
    <2>5. QED BY <2>3, <2>4
  <1>9. Queued' = Tail(Queued)
    BY <1>5, <1>7, <1>8, SeqEqual
  <1>10. QED BY <1>6, <1>9 DEF BQ!Deq

LEMMA PushPopPasses ==
  ASSUME PointersAgree, Storage, NEW dat \in DAT, PushPop(dat)
  PROVE  BQ!EnqDeq(dat)
  <1>1. PICK r \in 0..(DP - 1), n \in 0..DP :
               rptr_vec_r = {r} /\ wptr_vec_r = {Wrap(r + n)} /\ vec_r = 0..n
    BY DEF PointersAgree
  <1>2. /\ n > 0 /\ n - 1 \in Nat /\ n - 1 + 1 = n /\ Wrap(r + 1) \in 0..(DP - 1)
        /\ rptr_vec_r' = {Wrap(r + 1)} /\ vec_r' = 0..n
        /\ n < DP \/ (DP = 1 /\ ~CUT_READY)
    BY <1>1, Thermometer, FifoAssumption DEF PushPop, o_vld, NextPtr, Wrap, i_rdy, Full
  <1>3. Storage' /\ fifo_rf_r' = [b \in 0..(DP - 1) |-> IF b = Wrap(r + n) THEN dat ELSE fifo_rf_r[b]]
    BY <1>1 DEF PushPop, Written, Storage
  <1>4. /\ Queued \in Seq(DAT) /\ Len(Queued) = n
        /\ \A k \in 1..n : Queued[k] = fifo_rf_r[Wrap(r + k - 1)]
    BY <1>1, QueueRead DEF QueueReads
  <1>5. /\ Queued' \in Seq(DAT) /\ Len(Queued') = n
        /\ \A k \in 1..n : Queued'[k] = fifo_rf_r'[Wrap(r + k)]
    <2>1. /\ Queued' \in Seq(DAT) /\ Len(Queued') = n
          /\ \A k \in 1..n : Queued'[k] = fifo_rf_r'[Wrap(Wrap(r + 1) + k - 1)]
      BY <1>2, <1>3, QueueReadNext DEF QueueReads
    <2>2. \A k \in 1..n : Wrap(Wrap(r + 1) + k - 1) = Wrap(r + k)
      BY FifoAssumption DEF Wrap
    <2>3. QED BY <2>1, <2>2
  <1>6. Queued # <<>>
    BY <1>2, <1>4, EmptySeq
  <1>7. /\ Tail(Queued) \in Seq(DAT) /\ Len(Tail(Queued)) = n - 1
        /\ \A k \in 1..(n - 1) : Tail(Queued)[k] = Queued[k + 1]
    BY <1>4, <1>6, HeadTailProperties
  <1>8. /\ Append(Tail(Queued), dat) \in Seq(DAT) /\ Len(Append(Tail(Queued), dat)) = n
        /\ \A k \in 1..(n - 1) : Append(Tail(Queued), dat)[k] = Tail(Queued)[k]
        /\ Append(Tail(Queued), dat)[n] = dat
    BY <1>2, <1>7, AppendProperties
  <1>9. Queued'[n] = dat
    <2>1. n \in 1..n /\ Wrap(r + n) \in 0..(DP - 1)
      BY <1>2, FifoAssumption DEF Wrap
    <2>2. QED BY <1>3, <1>5, <2>1
  <1>10. \A k \in 1..(n - 1) : Queued'[k] = Queued[k + 1]
    <2> SUFFICES ASSUME NEW k \in 1..(n - 1) PROVE Queued'[k] = Queued[k + 1]
      OBVIOUS
    <2>1. k \in 1..n /\ k + 1 \in 1..n /\ k + 1 > 1 /\ r + (k + 1) - 1 = r + k
      BY FifoAssumption
    <2>2. Wrap(r + k) # Wrap(r + n) /\ Wrap(r + k) \in 0..(DP - 1)
      BY FifoAssumption DEF Wrap
    <2>3. QED BY <1>3, <1>4, <1>5, <2>1, <2>2
  <1>11. \A k \in 1..n : Queued'[k] = Append(Tail(Queued), dat)[k]
    <2>1. \A k \in 1..n : k \in 1..(n - 1) \/ k = n
      BY FifoAssumption
    <2>2. QED BY <1>7, <1>8, <1>9, <1>10, <2>1
  <1>12. Queued' = Append(Tail(Queued), dat)
    BY <1>5, <1>8, <1>11, SeqEqual
  <1>13. QED BY <1>2, <1>4, <1>6, <1>12 DEF BQ!EnqDeq

\* Theorem: at every depth, with and without the cut ready path, the FIFO of
\* sirv_gnrl_bufs implements a bounded queue: nothing is lost, duplicated or
\* reordered wherever its one-hot pointers wrap.
THEOREM FifoImplementsQueue == FifoSpec => ImplementsQueue
<1>1. FifoInit => BQ!Init
  <2> SUFFICES ASSUME FifoInit PROVE Queued = <<>>
    BY DEF BQ!Init
  <2>1. 0 \in 0..(DP - 1) /\ 0 \in 0..DP /\ 0..0 = {0}
    BY FifoAssumption
  <2>2. Queued \in Seq(DAT) /\ Len(Queued) = 0
    BY <2>1, QueueRead DEF QueueReads, FifoInit, Storage
  <2>3. QED BY <2>2, EmptySeq
<1>2. PointersAgree /\ Storage /\ [FifoNext]_fifoVars => [BQ!Next]_Queued
  <2> SUFFICES ASSUME PointersAgree, Storage, [FifoNext]_fifoVars
               PROVE  BQ!Next \/ Queued' = Queued
    OBVIOUS
  <2>1. ASSUME NEW dat \in DAT, Push(dat) PROVE BQ!Next
    BY <2>1, PushEnqueues DEF BQ!Next
  <2>2. ASSUME NEW dat \in DAT, PushPop(dat) PROVE BQ!Next
    BY <2>2, PushPopPasses DEF BQ!Next
  <2>3. CASE Pop
    BY <2>3, PopDequeues DEF BQ!Next
  <2>4. CASE UNCHANGED fifoVars
    BY <2>4 DEF fifoVars, Queued, Count, ReadEntry
  <2>5. QED BY <2>1, <2>2, <2>3, <2>4 DEF FifoNext
<1>3. FifoTypeOk => Storage
  BY DEF FifoTypeOk, Storage
<1>4. QED
  BY <1>1, <1>2, <1>3, FifoPointersAgree, FifoTypeCorrect, PTL DEF FifoSpec, ImplementsQueue, BQ!Spec

-----------------------------------------------------------------------------
(* The clock crossing.  The levels along the loop only ever move one place  *)
(* forward (OneOnWay); the request is raised only when the whole loop is    *)
(* low and withdrawn only when it is high throughout, so there is never     *)
(* more than one change of level under way.  While the receiver samples,    *)
(* the request is therefore still up and dat_r does not change.             *)

Last == 2 * SYNC_DP + 1

-----------------------------------------------------------------------------
\* A loop with at most one change of level keeps that when every level is the
\* old one of its place or of the place before, and the first level changes
\* only in a loop that is the same all round.
LEMMA OneOnWay ==
  ASSUME NEW L, NEW M, NEW K \in Nat,
         \A a, b, c \in 0..K : a < b /\ b < c /\ L[a] = L[c] => L[b] = L[a],
         \A n \in 1..K : M[n] = L[n] \/ M[n] = L[n - 1],
         M[0] = L[0] \/ \A n \in 0..K : L[n] = L[0]
  PROVE  \A a, b, c \in 0..K : a < b /\ b < c /\ M[a] = M[c] => M[b] = M[a]
<1> SUFFICES ASSUME NEW a \in 0..K, NEW b \in 0..K, NEW c \in 0..K,
                    a < b, b < c, M[a] = M[c]
             PROVE  M[b] = M[a]
  OBVIOUS
<1>1. PICK y \in 0..K : M[b] = L[y] /\ b - 1 <= y /\ y <= b
  OBVIOUS
<1>2. PICK z \in 0..K : M[c] = L[z] /\ c - 1 <= z /\ z <= c
  OBVIOUS
<1>3. CASE \A n \in 0..K : L[n] = L[0]
  BY <1>1, <1>2, <1>3
<1>4. CASE M[0] = L[0]
  <2>1. PICK x \in 0..K : M[a] = L[x] /\ x <= a /\ a - 1 <= x
    BY <1>4
  <2>2. x <= y /\ y <= z
    BY <1>1, <1>2, <2>1
  <2>3. CASE x = y \/ y = z
    BY <1>1, <1>2, <2>1, <2>3
  <2>4. CASE x < y /\ y < z
    BY <1>1, <1>2, <2>1, <2>4
  <2> QED BY <2>2, <2>3, <2>4
<1> QED BY <1>3, <1>4

-----------------------------------------------------------------------------
\* The loop, place by place.
LEMMA Levels ==
  /\ DOMAIN Loop = 0..Last
  /\ Loop[0] = vld_r
  /\ Loop[SYNC_DP + 1] = i_rdy_r
  /\ \A n \in 1..SYNC_DP : Loop[n] = i_vld_sync_dat[n]
  /\ \A n \in 1..SYNC_DP : Loop[SYNC_DP + 1 + n] = o_rdy_sync_dat[n]
<1>1. \A n \in 1..SYNC_DP : Loop[SYNC_DP + 1 + n] = o_rdy_sync_dat[n]
  <2> SUFFICES ASSUME NEW n \in 1..SYNC_DP PROVE Loop[SYNC_DP + 1 + n] = o_rdy_sync_dat[n]
    OBVIOUS
  <2>1. /\ SYNC_DP + 1 + n \in 0..Last /\ ~(SYNC_DP + 1 + n <= SYNC_DP)
        /\ SYNC_DP + 1 + n # 0 /\ SYNC_DP + 1 + n # SYNC_DP + 1
        /\ (SYNC_DP + 1 + n) - SYNC_DP - 1 = n
    BY CdcAssumption DEF Last
  <2> QED BY <2>1 DEF Loop, Last
<1>2. /\ 0 \in 0..Last /\ SYNC_DP + 1 \in 0..Last /\ 1..SYNC_DP \subseteq 0..Last
      /\ SYNC_DP + 1 # 0 /\ ~(SYNC_DP + 1 <= SYNC_DP)
      /\ \A n \in 1..SYNC_DP : n # 0 /\ n <= SYNC_DP
  BY CdcAssumption DEF Last
<1>3. DOMAIN Loop = 0..Last
  BY DEF Loop, Last
<1>4. Loop[0] = vld_r
  BY <1>2 DEF Loop, Last
<1>5. Loop[SYNC_DP + 1] = i_rdy_r
  BY <1>2 DEF Loop, Last
<1>6. \A n \in 1..SYNC_DP : Loop[n] = i_vld_sync_dat[n]
  BY <1>2 DEF Loop, Last
<1> QED BY <1>1, <1>3, <1>4, <1>5, <1>6

LEMMA LevelsNext ==
  /\ DOMAIN Loop' = 0..Last
  /\ Loop'[0] = vld_r'
  /\ Loop'[SYNC_DP + 1] = i_rdy_r'
  /\ \A n \in 1..SYNC_DP : Loop'[n] = i_vld_sync_dat'[n]
  /\ \A n \in 1..SYNC_DP : Loop'[SYNC_DP + 1 + n] = o_rdy_sync_dat'[n]
<1>1. \A n \in 1..SYNC_DP : Loop'[SYNC_DP + 1 + n] = o_rdy_sync_dat'[n]
  <2> SUFFICES ASSUME NEW n \in 1..SYNC_DP PROVE Loop'[SYNC_DP + 1 + n] = o_rdy_sync_dat'[n]
    OBVIOUS
  <2>1. /\ SYNC_DP + 1 + n \in 0..Last /\ ~(SYNC_DP + 1 + n <= SYNC_DP)
        /\ SYNC_DP + 1 + n # 0 /\ SYNC_DP + 1 + n # SYNC_DP + 1
        /\ (SYNC_DP + 1 + n) - SYNC_DP - 1 = n
    BY CdcAssumption DEF Last
  <2> QED BY <2>1 DEF Loop, Last
<1> QED BY <1>1, CdcAssumption DEF Loop, Last

\* All levels of a loop are Booleans.
LEMMA LevelsType == ASSUME CdcTypeOk PROVE \A n \in 0..Last : Loop[n] \in BOOLEAN
<1> SUFFICES ASSUME NEW n \in 0..Last PROVE Loop[n] \in BOOLEAN
  OBVIOUS
<1>1. CASE n = 0
  BY <1>1, Levels DEF CdcTypeOk
<1>2. CASE n \in 1..SYNC_DP
  BY <1>2, Levels DEF CdcTypeOk, Chain
<1>3. CASE n = SYNC_DP + 1
  BY <1>3, Levels DEF CdcTypeOk
<1>4. CASE n - SYNC_DP - 1 \in 1..SYNC_DP
  <2>1. /\ Loop[SYNC_DP + 1 + (n - SYNC_DP - 1)] = o_rdy_sync_dat[n - SYNC_DP - 1]
        /\ o_rdy_sync_dat[n - SYNC_DP - 1] \in BOOLEAN
    BY <1>4, Levels DEF CdcTypeOk, Chain
  <2>2. SYNC_DP + 1 + (n - SYNC_DP - 1) = n
    BY <1>4, CdcAssumption DEF Last
  <2> QED BY <2>1, <2>2
<1> QED BY <1>1, <1>2, <1>3, <1>4, CdcAssumption DEF Last

\* What FourPhases says, in the words of the proofs.
LEMMA Phases ==
  ASSUME FourPhases
  PROVE  /\ \A a, b, c \in 0..Last : a < b /\ b < c /\ Loop[a] = Loop[c] => Loop[b] = Loop[a]
         /\ TxReady => \A n \in 0..Last : ~Loop[n]
BY Levels DEF FourPhases, TxReady

LEMMA TypesKept ==
  ASSUME CdcTypeOk, [CdcNext]_cdcVars
  PROVE  CdcTypeOk'
<1>1. ASSUME NEW i_vld \in BOOLEAN, NEW i_dat \in Payloads, TxEdge(i_vld, i_dat)
      PROVE  /\ {vld_r', nrdy_r', o_rdy_sync_r'} \subseteq BOOLEAN
             /\ o_rdy_sync_dat' \in Chain /\ dat_r' \in Payloads
  BY <1>1, CdcAssumption DEF CdcTypeOk, TxEdge, Chain, Shifted, o_rdy_sync, TxReady, o_rdy_nedge
<1>2. ASSUME NEW o_rdy \in BOOLEAN, RxEdge(o_rdy)
      PROVE  /\ {i_rdy_r', buf_vld_r', i_vld_sync_r'} \subseteq BOOLEAN
             /\ i_vld_sync_dat' \in Chain /\ buf_dat_r' \in Payloads
  BY <1>2, CdcAssumption DEF CdcTypeOk, RxEdge, Chain, Shifted, i_vld_sync, Takes
<1>3. CASE UNCHANGED cdcVars
  BY <1>3 DEF cdcVars, txVars, rxVars, CdcTypeOk
<1>4. ASSUME NEW i_vld \in BOOLEAN, NEW i_dat \in Payloads, TxOnly(i_vld, i_dat)
      PROVE  CdcTypeOk'
  BY <1>1, <1>4 DEF TxOnly, rxVars, CdcTypeOk
<1>5. ASSUME NEW o_rdy \in BOOLEAN, RxOnly(o_rdy)
      PROVE  CdcTypeOk'
  BY <1>2, <1>5 DEF RxOnly, txVars, CdcTypeOk
<1>6. ASSUME NEW i_vld \in BOOLEAN, NEW i_dat \in Payloads, NEW o_rdy \in BOOLEAN,
             BothEdges(i_vld, i_dat, o_rdy)
      PROVE  CdcTypeOk'
  BY <1>1, <1>2, <1>6 DEF BothEdges, CdcTypeOk
<1> QED BY <1>3, <1>4, <1>5, <1>6 DEF CdcNext

-----------------------------------------------------------------------------
\* An edge of the transmitter's clock moves the acknowledge along its chain
\* and changes the request only in a loop that is the same all round.
LEMMA TxMoves ==
  ASSUME CdcTypeOk, FourPhases, NEW i_vld \in BOOLEAN, NEW i_dat \in Payloads,
         TxEdge(i_vld, i_dat)
  PROVE  /\ (vld_r' = Loop[0]) \/ (\A n \in 0..Last : Loop[n] = Loop[0])
         /\ \A n \in 1..SYNC_DP : \/ o_rdy_sync_dat'[n] = Loop[SYNC_DP + 1 + n]
                                  \/ o_rdy_sync_dat'[n] = Loop[SYNC_DP + n]
<1>1. /\ Last \in 0..Last /\ 0 \in 0..Last /\ SYNC_DP \in 1..SYNC_DP
      /\ SYNC_DP + 1 + SYNC_DP = Last
  BY CdcAssumption DEF Last
<1>2. Loop[Last] = o_rdy_sync
  BY <1>1, Levels DEF o_rdy_sync
<1>3. /\ \A n \in 0..Last : Loop[n] \in BOOLEAN
      /\ vld_r \in BOOLEAN /\ Loop[0] = vld_r
  BY LevelsType, Levels DEF CdcTypeOk
<1>4. (vld_r' = Loop[0]) \/ (\A n \in 0..Last : Loop[n] = Loop[0])
  <2>1. CASE i_vld /\ TxReady
    BY <2>1, <1>1, <1>3, Phases
  <2>2. CASE ~(i_vld /\ TxReady) /\ vld_r /\ o_rdy_sync
    <3>1. Loop[0] = Loop[Last]
      BY <2>2, <1>2, <1>3, <1>1
    <3>2. ASSUME NEW n \in 0..Last PROVE Loop[n] = Loop[0]
      <4>1. CASE n = 0 \/ n = Last
        BY <3>1, <4>1
      <4>2. CASE 0 < n /\ n < Last
        BY <3>1, <4>2, <1>1, Phases
      <4> QED BY <4>1, <4>2, <1>1
    <3> QED BY <3>2
  <2>3. CASE ~(i_vld /\ TxReady) /\ ~(vld_r /\ o_rdy_sync)
    BY <2>3, <1>3 DEF TxEdge
  <2> QED BY <2>1, <2>2, <2>3
<1>5. ASSUME NEW n \in 1..SYNC_DP
      PROVE  \/ o_rdy_sync_dat'[n] = Loop[SYNC_DP + 1 + n]
             \/ o_rdy_sync_dat'[n] = Loop[SYNC_DP + n]
  <2>1. o_rdy_sync_dat'[n] = IF n = 1 THEN i_rdy_r ELSE o_rdy_sync_dat[n - 1]
    BY DEF TxEdge, Shifted
  <2>2. CASE n = 1
    BY <2>1, <2>2, Levels
  <2>3. CASE n # 1
    <3>1. n - 1 \in 1..SYNC_DP /\ SYNC_DP + 1 + (n - 1) = SYNC_DP + n
      BY <2>3, CdcAssumption
    <3> QED BY <2>1, <2>3, <3>1, Levels
  <2> QED BY <2>2, <2>3
<1> QED BY <1>4, <1>5

\* An edge of the receiver's clock moves the request along its chain; the
\* acknowledge follows the end of the chain.
LEMMA RxMoves ==
  ASSUME CdcTypeOk, NEW o_rdy \in BOOLEAN, RxEdge(o_rdy)
  PROVE  /\ i_rdy_r' = Loop[SYNC_DP + 1] \/ i_rdy_r' = Loop[SYNC_DP]
         /\ \A n \in 1..SYNC_DP : \/ i_vld_sync_dat'[n] = Loop[n]
                                  \/ i_vld_sync_dat'[n] = Loop[n - 1]
<1>1. Loop[SYNC_DP] = i_vld_sync /\ i_vld_sync \in BOOLEAN
  BY Levels, CdcAssumption DEF i_vld_sync, CdcTypeOk, Chain
<1>2. i_rdy_r' = Loop[SYNC_DP + 1] \/ i_rdy_r' = Loop[SYNC_DP]
  <2>1. i_rdy_r \in BOOLEAN /\ Loop[SYNC_DP + 1] = i_rdy_r
    BY Levels DEF CdcTypeOk
  <2>2. CASE Takes
    BY <2>2, <1>1 DEF Takes, RxEdge
  <2>3. CASE ~Takes
    BY <2>1, <2>3, <1>1 DEF RxEdge
  <2> QED BY <2>2, <2>3
<1>3. ASSUME NEW n \in 1..SYNC_DP
      PROVE  i_vld_sync_dat'[n] = Loop[n] \/ i_vld_sync_dat'[n] = Loop[n - 1]
  <2>1. i_vld_sync_dat'[n] = IF n = 1 THEN vld_r ELSE i_vld_sync_dat[n - 1]
    BY DEF RxEdge, Shifted
  <2>2. CASE n = 1
    BY <2>1, <2>2, Levels
  <2>3. CASE n # 1
    BY <2>1, <2>3, Levels, CdcAssumption
  <2> QED BY <2>2, <2>3
<1> QED BY <1>2, <1>3
\* A step of either clock, or of both, moves the levels of the loop forward by
\* at most one place.
LEMMA LoopMoves ==
  ASSUME CdcTypeOk, FourPhases, [CdcNext]_cdcVars
  PROVE  /\ (Loop'[0] = Loop[0]) \/ (\A n \in 0..Last : Loop[n] = Loop[0])
         /\ \A n \in 1..Last : Loop'[n] = Loop[n] \/ Loop'[n] = Loop[n - 1]
<1> DEFINE Tx == \E i_vld \in BOOLEAN, i_dat \in Payloads : TxEdge(i_vld, i_dat)
           Rx == \E o_rdy \in BOOLEAN : RxEdge(o_rdy)
<1>1. (Tx \/ UNCHANGED txVars) /\ (Rx \/ UNCHANGED rxVars)
  BY DEF CdcNext, TxOnly, RxOnly, BothEdges, cdcVars
<1>2. /\ (vld_r' = Loop[0]) \/ (\A n \in 0..Last : Loop[n] = Loop[0])
      /\ \A n \in 1..SYNC_DP : \/ o_rdy_sync_dat'[n] = Loop[SYNC_DP + 1 + n]
                               \/ o_rdy_sync_dat'[n] = Loop[SYNC_DP + n]
  <2>1. CASE Tx
    BY <2>1, TxMoves
  <2>2. CASE UNCHANGED txVars
    BY <2>2, Levels DEF txVars
  <2> QED BY <1>1, <2>1, <2>2
<1>3. /\ i_rdy_r' = Loop[SYNC_DP + 1] \/ i_rdy_r' = Loop[SYNC_DP]
      /\ \A n \in 1..SYNC_DP : i_vld_sync_dat'[n] = Loop[n] \/ i_vld_sync_dat'[n] = Loop[n - 1]
  <2>1. CASE Rx
    BY <2>1, RxMoves
  <2>2. CASE UNCHANGED rxVars
    BY <2>2, Levels DEF rxVars
  <2> QED BY <1>1, <2>1, <2>2
<1>4. ASSUME NEW n \in 1..Last PROVE Loop'[n] = Loop[n] \/ Loop'[n] = Loop[n - 1]
  <2>1. CASE n \in 1..SYNC_DP
    BY <1>3, <2>1, LevelsNext
  <2>2. CASE n = SYNC_DP + 1
    <3>1. n - 1 = SYNC_DP
      BY <2>2, CdcAssumption
    <3> QED BY <1>3, <2>2, <3>1, LevelsNext
  <2>3. CASE n - SYNC_DP - 1 \in 1..SYNC_DP
    <3>1. PICK k \in 1..SYNC_DP : k = n - SYNC_DP - 1
      BY <2>3
    <3>2. n = SYNC_DP + 1 + k /\ n - 1 = SYNC_DP + k
      BY <3>1, CdcAssumption
    <3> QED BY <1>2, <3>2, LevelsNext
  <2> QED BY <2>1, <2>2, <2>3, CdcAssumption DEF Last
<1> QED BY <1>2, <1>4, LevelsNext

\* A loop that is low all round stays so unless the request is raised.
LEMMA LowKept ==
  ASSUME CdcTypeOk, FourPhases, [CdcNext]_cdcVars,
         \A n \in 0..Last : ~Loop[n], ~vld_r'
  PROVE  \A n \in 0..Last : ~Loop'[n]
<1> SUFFICES ASSUME NEW n \in 0..Last PROVE ~Loop'[n]
  OBVIOUS
<1>1. CASE n = 0
  BY <1>1, LevelsNext
<1>2. CASE n \in 1..Last
  <2>1. n - 1 \in 0..Last
    BY <1>2, CdcAssumption DEF Last
  <2> QED BY <1>2, <2>1, LoopMoves
<1> QED BY <1>1, <1>2

\* The transmitter is ready only when the acknowledge has fallen, and the
\* whole loop with it.
LEMMA ReadyMeansLow ==
  ASSUME CdcTypeOk, FourPhases, [CdcNext]_cdcVars, TxReady'
  PROVE  \A n \in 0..Last : ~Loop'[n]
<1>1. CASE UNCHANGED txVars
  <2>1. TxReady /\ vld_r' = vld_r
    BY <1>1 DEF TxReady, o_rdy_nedge, o_rdy_sync, txVars
  <2>2. /\ \A n \in 0..Last : ~Loop[n]
        /\ 0 \in 0..Last
    BY <2>1, Phases, CdcAssumption DEF Last
  <2> QED BY <2>1, <2>2, LowKept, Levels
<1>2. ASSUME NEW i_vld \in BOOLEAN, NEW i_dat \in Payloads, TxEdge(i_vld, i_dat)
      PROVE  \A n \in 0..Last : ~Loop'[n]
  <2>1. CASE ~nrdy_r'
    <3>1. TxReady /\ ~(i_vld /\ TxReady)
      BY <1>2, <2>1 DEF TxEdge, TxReady
    <3>2. \A n \in 0..Last : ~Loop[n]
      BY <3>1, Phases
    <3>3. ~vld_r'
      <4>1. ~vld_r
        BY <3>2, Levels, CdcAssumption DEF Last
      <4> QED BY <1>2, <3>1, <4>1 DEF TxEdge
    <3> QED BY <3>2, <3>3, LowKept
  <2>2. CASE o_rdy_nedge'
    <3>1. /\ Last \in 0..Last /\ Last - 1 \in 0..Last /\ Last \in 1..Last /\ Last \in Nat
          /\ SYNC_DP \in 1..SYNC_DP /\ SYNC_DP + 1 + SYNC_DP = Last /\ 0 < Last - 1
      BY CdcAssumption DEF Last
    <3>2. Loop[Last] /\ ~Loop'[Last]
      BY <1>2, <2>2, <3>1, Levels, LevelsNext DEF TxEdge, o_rdy_nedge, o_rdy_sync
    <3>3. ~Loop[Last - 1]
      BY <3>1, <3>2, LoopMoves
    <3>4. \A n \in 0..Last : Loop[n] \in BOOLEAN
      BY LevelsType
    <3>5. ASSUME NEW n \in 0..Last, n # Last PROVE ~Loop[n]
      <4>1. CASE n = Last - 1
        BY <3>3, <4>1
      <4>2. CASE n < Last - 1
        <5>1. Last - 1 < Last
          BY <3>1
        <5>2. Loop[n] = Loop[Last] => Loop[Last - 1] = Loop[n]
          BY <3>1, <4>2, <5>1, Phases
        <5> QED BY <3>1, <3>2, <3>3, <3>4, <5>2
      <4> QED BY <3>1, <3>5, <4>1, <4>2
    <3>6. ~TxReady
      BY <3>1, <3>2, Phases
    <3>7. ~vld_r'
      <4>1. 0 \in 0..Last /\ 0 # Last
        BY <3>1
      <4>2. ~vld_r
        BY <3>5, <4>1, Levels
      <4> QED BY <1>2, <3>6, <4>2 DEF TxEdge
    <3>8. ASSUME NEW n \in 0..Last PROVE ~Loop'[n]
      <4>1. CASE n = 0
        BY <3>7, <4>1, LevelsNext
      <4>2. CASE n = Last
        BY <3>2, <4>2
      <4>3. CASE n \in 1..Last /\ n # Last
        <5>1. n - 1 \in 0..Last /\ n - 1 # Last
          BY <4>3, <3>1
        <5> QED BY <3>5, <4>3, <5>1, LoopMoves
      <4> QED BY <4>1, <4>2, <4>3, <3>1
    <3> QED BY <3>8
  <2> QED BY <2>1, <2>2 DEF TxReady
<1> QED BY <1>1, <1>2 DEF CdcNext, TxOnly, RxOnly, BothEdges, cdcVars

\* The alternation of the phases is inductive.
LEMMA PhasesKept ==
  ASSUME CdcTypeOk, FourPhases, [CdcNext]_cdcVars
  PROVE  FourPhases'
<1>1. \A a, b, c \in 0..Last : a < b /\ b < c /\ Loop'[a] = Loop'[c] => Loop'[b] = Loop'[a]
  <2>1. Last \in Nat
    BY CdcAssumption DEF Last
  <2>2. \A a, b, c \in 0..Last : a < b /\ b < c /\ Loop[a] = Loop[c] => Loop[b] = Loop[a]
    BY Phases
  <2> QED BY <2>1, <2>2, LoopMoves, OneOnWay
<1>2. ~nrdy_r' => \A n \in 0..Last : ~Loop'[n]
  BY ReadyMeansLow DEF TxReady
<1>3. o_rdy_nedge' => \A n \in 0..Last : ~Loop'[n]
  BY ReadyMeansLow DEF TxReady
<1> QED BY <1>1, <1>2, <1>3, LevelsNext DEF FourPhases

-----------------------------------------------------------------------------
\* What the levels say when the receiver acknowledges a payload: the request is
\* still up, the transmitter has not seen the acknowledge, and it takes nothing
\* new.
LEMMA Sampled ==
  ASSUME CdcTypeOk, FourPhases, Takes
  PROVE  vld_r /\ ~o_rdy_sync /\ ~TxReady
<1>1. /\ 0 \in 0..Last /\ SYNC_DP \in 0..Last /\ SYNC_DP + 1 \in 0..Last /\ Last \in 0..Last
      /\ 0 < SYNC_DP /\ SYNC_DP < SYNC_DP + 1 /\ SYNC_DP + 1 < Last
      /\ SYNC_DP \in 1..SYNC_DP /\ SYNC_DP + 1 + SYNC_DP = Last
  BY CdcAssumption DEF Last
<1>2. Loop[SYNC_DP] /\ ~Loop[SYNC_DP + 1] /\ \A n \in 0..Last : Loop[n] \in BOOLEAN
  BY <1>1, Levels, LevelsType DEF Takes, i_vld_sync
<1>3. vld_r
  <2>1. Loop[0] = Loop[SYNC_DP + 1] => Loop[SYNC_DP] = Loop[0]
    BY <1>1, Phases
  <2> QED BY <1>1, <1>2, <2>1, Levels
<1>4. ~o_rdy_sync
  <2>1. Loop[SYNC_DP] = Loop[Last] => Loop[SYNC_DP + 1] = Loop[SYNC_DP]
    BY <1>1, Phases
  <2>2. Loop[Last] = o_rdy_sync
    BY <1>1, Levels DEF o_rdy_sync
  <2> QED BY <1>1, <1>2, <2>1, <2>2
<1>5. ~TxReady
  BY <1>1, <1>2, Phases
<1> QED BY <1>3, <1>4, <1>5

\* And when it withdraws the acknowledge, the request has been withdrawn.
LEMMA Withdrawn ==
  ASSUME CdcTypeOk, FourPhases, i_rdy_r, ~i_vld_sync
  PROVE  ~vld_r /\ ~TxReady
<1>1. /\ 0 \in 0..Last /\ SYNC_DP \in 0..Last /\ SYNC_DP + 1 \in 0..Last
      /\ 0 < SYNC_DP /\ SYNC_DP < SYNC_DP + 1 /\ SYNC_DP \in 1..SYNC_DP
  BY CdcAssumption DEF Last
<1>2. ~Loop[SYNC_DP] /\ Loop[SYNC_DP + 1] /\ \A n \in 0..Last : Loop[n] \in BOOLEAN
  BY <1>1, Levels, LevelsType DEF i_vld_sync
<1>3. Loop[0] = Loop[SYNC_DP + 1] => Loop[SYNC_DP] = Loop[0]
  BY <1>1, Phases
<1>4. ~vld_r
  BY <1>1, <1>2, <1>3, Levels
<1>5. ~TxReady
  BY <1>1, <1>2, Phases
<1> QED BY <1>4, <1>5

\* The transmitter withdraws a request only after the receiver acknowledged it,
\* and raises one only when the receiver sees and says nothing.
LEMMA Raised ==
  ASSUME CdcTypeOk, FourPhases
  PROVE  /\ TxReady => ~vld_r /\ ~i_rdy_r /\ ~i_vld_sync
         /\ vld_r /\ o_rdy_sync => i_rdy_r /\ i_vld_sync
<1>1. /\ 0 \in 0..Last /\ SYNC_DP \in 0..Last /\ SYNC_DP + 1 \in 0..Last /\ Last \in 0..Last
      /\ 0 < SYNC_DP /\ SYNC_DP < Last /\ 0 < SYNC_DP + 1 /\ SYNC_DP + 1 < Last
      /\ SYNC_DP \in 1..SYNC_DP /\ SYNC_DP + 1 + SYNC_DP = Last
  BY CdcAssumption DEF Last
<1>2. /\ Loop[0] = vld_r /\ Loop[SYNC_DP] = i_vld_sync /\ Loop[SYNC_DP + 1] = i_rdy_r
      /\ Loop[Last] = o_rdy_sync
  BY <1>1, Levels DEF i_vld_sync, o_rdy_sync
<1>3. TxReady => ~vld_r /\ ~i_rdy_r /\ ~i_vld_sync
  BY <1>1, <1>2, Phases
<1>4. ASSUME vld_r, o_rdy_sync PROVE i_rdy_r /\ i_vld_sync
  <2>1. Loop[0] = Loop[Last] => Loop[SYNC_DP] = Loop[0] /\ Loop[SYNC_DP + 1] = Loop[0]
    BY <1>1, Phases
  <2>2. vld_r \in BOOLEAN /\ o_rdy_sync \in BOOLEAN /\ i_vld_sync \in BOOLEAN /\ i_rdy_r \in BOOLEAN
    BY <1>1, CdcAssumption DEF CdcTypeOk, Chain, o_rdy_sync, i_vld_sync
  <2> QED BY <1>2, <1>4, <2>1, <2>2
<1> QED BY <1>3, <1>4

-----------------------------------------------------------------------------
\* The payload in the receiver's buffer, and the one it has not acknowledged.
Buffer == IF buf_vld_r THEN <<buf_dat_r>> ELSE << >>
Flight == IF vld_r /\ ~i_rdy_r THEN <<dat_r>> ELSE << >>

\* Taking the first payload of a sequence leaves the rest.
LEMMA Short ==
  ASSUME NEW S, NEW x \in S, NEW t \in Seq(S)
  PROVE  SubSeq(<<x>> \o t, 2, Len(<<x>> \o t)) = t
<1>1. <<x>> \in Seq(S) /\ Len(<<x>>) = 1
  OBVIOUS
<1>2. <<x>> \o t \in Seq(S) /\ Len(<<x>> \o t) = Len(t) + 1 /\ Len(t) \in Nat
  BY <1>1, ConcatProperties, LenProperties
<1>3. \A i \in 1..Len(t) : (<<x>> \o t)[i + 1] = t[i]
  BY <1>1, <1>2, ConcatProperties
<1>4. \A i \in 2..Len(t) + 1 : (<<x>> \o t)[i] \in S
  BY <1>2, ElementOfSeq
<1>5. /\ SubSeq(<<x>> \o t, 2, Len(t) + 1) \in Seq(S)
      /\ Len(SubSeq(<<x>> \o t, 2, Len(t) + 1)) = Len(t)
      /\ \A i \in 1..Len(t) : SubSeq(<<x>> \o t, 2, Len(t) + 1)[i] = (<<x>> \o t)[i + 1]
  BY <1>2, <1>4, SubSeqProperties
<1> QED BY <1>2, <1>3, <1>5, SeqEqual

\* What the receiver's edge does to the buffer and the payloads still to read.
LEMMA BufferStep ==
  ASSUME CdcTypeOk, FourPhases, NothingLost, NEW o_rdy \in BOOLEAN, RxEdge(o_rdy)
  PROVE  /\ Takes => Buffer' = <<dat_r>> /\ Remains(o_rdy) = <<dat_r>>
         /\ ~Takes => Remains(o_rdy) = Buffer' \o Flight
<1>1. /\ sent = Buffer \o Flight /\ Flight \in Seq(Payloads)
      /\ dat_r \in Payloads /\ buf_dat_r \in Payloads /\ buf_vld_r \in BOOLEAN
  BY DEF NothingLost, Held, Buffer, Flight, CdcTypeOk
<1>2. CASE Takes
  <2>1. vld_r /\ ~i_rdy_r /\ ~buf_vld_r
    BY <1>2, Sampled DEF Takes
  <2>2. Flight = <<dat_r>> /\ Buffer = << >> /\ Buffer' = <<dat_r>>
    BY <1>2, <2>1 DEF Flight, Buffer, RxEdge
  <2>3. Remains(o_rdy) = <<dat_r>>
    BY <1>1, <2>1, <2>2, ConcatEmptySeq DEF Remains
  <2> QED BY <1>2, <2>2, <2>3
<1>3. CASE ~Takes /\ buf_vld_r /\ o_rdy
  <2>1. Buffer = <<buf_dat_r>> /\ Buffer' = << >>
    BY <1>3 DEF Buffer, RxEdge
  <2>2. Remains(o_rdy) = Flight
    BY <1>1, <1>3, <2>1, Short DEF Remains
  <2> QED BY <1>1, <1>3, <2>1, <2>2, ConcatEmptySeq
<1>4. CASE ~Takes /\ ~(buf_vld_r /\ o_rdy)
  <2>1. Buffer' = Buffer
    BY <1>1, <1>4 DEF Buffer, RxEdge
  <2> QED BY <1>1, <1>4, <2>1 DEF Remains
<1> QED BY <1>2, <1>3, <1>4

\* The receiver's edge ends the flight by taking the payload; nothing else it
\* does changes what is in flight.
LEMMA Acknowledged ==
  ASSUME CdcTypeOk, FourPhases, NEW o_rdy \in BOOLEAN, RxEdge(o_rdy)
  PROVE  /\ Takes => i_rdy_r' = TRUE
         /\ ~Takes /\ vld_r => i_rdy_r' = i_rdy_r
         /\ TxReady => ~Takes /\ i_rdy_r' = FALSE
<1>1. i_rdy_r \in BOOLEAN /\ vld_r \in BOOLEAN /\ i_vld_sync_r \in BOOLEAN
  BY DEF CdcTypeOk
<1>2. Takes => i_rdy_r' = TRUE
  BY DEF RxEdge
<1>3. ASSUME ~Takes, vld_r PROVE i_rdy_r' = i_rdy_r
  <2>1. CASE i_rdy_r
    <3>1. i_vld_sync
      BY <1>3, <2>1, Withdrawn
    <3> QED BY <1>1, <1>3, <2>1, <3>1 DEF RxEdge
  <2>2. CASE ~i_rdy_r
    BY <1>1, <1>3, <2>2 DEF RxEdge
  <2> QED BY <2>1, <2>2
<1>4. ASSUME TxReady PROVE ~Takes /\ i_rdy_r' = FALSE
  <2>1. ~i_rdy_r /\ ~Takes
    BY <1>4, Raised DEF Takes
  <2> QED BY <2>1 DEF RxEdge
<1> QED BY <1>2, <1>3, <1>4

\* The transmitter's edge puts what it accepts into flight.
LEMMA Launched ==
  ASSUME CdcTypeOk, FourPhases, NEW i_vld \in BOOLEAN, NEW i_dat \in Payloads,
         TxEdge(i_vld, i_dat)
  PROVE  /\ i_vld /\ TxReady => Flight = << >> /\ vld_r' = TRUE /\ dat_r' = i_dat
         /\ ~(i_vld /\ TxReady) => /\ dat_r' = dat_r
                                   /\ ~vld_r => vld_r' = FALSE
                                   /\ vld_r /\ ~i_rdy_r => vld_r' = TRUE
<1>1. vld_r \in BOOLEAN /\ i_rdy_r \in BOOLEAN
  BY DEF CdcTypeOk
<1>2. ASSUME i_vld, TxReady PROVE Flight = << >> /\ vld_r' = TRUE /\ dat_r' = i_dat
  BY <1>2, Raised DEF TxEdge, Flight
<1>3. ASSUME ~(i_vld /\ TxReady)
      PROVE  dat_r' = dat_r /\ (~vld_r => vld_r' = FALSE) /\ (vld_r /\ ~i_rdy_r => vld_r' = TRUE)
  <2>1. dat_r' = dat_r /\ vld_r' = (vld_r /\ ~o_rdy_sync)
    BY <1>1, <1>3 DEF TxEdge
  <2>2. vld_r /\ ~i_rdy_r => ~o_rdy_sync
    BY Raised
  <2> QED BY <1>1, <2>1, <2>2
<1> QED BY <1>2, <1>3

\* No payload is lost at a step of either clock, or of both.
LEMMA NothingLostKept ==
  ASSUME CdcTypeOk, FourPhases, NothingLost, [CdcNext]_cdcVars
  PROVE  NothingLost'
<1>1. /\ sent = Buffer \o Flight /\ Flight \in Seq(Payloads) /\ dat_r \in Payloads
      /\ vld_r \in BOOLEAN /\ i_rdy_r \in BOOLEAN
  BY DEF NothingLost, Held, Buffer, Flight, CdcTypeOk
<1>2. Buffer \in Seq(Payloads) /\ Buffer' \in Seq(Payloads)
  BY TypesKept DEF Buffer, CdcTypeOk
<1>3. NothingLost' <=> sent' = Buffer' \o Flight'
  BY DEF NothingLost, Held, Buffer, Flight
<1>4. CASE UNCHANGED cdcVars
  BY <1>1, <1>3, <1>4 DEF cdcVars, txVars, rxVars, Buffer, Flight
<1>5. ASSUME NEW i_vld \in BOOLEAN, NEW i_dat \in Payloads, TxOnly(i_vld, i_dat)
      PROVE  NothingLost'
  <2>1. Buffer' = Buffer /\ i_rdy_r' = i_rdy_r /\ TxEdge(i_vld, i_dat)
    BY <1>5 DEF TxOnly, rxVars, Buffer
  <2>2. CASE i_vld /\ TxReady
    <3>1. Flight = << >> /\ Flight' = <<i_dat>> /\ Accepts(i_vld, i_dat) = <<i_dat>>
      BY <2>1, <2>2, Launched, Raised DEF Flight, Accepts
    <3>2. sent = Buffer
      BY <1>1, <1>2, <3>1, ConcatEmptySeq
    <3> QED BY <1>3, <1>5, <2>1, <3>1, <3>2 DEF TxOnly
  <2>3. CASE ~(i_vld /\ TxReady)
    <3>1. Flight' = Flight
      BY <1>1, <2>1, <2>3, Launched DEF Flight
    <3>2. Accepts(i_vld, i_dat) = << >> /\ sent \in Seq(Payloads)
      BY <1>1, <1>2, <2>3, ConcatProperties DEF Accepts
    <3>3. sent' = sent
      BY <1>5, <3>2, ConcatEmptySeq DEF TxOnly
    <3> QED BY <1>1, <1>3, <2>1, <3>1, <3>3
  <2> QED BY <2>2, <2>3
<1>6. ASSUME NEW o_rdy \in BOOLEAN, RxOnly(o_rdy)
      PROVE  NothingLost'
  <2>1. RxEdge(o_rdy) /\ vld_r' = vld_r /\ dat_r' = dat_r /\ sent' = Remains(o_rdy)
    BY <1>6 DEF RxOnly, txVars
  <2>2. CASE Takes
    <3>1. Flight' = << >> /\ sent' = <<dat_r>> /\ Buffer' = <<dat_r>>
      BY <2>1, <2>2, Acknowledged, BufferStep DEF Flight
    <3> QED BY <1>2, <1>3, <3>1, ConcatEmptySeq
  <2>3. CASE ~Takes
    <3>1. (vld_r => i_rdy_r' = i_rdy_r) /\ vld_r' = vld_r /\ dat_r' = dat_r
      BY <2>1, <2>3, Acknowledged
    <3>2. Flight' = Flight
      BY <1>1, <3>1 DEF Flight
    <3> QED BY <1>3, <2>1, <2>3, <3>2, BufferStep
  <2> QED BY <2>2, <2>3
<1>7. ASSUME NEW i_vld \in BOOLEAN, NEW i_dat \in Payloads, NEW o_rdy \in BOOLEAN,
             BothEdges(i_vld, i_dat, o_rdy)
      PROVE  NothingLost'
  <2>1. /\ TxEdge(i_vld, i_dat) /\ RxEdge(o_rdy)
        /\ sent' = Remains(o_rdy) \o Accepts(i_vld, i_dat)
    BY <1>7 DEF BothEdges
  <2>2. CASE Takes
    <3>1. ~TxReady
      BY <2>2, Sampled
    <3>2. /\ Flight' = << >> /\ Buffer' = <<dat_r>> /\ Remains(o_rdy) = <<dat_r>>
          /\ Accepts(i_vld, i_dat) = << >>
      BY <2>1, <2>2, <3>1, Acknowledged, BufferStep DEF Flight, Accepts
    <3> QED BY <1>3, <2>1, <3>2
  <2>3. CASE ~Takes
    <3>1. Remains(o_rdy) = Buffer' \o Flight
      BY <2>1, <2>3, BufferStep
    <3>2. Flight' = Flight \o Accepts(i_vld, i_dat) /\ Accepts(i_vld, i_dat) \in Seq(Payloads)
      <4>1. CASE i_vld /\ TxReady
        <5>1. Flight = << >> /\ Flight' = <<i_dat>> /\ Accepts(i_vld, i_dat) = <<i_dat>>
          BY <2>1, <4>1, Launched, Acknowledged DEF Flight, Accepts
        <5> QED BY <5>1, ConcatEmptySeq
      <4>2. CASE ~(i_vld /\ TxReady)
        <5>1. Flight' = Flight
          <6>1. CASE vld_r
            <7>1. i_rdy_r' = i_rdy_r /\ dat_r' = dat_r /\ (~i_rdy_r => vld_r' = TRUE)
              BY <2>1, <2>3, <4>2, <6>1, Launched, Acknowledged
            <7> QED BY <1>1, <6>1, <7>1 DEF Flight
          <6>2. CASE ~vld_r
            BY <1>1, <2>1, <4>2, <6>2, Launched DEF Flight
          <6> QED BY <6>1, <6>2
        <5>2. Accepts(i_vld, i_dat) = << >>
          BY <4>2 DEF Accepts
        <5> QED BY <1>1, <5>1, <5>2, ConcatEmptySeq, EmptySeq
      <4> QED BY <4>1, <4>2
    <3>3. sent' = Buffer' \o (Flight \o Accepts(i_vld, i_dat))
      BY <1>1, <1>2, <2>1, <3>1, <3>2, ConcatAssociative
    <3> QED BY <1>3, <3>2, <3>3
  <2> QED BY <2>2, <2>3
<1> QED BY <1>4, <1>5, <1>6, <1>7 DEF CdcNext

-----------------------------------------------------------------------------
CdcInv == CdcTypeOk /\ FourPhases /\ NothingLost

LEMMA CdcInitially == CdcInit => CdcInv
<1> SUFFICES ASSUME CdcInit PROVE CdcInv
  OBVIOUS
<1>1. CdcTypeOk
  BY DEF CdcInit, CdcTypeOk, Chain
<1>2. \A n \in 0..Last : ~Loop[n]
  <2> SUFFICES ASSUME NEW n \in 0..Last PROVE ~Loop[n]
    OBVIOUS
  <2>1. CASE n = 0
    BY <2>1, Levels DEF CdcInit
  <2>2. CASE n \in 1..SYNC_DP
    BY <2>2, Levels DEF CdcInit
  <2>3. CASE n = SYNC_DP + 1
    BY <2>3, Levels DEF CdcInit
  <2>4. CASE n - SYNC_DP - 1 \in 1..SYNC_DP
    <3>1. PICK k \in 1..SYNC_DP : k = n - SYNC_DP - 1
      BY <2>4
    <3>2. n = SYNC_DP + 1 + k
      BY <3>1, CdcAssumption
    <3> QED BY <3>2, Levels DEF CdcInit
  <2> QED BY <2>1, <2>2, <2>3, <2>4, CdcAssumption DEF Last
<1>3. FourPhases
  <2>1. \A n \in 0..Last : Loop[n] \in BOOLEAN
    BY <1>1, LevelsType
  <2> QED BY <1>2, <2>1, Levels DEF FourPhases
<1>4. NothingLost
  BY DEF NothingLost, Held, CdcInit
<1> QED BY <1>1, <1>3, <1>4 DEF CdcInv

LEMMA CdcStep == CdcInv /\ [CdcNext]_cdcVars => CdcInv'
BY TypesKept, PhasesKept, NothingLostKept DEF CdcInv

\* For every length of the synchronisers, the four phases of the handshake
\* alternate: the level that the transmitter and the receiver exchange changes
\* at one place of the loop at most.
THEOREM CrossingPhases == CdcSpec => []FourPhases
<1>1. CdcInv => FourPhases
  BY DEF CdcInv
<1> QED BY <1>1, CdcInitially, CdcStep, PTL DEF CdcSpec

\* For every length of the synchronisers and every set of payloads, what the
\* reader has still to take is what the sender handed over, in that order:
\* nothing is lost, duplicated, or sampled while it changes.
THEOREM CrossingNothingLost == CdcSpec => []NothingLost
<1>1. CdcInv => NothingLost
  BY DEF CdcInv
<1> QED BY <1>1, CdcInitially, CdcStep, PTL DEF CdcSpec

-----------------------------------------------------------------------------
(* The demo co-processor. *)

Cells  == 0..(MemWords - 1)
Values == 0..(NiceMod - 1)
Columns == 0..clonum
Nth(b, n) == (b + n) % MemWords
Cell(n) == Nth(start.base, n)

Starts == [op : NiceOps \cup {"none"}, base : Cells, row : [Columns -> Values],
           mem : [Cells -> Values], known : SUBSET Columns]

\* NiceTypeOk with the registers that it leaves out.
NiceTypes == /\ NiceTypeOk
             /\ nice_req_rs1 \in Cells /\ maddr_acc_r \in Nat /\ accesses \in Nat
             /\ start \in Starts

\* What an instruction that is not under way leaves in its registers.  The end
\* of a sum has one more word for place 0 of the row buffer.
Rests ==
  /\ nice_state_r # "sbuf" => sbuf_cnt_r = 0 /\ sbuf_cmd_cnt_r = 0
  /\ nice_state_r # "rowsum" => rowbuf_cnt_r = 0 /\ rcv_data_buf_idx = 0
  /\ nice_state_r \in {"lbuf", "sbuf"} => ~rcv_data_buf_valid
  /\ nice_state_r = "IDLE" => /\ nice_out = -1
                              /\ rcv_data_buf_valid => 0 \notin start.known
  /\ nice_state_r # "IDLE" => start.op = nice_state_r

\* The instruction has sent n commands, for consecutive words.
Accessed(n) == accesses = n /\ maddr_acc_r % MemWords = Cell(n)

\* lbuf is at the answer for word lbuf_cnt_r.
Loading == nice_state_r = "lbuf" =>
  /\ Accessed(lbuf_cnt_r + 1) /\ nice_out = Loaded(lbuf_cnt_r)
  /\ nice_mem = start.mem
  /\ \A n \in Columns : n < lbuf_cnt_r => rowbuf_r[n] = Loaded(n)

\* sbuf is at the answer for word sbuf_cnt_r; its words up to there are written.
Storing == nice_state_r = "sbuf" =>
  /\ Accessed(sbuf_cnt_r + 1) /\ nice_out = 0
  /\ sbuf_cmd_cnt_r = IF sbuf_cnt_r = clonum THEN clonum ELSE sbuf_cnt_r + 1
  /\ \A n \in Columns : n # 0 \/ n \in start.known => rowbuf_r[n] = start.row[n]
  /\ \A n \in 0..sbuf_cnt_r : nice_mem[Cell(n)] = start.row[n]
  /\ \A w \in Cells : (w - start.base) % MemWords > clonum => nice_mem[w] = start.mem[w]

\* rowsum takes five steps: an answer is sampled, and added up a cycle later.
Kept(n)  == rowbuf_r[n] = start.row[n]
Added(n) == rowbuf_r[n] = (start.row[n] + Loaded(n)) % NiceMod
Holds(n) == rcv_data_buf_valid /\ rcv_data_buf_idx = n /\ rcv_data_buf = Loaded(n)
Sum2 == (Loaded(1) + Loaded(0)) % NiceMod
Sum3 == (Loaded(2) + Sum2) % NiceMod
SumStep(p) ==
  CASE p = 0 -> /\ rowbuf_cnt_r = 0 /\ ~rcv_data_buf_valid /\ rcv_data_buf_idx = 0
                /\ nice_out = Loaded(0) /\ Accessed(1) /\ Kept(1) /\ Kept(2)
    [] p = 1 -> /\ rowbuf_cnt_r = 1 /\ Holds(0)
                /\ nice_out = Loaded(1) /\ Accessed(2) /\ Kept(1) /\ Kept(2)
    [] p = 2 -> /\ rowbuf_cnt_r = 2 /\ Holds(1) /\ rowsum_acc_r = Loaded(0)
                /\ nice_out = Loaded(2) /\ Accessed(3) /\ Kept(1) /\ Kept(2)
    [] p = 3 -> /\ rowbuf_cnt_r = 0 /\ Holds(2) /\ rowsum_acc_r = Sum2
                /\ nice_out = -1 /\ accesses = 3 /\ Added(1) /\ Kept(2)
    [] p = 4 -> /\ rowbuf_cnt_r = 0 /\ ~rcv_data_buf_valid /\ rcv_data_buf_idx = 2
                /\ rowsum_acc_r = Sum3
                /\ nice_out = -1 /\ accesses = 3 /\ Added(1) /\ Added(2)
Summing == nice_state_r = "rowsum" =>
  /\ nice_mem = start.mem /\ 0 \notin start.known
  /\ \E p \in 0..4 : SumStep(p)

\* An instruction that has ended did what its description says.
Ended == nice_state_r = "IDLE" /\ start.op # "none" =>
  /\ accesses = clonum + 1
  /\ \A n \in start.known :
       /\ rowbuf_r[n] = RowExpected(n)
       /\ start.op = "sbuf" => nice_mem[Cell(n)] = start.row[n]
  /\ \A w \in Cells :
       (start.op # "sbuf" \/ (w - start.base) % MemWords > clonum) => nice_mem[w] = start.mem[w]

Exactly == Rests /\ Loading /\ Storing /\ Summing /\ Ended
NiceInv == NiceTypes /\ (~SlowMem => Exactly)

-----------------------------------------------------------------------------
\* A remainder just above and just below the modulus.
LEMMA NearMod ==
  ASSUME NEW m \in Nat, m > 0, NEW x \in Int
  PROVE  /\ x \in 0..(m - 1) => x % m = x
         /\ x \in m..(2 * m - 1) => x % m = x - m
         /\ x < 0 /\ x >= -m => x % m = x + m
BY SMT

LEMMA Constants ==
  /\ MemWords \in Nat /\ MemWords > 2 /\ NiceMod \in Nat /\ NiceMod > 0
  /\ clonum = 2 /\ Columns = 0..2 /\ Columns = {0, 1, 2} /\ Bases \subseteq Cells
  BY NiceAssumption DEF clonum, Columns, Cells

\* The words of a row lie one after the other, and apart.
LEMMA RowCells ==
  ASSUME NEW b \in Cells, NEW n \in 0..3
  PROVE  /\ Nth(b, n) \in Cells /\ Nth(b, 0) = b
         /\ n < 3 => /\ (Nth(b, n) + 1) % MemWords = Nth(b, n + 1)
                     /\ (Nth(b, n) - b) % MemWords = n
<1>1. MemWords \in Nat /\ MemWords > 2
  BY Constants
<1>2. Nth(b, n) = IF b + n < MemWords THEN b + n ELSE b + n - MemWords
  BY <1>1, NearMod DEF Nth, Cells
<1>3. n < 3 => Nth(b, n + 1) = IF b + n + 1 < MemWords THEN b + n + 1 ELSE b + n + 1 - MemWords
  BY <1>1, NearMod DEF Nth, Cells
<1>4. Nth(b, n) \in Cells
  BY <1>1, <1>2 DEF Cells
<1>5. Nth(b, 0) = b
  BY <1>1, NearMod DEF Nth, Cells
<1>6. n < 3 => (Nth(b, n) + 1) % MemWords = Nth(b, n + 1)
  <2>1. MemWords % MemWords = 0
    BY <1>1, NearMod
  <2> QED BY <1>1, <1>2, <1>3, <2>1, NearMod DEF Cells
<1>7. n < 3 => (Nth(b, n) - b) % MemWords = n
  BY <1>1, <1>2, NearMod DEF Cells
<1> QED BY <1>4, <1>5, <1>6, <1>7

\* Reducing a part of a sum changes nothing.
LEMMA SumOfThree ==
  ASSUME NEW m \in Nat, m > 0, NEW x \in 0..(m - 1), NEW y \in 0..(m - 1), NEW z \in 0..(m - 1)
  PROVE  (z + ((y + x) % m)) % m = (x + y + z) % m
<1>1. (y + x) % m = IF y + x < m THEN y + x ELSE y + x - m
  BY NearMod
<1>2. CASE y + x < m
  BY <1>1, <1>2
<1>3. CASE y + x >= m
  <2>1. x + y + z = m + (z + (y + x - m)) /\ z + (y + x - m) \in 0..(2 * m - 1)
    BY <1>3
  <2> DEFINE s == z + (y + x - m)
  <2>2. s < m => s % m = s /\ (m + s) % m = s
    BY <1>3, NearMod
  <2>3. s >= m => s % m = s - m
    BY <1>3, NearMod
  <2>4. s >= m => (m + s) % m = s - m
    BY <1>3, SMT
  <2> QED BY <1>1, <1>3, <2>1, <2>2, <2>3, <2>4
<1> QED BY <1>2, <1>3

-----------------------------------------------------------------------------
(* One clock edge. *)

\* Every register keeps its width, whatever the memory does.
LEMMA EdgeTypes ==
  ASSUME NiceTypes, NEW cmd_ready \in BOOLEAN, NEW answers \in BOOLEAN, NEW rsp_ready \in BOOLEAN,
         answers => nice_out # -1, Edge(cmd_ready, answers, rsp_ready)
  PROVE  NiceTypes'
<1> USE Constants
<1>1. /\ nice_state_r' \in NiceOps \cup {"IDLE"}
      /\ nice_req' \in NiceOps \cup {"none"} /\ nice_req_rs1' \in Cells
  BY DEF NiceTypes, NiceTypeOk, Edge, NiceOps
<1>2. /\ lbuf_cnt_r' \in 0..2 /\ sbuf_cnt_r' \in 0..2 /\ sbuf_cmd_cnt_r' \in 0..2
      /\ rowbuf_cnt_r' \in 0..2 /\ rcv_data_buf_idx' \in 0..2
  <2>1. /\ lbuf_cnt_r \in 0..2 /\ sbuf_cnt_r \in 0..2 /\ sbuf_cmd_cnt_r \in 0..2
        /\ rowbuf_cnt_r \in 0..2 /\ rcv_data_buf_idx \in 0..2
    BY DEF NiceTypes, NiceTypeOk
  <2>2. \A n \in 0..2 : NextCount(n) \in 0..2
    BY DEF NextCount
  <2>3. /\ lbuf_cnt_r' \in {0, lbuf_cnt_r, NextCount(lbuf_cnt_r)}
        /\ sbuf_cnt_r' \in {0, sbuf_cnt_r, NextCount(sbuf_cnt_r)}
        /\ sbuf_cmd_cnt_r' \in {0, sbuf_cmd_cnt_r, NextCount(sbuf_cmd_cnt_r)}
    BY DEF Edge
  <2>4. /\ rowbuf_cnt_r' \in {0, rowbuf_cnt_r} \/ (rowbuf_cnt_r # 2 /\ rowbuf_cnt_r' = rowbuf_cnt_r + 1)
        /\ rcv_data_buf_idx' \in {0, rowbuf_cnt_r, rcv_data_buf_idx}
    BY DEF Edge
  <2> QED BY <2>1, <2>2, <2>3, <2>4
<1>3. rcv_data_buf_valid' \in BOOLEAN
  BY DEF Edge
<1>4. nice_out \in Values \cup {-1} /\ (answers => nice_out \in Values)
  BY DEF NiceTypes, NiceTypeOk, Values
<1>5. rcv_data_buf' \in Values
  BY <1>4 DEF NiceTypes, NiceTypeOk, Edge, Values
<1>6. \A x, y \in Values : (x + y) % NiceMod \in Values
  BY DEF Values
<1>7. rowsum_acc_r' \in Values
  BY <1>6 DEF NiceTypes, NiceTypeOk, Edge, Values
<1>8. rowbuf_r' \in [Columns -> Values]
  <2>1. rowbuf_r \in [Columns -> Values] /\ rcv_data_buf \in Values
    BY DEF NiceTypes, NiceTypeOk, Columns, Values
  <2>2. \E n \in Columns, v \in Values : rowbuf_r' = [rowbuf_r EXCEPT ![n] = v] \/ rowbuf_r' = rowbuf_r
    BY <1>4, <1>6, <2>1 DEF NiceTypes, NiceTypeOk, Edge
  <2> QED BY <2>1, <2>2
<1>9. /\ (nice_req_rs1 % MemWords) \in Cells
      /\ (maddr_acc_r % MemWords) \in Cells
  BY DEF NiceTypes, Cells
<1>10. cmd_maddr \in Cells
  BY <1>9 DEF cmd_maddr
<1>11. maddr_acc_r' \in Nat /\ accesses' \in Nat
  BY <1>10 DEF NiceTypes, Edge, Cells
<1>12. nice_mem' \in [Cells -> Values]
  <2>1. rowbuf_r \in [Columns -> Values] /\ nice_mem \in [Cells -> Values] /\ sbuf_cmd_cnt_r \in Columns
    BY DEF NiceTypes, NiceTypeOk, Columns, Values, Cells
  <2>2. nice_mem' = nice_mem \/ nice_mem' = [nice_mem EXCEPT ![cmd_maddr] = rowbuf_r[sbuf_cmd_cnt_r]]
    BY DEF Edge
  <2> QED BY <1>10, <2>1, <2>2
<1>13. nice_out' \in -1..(NiceMod - 1)
  <2>1. nice_mem[cmd_maddr] \in Values
    BY <1>10 DEF NiceTypes, NiceTypeOk, Values, Cells
  <2>2. nice_out' \in {0, -1, nice_out, nice_mem[cmd_maddr]}
    BY DEF Edge
  <2> QED BY <1>4, <2>1, <2>2 DEF Values
<1>14. start' \in Starts
  <2>1. CASE start' = start
    BY <2>1 DEF NiceTypes
  <2>2. CASE start' # start
    <3>1. /\ nice_req # "none"
          /\ start' = [op |-> nice_req, base |-> nice_req_rs1,
                       row |-> rowbuf_r, mem |-> nice_mem, known |-> Known(nice_req)]
      BY <2>2 DEF Edge
    <3>2. nice_req \in NiceOps /\ rowbuf_r \in [Columns -> Values] /\ nice_mem \in [Cells -> Values]
      BY <3>1 DEF NiceTypes, NiceTypeOk, Columns, Values, Cells
    <3>3. Known(nice_req) \in SUBSET Columns
      BY <3>2 DEF NiceTypes, Starts, Known, NiceOps, Columns
    <3> QED BY <3>1, <3>2, <3>3 DEF NiceTypes, Starts
  <2> QED BY <2>1, <2>2
<1> QED BY <1>1, <1>2, <1>3, <1>5, <1>7, <1>8, <1>11, <1>12, <1>13, <1>14
      DEF NiceTypes, NiceTypeOk, Values, Columns, Cells

\* An edge with a memory that takes the commands of a started instruction at
\* once and answers in the next cycle.
PromptEdge(cmd_ready, answers, rsp_ready) ==
  /\ cmd_ready \in BOOLEAN /\ rsp_ready \in BOOLEAN
  /\ answers = (nice_out # -1)
  /\ nice_state_r # "IDLE" => cmd_ready
  /\ nice_state_r # "rowsum" => rsp_ready
  /\ Edge(cmd_ready, answers, rsp_ready)

\* No instruction begins: the last one stays as it ended, word 0 of the row
\* buffer excepted.
LEMMA StaysIdle ==
  ASSUME NiceTypes, Exactly, nice_state_r = "IDLE", NEW c, NEW a, NEW r, PromptEdge(c, a, r),
         nice_req = "none" \/ ~c
  PROVE  Exactly'
<1>1. a = FALSE /\ c \in BOOLEAN /\ r \in BOOLEAN /\ Edge(c, a, r) /\ nice_out = -1
  BY DEF PromptEdge, Exactly, Rests
<1>2. /\ nice_state_r' = "IDLE" /\ start' = start /\ nice_mem' = nice_mem /\ nice_out' = -1
      /\ accesses' = accesses
  <2>1. accesses \in Nat
    BY DEF NiceTypes
  <2>2. nice_req = "none" \/ c = FALSE
    BY <1>1
  <2> QED BY <1>1, <2>1, <2>2 DEF Edge, nice_icb_cmd_valid, rsp_valid_rowsum
<1>3. /\ sbuf_cnt_r' = sbuf_cnt_r /\ sbuf_cmd_cnt_r' = sbuf_cmd_cnt_r
      /\ rowbuf_cnt_r' = rowbuf_cnt_r /\ rcv_data_buf_idx' = rcv_data_buf_idx
      /\ rcv_data_buf_valid' = FALSE
  BY <1>1 DEF Edge, nice_icb_cmd_valid, rsp_valid_rowsum
<1>4. rcv_data_buf_idx = 0 /\ (rcv_data_buf_valid => 0 \notin start.known)
  BY DEF Exactly, Rests
<1>5. rowbuf_r \in [Columns -> Values]
  BY DEF NiceTypes, NiceTypeOk, Columns, Values
<1>6. \A n \in start.known : rowbuf_r'[n] = rowbuf_r[n]
  <2>1. \/ rowbuf_r' = rowbuf_r
        \/ /\ rcv_data_buf_valid
           /\ \E v : rowbuf_r' = [rowbuf_r EXCEPT ![0] = v]
    BY <1>1, <1>4 DEF Edge
  <2>2. start.known \subseteq Columns
    BY DEF NiceTypes, Starts
  <2> QED BY <1>4, <1>5, <2>1, <2>2
<1>7. Rests'
  BY <1>2, <1>3 DEF Exactly, Rests
<1>8. Loading' /\ Storing' /\ Summing'
  BY <1>2 DEF Loading, Storing, Summing
<1>9. Ended'
  BY <1>2, <1>6 DEF Exactly, Ended, RowExpected, Loaded, Cell
<1> QED BY <1>7, <1>8, <1>9 DEF Exactly

\* The request itself sends the first command.
LEMMA Begins ==
  ASSUME NiceTypes, Exactly, nice_state_r = "IDLE", NEW c, NEW a, NEW r, PromptEdge(c, a, r),
         nice_req # "none", c
  PROVE  Exactly'
<1>1. a = FALSE /\ c = TRUE /\ r \in BOOLEAN /\ Edge(c, a, r) /\ nice_out = -1
  BY DEF PromptEdge, Exactly, Rests
<1>2. nice_req \in NiceOps /\ nice_req_rs1 \in Cells
  BY DEF NiceTypes, NiceTypeOk
<1>3. cmd_maddr = nice_req_rs1 /\ cmd_maddr = Nth(nice_req_rs1, 0) /\ Instr = nice_req
      /\ nice_icb_cmd_valid
  <2>1. nice_req_rs1 % MemWords = nice_req_rs1
    BY <1>2, Constants, NearMod DEF Cells
  <2>2. Nth(nice_req_rs1, 0) = nice_req_rs1
    BY <1>2, RowCells
  <2> QED BY <2>1, <2>2 DEF cmd_maddr, Instr, nice_icb_cmd_valid
<1>4. start' = [op |-> nice_req, base |-> nice_req_rs1,
                row |-> rowbuf_r, mem |-> nice_mem, known |-> Known(nice_req)]
  BY <1>1 DEF Edge
<1>5. /\ start'.op = nice_req /\ start'.base = nice_req_rs1 /\ start'.row = rowbuf_r
      /\ start'.mem = nice_mem /\ start'.known = Known(nice_req)
  BY <1>4
<1>6. /\ nice_state_r' = nice_req /\ accesses' = 1 /\ maddr_acc_r' = nice_req_rs1 + 1
      /\ nice_mem' = IF nice_req = "sbuf"
                     THEN [nice_mem EXCEPT ![nice_req_rs1] = rowbuf_r[sbuf_cmd_cnt_r]]
                     ELSE nice_mem
      /\ nice_out' = IF nice_req = "sbuf" THEN 0 ELSE nice_mem[nice_req_rs1]
  BY <1>1, <1>3 DEF Edge
<1>7. /\ lbuf_cnt_r' = (IF nice_req = "lbuf" THEN 0 ELSE lbuf_cnt_r)
      /\ sbuf_cnt_r' = 0 /\ sbuf_cmd_cnt_r = 0
      /\ sbuf_cmd_cnt_r' = IF nice_req = "sbuf" THEN 1 ELSE 0
      /\ rowbuf_cnt_r' = 0 /\ rcv_data_buf_idx' = 0 /\ rcv_data_buf_valid' = FALSE
  <2>1. sbuf_cnt_r = 0 /\ sbuf_cmd_cnt_r = 0 /\ rowbuf_cnt_r = 0 /\ rcv_data_buf_idx = 0
    BY DEF Exactly, Rests
  <2>2. lbuf_cnt_r' = (IF nice_req = "lbuf" THEN 0 ELSE lbuf_cnt_r) /\ sbuf_cnt_r' = 0
    BY <1>1, <2>1 DEF Edge
  <2>3. NextCount(0) = 1
    BY Constants DEF NextCount
  <2>4. sbuf_cmd_cnt_r' = IF nice_req = "sbuf" THEN 1 ELSE 0
    BY <1>1, <1>3, <2>1, <2>3 DEF Edge
  <2>5. rowbuf_cnt_r' = 0 /\ rcv_data_buf_idx' = 0 /\ rcv_data_buf_valid' = FALSE
    BY <1>1, <2>1 DEF Edge, rsp_valid_rowsum
  <2> QED BY <2>1, <2>2, <2>4, <2>5
<1>8. rowbuf_r \in [Columns -> Values] /\ nice_mem \in [Cells -> Values]
  BY DEF NiceTypes, NiceTypeOk, Columns, Values, Cells
<1>9. \A n \in Columns : n # 0 \/ 0 \in start.known => rowbuf_r'[n] = rowbuf_r[n]
  <2>1. rcv_data_buf_idx = 0 /\ (rcv_data_buf_valid => 0 \notin start.known)
    BY DEF Exactly, Rests
  <2>2. \/ rowbuf_r' = rowbuf_r
        \/ /\ rcv_data_buf_valid
           /\ \E v : rowbuf_r' = [rowbuf_r EXCEPT ![0] = v]
    BY <1>1, <2>1 DEF Edge
  <2> QED BY <1>8, <2>1, <2>2
<1>10. Accessed(1)'
  <2>1. (nice_req_rs1 + 1) % MemWords = Nth(nice_req_rs1, 1)
    BY DEF Nth
  <2>2. Cell(1)' = Nth(nice_req_rs1, 1)
    BY <1>5 DEF Cell
  <2> QED BY <1>6, <2>1, <2>2 DEF Accessed
<1>11. Loaded(0)' = nice_mem[nice_req_rs1]
  BY <1>2, <1>3, <1>5 DEF Loaded, Nth
<1>12. Rests'
  BY <1>2, <1>5, <1>6, <1>7 DEF Rests, NiceOps
<1>13. Loading'
  BY <1>5, <1>6, <1>7, <1>10, <1>11, Constants DEF Loading, Columns
<1>14. Storing'
  <2> SUFFICES ASSUME nice_req = "sbuf" PROVE Storing'
    BY <1>6 DEF Storing
  <2>1. start'.known = start.known
    BY <1>5 DEF Known
  <2>2. nice_mem' = [nice_mem EXCEPT ![nice_req_rs1] = rowbuf_r[0]]
    BY <1>6, <1>7
  <2>3. \A n \in 0..0 : nice_mem'[Nth(nice_req_rs1, n)] = rowbuf_r[n]
    <3>1. Nth(nice_req_rs1, 0) = nice_req_rs1 /\ nice_mem'[nice_req_rs1] = rowbuf_r[0]
      BY <1>2, <1>3, <1>8, <2>2
    <3> QED BY <3>1
  <2>4. \A w \in Cells : (w - nice_req_rs1) % MemWords > clonum => nice_mem'[w] = nice_mem[w]
    <3>1. (nice_req_rs1 - nice_req_rs1) % MemWords = 0
      BY <1>2, <1>3, RowCells
    <3> QED BY <1>2, <1>8, <2>2, <3>1, Constants
  <2>5. \A n \in Columns : n # 0 \/ n \in start.known => rowbuf_r'[n] = rowbuf_r[n]
    BY <1>9
  <2> QED BY <1>5, <1>6, <1>7, <1>10, <2>1, <2>3, <2>4, <2>5, Constants DEF Storing, Cell
<1>15. Summing'
  <2> SUFFICES ASSUME nice_req = "rowsum" PROVE Summing'
    BY <1>6 DEF Summing
  <2>1. 0 \notin start'.known /\ nice_mem' = start'.mem
    BY <1>5, <1>6 DEF Known
  <2>2. Kept(1)' /\ Kept(2)'
    BY <1>5, <1>9, Constants DEF Kept
  <2>3. nice_out' = Loaded(0)'
    BY <1>6, <1>11
  <2>4. SumStep(0)'
    BY <1>7, <1>10, <2>2, <2>3 DEF SumStep
  <2> QED BY <2>1, <2>4 DEF Summing
<1>16. Ended'
  BY <1>2, <1>6 DEF Ended, NiceOps
<1> QED BY <1>12, <1>13, <1>14, <1>15, <1>16 DEF Exactly

\* The words of the row are values.
LEMMA LoadedValue ==
  ASSUME NiceTypes, NEW n \in Columns
  PROVE  Loaded(n) \in Values /\ Loaded(n) # -1 /\ Loaded(n) = start.mem[Cell(n)]
<1>1. Nth(start.base, n) \in Cells
  BY RowCells, Constants DEF NiceTypes, Starts
<1>2. start.mem \in [Cells -> Values]
  BY DEF NiceTypes, Starts
<1> QED BY <1>1, <1>2, Constants DEF Loaded, Cell, Nth, Values

\* A command of an instruction under way is for its next word.
LEMMA Sends ==
  ASSUME NiceTypes, nice_state_r # "IDLE", NEW n \in 1..2, Accessed(n)
  PROVE  /\ cmd_maddr = Cell(n)
         /\ (cmd_maddr + 1) % MemWords = Cell(n + 1)
         /\ nice_mem = start.mem => nice_mem[cmd_maddr] = Loaded(n)
<1>1. cmd_maddr = Cell(n)
  BY DEF cmd_maddr, Accessed
<1>2. (Cell(n) + 1) % MemWords = Cell(n + 1)
  BY RowCells DEF Cell, NiceTypes, Starts
<1>3. n \in Columns
  BY Constants
<1> QED BY <1>1, <1>2, <1>3, LoadedValue

\* An answer of a load that is not the last, and the last one.
LEMMA Loads ==
  ASSUME NiceTypes, Exactly, nice_state_r = "lbuf", NEW c, NEW a, NEW r, PromptEdge(c, a, r)
  PROVE  Exactly'
<1>1. PICK k \in 0..2 : k = lbuf_cnt_r
  BY Constants DEF NiceTypes, NiceTypeOk
<1>2. /\ Accessed(k + 1) /\ nice_out = Loaded(k) /\ nice_mem = start.mem /\ start.op = "lbuf"
      /\ \A n \in Columns : n < k => rowbuf_r[n] = Loaded(n)
  BY <1>1 DEF Exactly, Loading, Rests
<1>3. a = TRUE /\ c = TRUE /\ Edge(c, a, r)
  BY <1>1, <1>2, LoadedValue, Constants DEF PromptEdge
<1>4. /\ rcv_data_buf_valid = FALSE /\ sbuf_cnt_r = 0 /\ sbuf_cmd_cnt_r = 0
      /\ rowbuf_cnt_r = 0 /\ rcv_data_buf_idx = 0
  BY DEF Exactly, Rests, NiceTypes, NiceTypeOk
<1>5. Instr = "lbuf" /\ (nice_icb_cmd_valid <=> k < 2)
  BY <1>1, Constants DEF Instr, nice_icb_cmd_valid, lbuf_cmd_more
<1>6. /\ rcv_data_buf_valid' = FALSE /\ sbuf_cnt_r' = 0 /\ sbuf_cmd_cnt_r' = 0
      /\ rowbuf_cnt_r' = 0 /\ rcv_data_buf_idx' = 0
      /\ nice_mem' = nice_mem /\ start' = start
  BY <1>3, <1>4, <1>5 DEF Edge, rsp_valid_rowsum
<1>7. rowbuf_r' = [rowbuf_r EXCEPT ![k] = Loaded(k)]
  BY <1>1, <1>2, <1>3 DEF Edge
<1>8. \A n \in Columns : n <= k => rowbuf_r'[n] = Loaded(n)
  <2>1. rowbuf_r \in [Columns -> Values] /\ k \in Columns
    BY <1>1, Constants DEF NiceTypes, NiceTypeOk, Columns, Values
  <2> QED BY <1>1, <1>2, <1>7, <2>1, Constants
<1>9. \A n : Loaded(n)' = Loaded(n) /\ Cell(n)' = Cell(n)
  BY <1>6 DEF Loaded, Cell
<1>10. CASE k < 2
  <2>1. nice_state_r' = "lbuf" /\ lbuf_cnt_r' = k + 1
    BY <1>1, <1>3, <1>10, Constants DEF Edge, NextCount, rsp_valid_rowsum
  <2>2. k + 1 \in 1..2
    BY <1>1, <1>10
  <2>3. /\ nice_out' = nice_mem[cmd_maddr] /\ accesses' = accesses + 1
        /\ maddr_acc_r' = cmd_maddr + 1
    BY <1>3, <1>5, <1>10 DEF Edge
  <2>4. nice_out' = Loaded(k + 1) /\ maddr_acc_r' % MemWords = Cell((k + 1) + 1)
    BY <1>2, <2>2, <2>3, Sends
  <2>5. Accessed((k + 1) + 1)'
    BY <1>2, <1>9, <2>2, <2>3, <2>4 DEF Accessed
  <2>6. Loading'
    BY <1>1, <1>2, <1>6, <1>8, <1>9, <2>1, <2>4, <2>5, Constants DEF Loading
  <2>7. Rests'
    BY <1>2, <1>6, <2>1 DEF Rests
  <2> QED BY <2>1, <2>6, <2>7 DEF Exactly, Storing, Summing, Ended
<1>11. CASE k = 2
  <2>1. nice_state_r' = "IDLE"
    BY <1>1, <1>3, <1>11, Constants DEF Edge
  <2>2. nice_out' = -1 /\ accesses' = 3
    BY <1>2, <1>3, <1>5, <1>11 DEF Edge, Accessed
  <2>3. start.known \subseteq Columns
    BY DEF NiceTypes, Starts
  <2>4. \A n \in Columns : rowbuf_r'[n] = Loaded(n)
    BY <1>8, <1>11, Constants
  <2>5. Ended'
    BY <1>2, <1>6, <1>9, <2>2, <2>3, <2>4, Constants DEF Ended, RowExpected
  <2>6. Rests'
    BY <1>6, <2>1, <2>2 DEF Rests
  <2> QED BY <2>1, <2>5, <2>6 DEF Exactly, Loading, Storing, Summing
<1> QED BY <1>1, <1>10, <1>11

\* An answer of a store; the words before the last are written by it.
LEMMA Stores ==
  ASSUME NiceTypes, Exactly, nice_state_r = "sbuf", NEW c, NEW a, NEW r, PromptEdge(c, a, r)
  PROVE  Exactly'
<1>1. PICK k \in 0..2 : k = sbuf_cnt_r
  BY Constants DEF NiceTypes, NiceTypeOk
<1>2. /\ Accessed(k + 1) /\ nice_out = 0 /\ start.op = "sbuf"
      /\ sbuf_cmd_cnt_r = IF k = 2 THEN 2 ELSE k + 1
      /\ \A n \in Columns : n # 0 \/ n \in start.known => rowbuf_r[n] = start.row[n]
      /\ \A n \in 0..k : nice_mem[Cell(n)] = start.row[n]
      /\ \A w \in Cells : (w - start.base) % MemWords > 2 => nice_mem[w] = start.mem[w]
  BY <1>1, Constants DEF Exactly, Storing, Rests
<1>3. a = TRUE /\ c = TRUE /\ Edge(c, a, r)
  <2>1. nice_out # -1
    BY <1>2
  <2> QED BY <2>1 DEF PromptEdge
<1>4. /\ rcv_data_buf_valid = FALSE /\ rowbuf_cnt_r = 0 /\ rcv_data_buf_idx = 0
  BY DEF Exactly, Rests, NiceTypes, NiceTypeOk
<1>5. Instr = "sbuf" /\ (nice_icb_cmd_valid <=> k < 2)
  BY <1>1, <1>2, Constants DEF Instr, nice_icb_cmd_valid
<1>6. /\ rcv_data_buf_valid' = FALSE /\ rowbuf_cnt_r' = 0 /\ rcv_data_buf_idx' = 0
      /\ rowbuf_r' = rowbuf_r /\ start' = start
  BY <1>3, <1>4 DEF Edge, rsp_valid_rowsum
<1>7. \A n : Loaded(n)' = Loaded(n) /\ Cell(n)' = Cell(n)
  BY <1>6 DEF Loaded, Cell
<1>8. CASE k < 2
  <2>1. nice_state_r' = "sbuf" /\ sbuf_cnt_r' = k + 1
    BY <1>1, <1>3, <1>8, Constants DEF Edge, NextCount, rsp_valid_rowsum
  <2>2. k + 1 \in 1..2 /\ k + 1 \in Columns
    BY <1>1, <1>8, Constants
  <2>3. sbuf_cmd_cnt_r' = IF k + 1 = 2 THEN 2 ELSE (k + 1) + 1
    <3>1. NextCount(k + 1) = IF k + 1 = 2 THEN 2 ELSE (k + 1) + 1
      BY Constants DEF NextCount
    <3>2. sbuf_cmd_cnt_r' = NextCount(k + 1)
      BY <1>1, <1>2, <1>3, <1>5, <1>8, Constants DEF Edge
    <3> QED BY <3>1, <3>2
  <2>4. /\ nice_out' = 0 /\ accesses' = accesses + 1 /\ maddr_acc_r' = cmd_maddr + 1
        /\ nice_mem' = [nice_mem EXCEPT ![cmd_maddr] = rowbuf_r[k + 1]]
    <3>1. sbuf_cmd_cnt_r = k + 1
      BY <1>2, <1>8, <2>2
    <3> QED BY <1>3, <1>5, <1>8, <3>1 DEF Edge
  <2>5. cmd_maddr = Cell(k + 1) /\ maddr_acc_r' % MemWords = Cell((k + 1) + 1)
    BY <1>2, <2>2, <2>4, Sends
  <2>6. Accessed((k + 1) + 1)'
    BY <1>2, <1>7, <2>2, <2>4, <2>5 DEF Accessed
  <2>7. \A n \in 0..(k + 1) : Cell(n) \in Cells /\ (Cell(n) - start.base) % MemWords = n
    BY <2>2, RowCells DEF NiceTypes, Starts, Cell
  <2>8. nice_mem \in [Cells -> Values] /\ rowbuf_r[k + 1] = start.row[k + 1]
    BY <1>2, <2>2 DEF NiceTypes, NiceTypeOk, Cells, Values
  <2>9. \A n \in 0..(k + 1) : nice_mem'[Cell(n)] = start.row[n]
    <3> SUFFICES ASSUME NEW n \in 0..(k + 1) PROVE nice_mem'[Cell(n)] = start.row[n]
      OBVIOUS
    <3>1. CASE n = k + 1
      BY <2>2, <2>4, <2>5, <2>7, <2>8, <3>1
    <3>2. CASE n # k + 1
      <4>1. n \in 0..k /\ k + 1 \in 0..(k + 1)
        BY <2>2, <3>2
      <4>2. Cell(n) # Cell(k + 1)
        BY <2>7, <3>2, <4>1
      <4> QED BY <1>2, <2>4, <2>5, <2>7, <2>8, <4>1, <4>2
    <3> QED BY <3>1, <3>2
  <2>10. \A w \in Cells : (w - start.base) % MemWords > 2 => nice_mem'[w] = start.mem[w]
    <3>1. (Cell(k + 1) - start.base) % MemWords = k + 1 /\ k + 1 <= 2
      BY <2>2, <2>7
    <3> QED BY <1>2, <2>4, <2>5, <2>8, <3>1
  <2>11. Storing'
    BY <1>2, <1>6, <1>7, <2>1, <2>2, <2>3, <2>4, <2>6, <2>9, <2>10, Constants DEF Storing
  <2>12. Rests'
    BY <1>2, <1>6, <2>1 DEF Rests
  <2> QED BY <2>1, <2>11, <2>12 DEF Exactly, Loading, Summing, Ended
<1>9. CASE k = 2
  <2>1. nice_state_r' = "IDLE" /\ sbuf_cnt_r' = 0 /\ sbuf_cmd_cnt_r' = 0
    BY <1>1, <1>3, <1>9, Constants DEF Edge
  <2>2. nice_out' = -1 /\ accesses' = 3 /\ nice_mem' = nice_mem
    BY <1>2, <1>3, <1>5, <1>9 DEF Edge, Accessed
  <2>3. start.known \subseteq 0..2
    BY Constants DEF NiceTypes, Starts
  <2>4. \A n \in start.known : rowbuf_r'[n] = start.row[n] /\ nice_mem'[Cell(n)] = start.row[n]
    BY <1>2, <1>6, <1>9, <2>2, <2>3, Constants
  <2>5. Ended'
    BY <1>2, <1>6, <1>7, <2>2, <2>4, Constants DEF Ended, RowExpected
  <2>6. Rests'
    BY <1>6, <2>1, <2>2 DEF Rests
  <2> QED BY <2>1, <2>5, <2>6 DEF Exactly, Loading, Storing, Summing
<1> QED BY <1>1, <1>8, <1>9

\* What a cycle of a sum does to the registers, by whether it has an answer
\* and a sampled word, and whether it ends the sum.
SumCycle(r) ==
  /\ lbuf_cnt_r' = lbuf_cnt_r /\ sbuf_cnt_r' = 0 /\ sbuf_cmd_cnt_r' = 0
  /\ nice_mem' = nice_mem /\ start' = start
  /\ nice_state_r' = IF rsp_valid_rowsum /\ r THEN "IDLE" ELSE "rowsum"
  /\ nice_icb_cmd_valid => /\ nice_out' = nice_mem[cmd_maddr] /\ accesses' = accesses + 1
                           /\ maddr_acc_r' = cmd_maddr + 1
  /\ ~nice_icb_cmd_valid => nice_out' = -1 /\ accesses' = accesses
  /\ nice_out # -1 => /\ rcv_data_buf_valid' = TRUE /\ rcv_data_buf' = nice_out
                      /\ rcv_data_buf_idx' = rowbuf_cnt_r
                      /\ rowbuf_cnt_r' = IF rowbuf_cnt_r = 2 THEN 0 ELSE rowbuf_cnt_r + 1
  /\ nice_out = -1 => /\ rowbuf_cnt_r' = rowbuf_cnt_r
                      /\ rcv_data_buf_valid' = (rsp_valid_rowsum /\ r)
                      /\ rcv_data_buf_idx' = IF rsp_valid_rowsum /\ r THEN 0
                                             ELSE rcv_data_buf_idx
  /\ ~rcv_data_buf_valid => rowsum_acc_r' = rowsum_acc_r /\ rowbuf_r' = rowbuf_r
  /\ rcv_data_buf_valid =>
       /\ rowsum_acc_r' = IF rcv_data_buf_idx = 0 THEN rcv_data_buf
                          ELSE (rcv_data_buf + rowsum_acc_r) % NiceMod
       /\ rowbuf_r' = [rowbuf_r EXCEPT ![rcv_data_buf_idx] = (@ + rcv_data_buf) % NiceMod]

LEMMA SumEdge ==
  ASSUME NiceTypes, Exactly, nice_state_r = "rowsum", NEW c, NEW a, NEW r, PromptEdge(c, a, r)
  PROVE  SumCycle(r)
<1>1. /\ a = (nice_out # -1) /\ c = TRUE /\ r \in BOOLEAN /\ Edge(c, a, r)
  BY DEF PromptEdge
<1>2. sbuf_cnt_r = 0 /\ sbuf_cmd_cnt_r = 0 /\ Instr = "rowsum"
  BY DEF Exactly, Rests, Instr
<1>3. lbuf_cnt_r' = lbuf_cnt_r /\ sbuf_cnt_r' = 0 /\ sbuf_cmd_cnt_r' = 0
  BY <1>1, <1>2 DEF Edge
<1>4. nice_mem' = nice_mem /\ start' = start
  BY <1>1, <1>2 DEF Edge
<1>5. nice_state_r' = IF rsp_valid_rowsum /\ r THEN "IDLE" ELSE "rowsum"
  BY <1>1, <1>2 DEF Edge
<1>6. nice_icb_cmd_valid => /\ nice_out' = nice_mem[cmd_maddr] /\ accesses' = accesses + 1
                            /\ maddr_acc_r' = cmd_maddr + 1
  BY <1>1, <1>2 DEF Edge
<1>7. ~nice_icb_cmd_valid => nice_out' = -1 /\ accesses' = accesses
  <2>1. accesses + 0 = accesses
    BY DEF NiceTypes
  <2> QED BY <1>1, <1>2, <2>1 DEF Edge
<1>8. nice_out # -1 => /\ rcv_data_buf_valid' = TRUE /\ rcv_data_buf' = nice_out
                       /\ rcv_data_buf_idx' = rowbuf_cnt_r
                       /\ rowbuf_cnt_r' = IF rowbuf_cnt_r = 2 THEN 0 ELSE rowbuf_cnt_r + 1
  BY <1>1, Constants DEF Edge
<1>9. nice_out = -1 => /\ rowbuf_cnt_r' = rowbuf_cnt_r
                       /\ rcv_data_buf_valid' = (rsp_valid_rowsum /\ r)
                       /\ rcv_data_buf_idx' = IF rsp_valid_rowsum /\ r THEN 0
                                              ELSE rcv_data_buf_idx
  BY <1>1 DEF Edge
<1>10. ~rcv_data_buf_valid => rowsum_acc_r' = rowsum_acc_r /\ rowbuf_r' = rowbuf_r
  BY <1>1 DEF Edge
<1>11. rcv_data_buf_valid =>
         /\ rowsum_acc_r' = IF rcv_data_buf_idx = 0 THEN rcv_data_buf
                            ELSE (rcv_data_buf + rowsum_acc_r) % NiceMod
         /\ rowbuf_r' = [rowbuf_r EXCEPT ![rcv_data_buf_idx] = (@ + rcv_data_buf) % NiceMod]
  BY <1>1 DEF Edge
<1> QED BY <1>3, <1>4, <1>5, <1>6, <1>7, <1>8, <1>9, <1>10, <1>11 DEF SumCycle

\* A cycle of a sum: one step of five on, or the sum waits for rsp_ready.
LEMMA Sums ==
  ASSUME NiceTypes, Exactly, nice_state_r = "rowsum", NEW c, NEW a, NEW r, PromptEdge(c, a, r)
  PROVE  Exactly'
<1>0. SumCycle(r)
  BY SumEdge
<1>1. /\ nice_mem = start.mem /\ 0 \notin start.known /\ start.op = "rowsum"
      /\ sbuf_cnt_r = 0 /\ sbuf_cmd_cnt_r = 0
  BY DEF Exactly, Summing, Rests
<1>2. PICK p \in 0..4 : SumStep(p)
  BY DEF Exactly, Summing
<1>2a. /\ rcv_data_buf_valid <=> p \in 1..3
       /\ rcv_data_buf_idx = IF p = 0 THEN 0 ELSE IF p = 4 THEN 2 ELSE p - 1
  <2>1. p = 0 \/ p = 1 \/ p = 2 \/ p = 3 \/ p = 4
    BY <1>2
  <2>2. CASE p = 0
    BY <1>2, <2>2 DEF SumStep, Holds
  <2>3. CASE p = 1
    BY <1>2, <2>3 DEF SumStep, Holds
  <2>4. CASE p = 2
    BY <1>2, <2>4 DEF SumStep, Holds
  <2>5. CASE p = 3
    BY <1>2, <2>5 DEF SumStep, Holds
  <2>6. CASE p = 4
    BY <1>2, <2>6 DEF SumStep, Holds
  <2> QED BY <2>1, <2>2, <2>3, <2>4, <2>5, <2>6
<1>3. /\ nice_mem' = nice_mem /\ start' = start /\ sbuf_cnt_r' = 0 /\ sbuf_cmd_cnt_r' = 0
      /\ nice_state_r' = IF rsp_valid_rowsum /\ r THEN "IDLE" ELSE "rowsum"
  BY <1>0 DEF SumCycle
<1>4. /\ \A n : Loaded(n)' = Loaded(n) /\ Cell(n)' = Cell(n)
      /\ Sum2' = Sum2 /\ Sum3' = Sum3
  BY <1>3 DEF Loaded, Cell, Sum2, Sum3
<1>5. /\ Loaded(0) # -1 /\ Loaded(1) # -1 /\ Loaded(2) # -1
  BY LoadedValue, Constants
<1>6. rowbuf_r \in [Columns -> Values] /\ r \in BOOLEAN /\ 1 \in Columns /\ 2 \in Columns
  BY Constants DEF NiceTypes, NiceTypeOk, Columns, Values, PromptEdge
<1>7. rsp_valid_rowsum <=> p = 4
  BY <1>2, <1>2a DEF rsp_valid_rowsum, rowsum_acc_flg, clonum
<1>8. nice_icb_cmd_valid <=> p \in 0..1
  BY <1>2, <1>2a DEF nice_icb_cmd_valid, rowsum_acc_flg, clonum
<1>9. ASSUME nice_state_r' = "rowsum", \E q \in 0..4 : SumStep(q)'
      PROVE  Exactly'
  <2>1. Summing'
    BY <1>1, <1>3, <1>9 DEF Summing
  <2>2. Rests'
    BY <1>1, <1>3, <1>9 DEF Rests
  <2> QED BY <1>9, <2>1, <2>2 DEF Exactly, Loading, Storing, Ended
<1>10. CASE p = 0
  <2>1. /\ rowbuf_cnt_r = 0 /\ ~rcv_data_buf_valid /\ nice_out = Loaded(0) /\ Accessed(1)
        /\ Kept(1) /\ Kept(2)
    BY <1>2, <1>10 DEF SumStep
  <2>2. /\ nice_out' = nice_mem[cmd_maddr] /\ accesses' = accesses + 1
        /\ maddr_acc_r' = cmd_maddr + 1
    BY <1>8, <1>10, <1>0 DEF SumCycle
  <2>3. nice_out' = Loaded(1) /\ maddr_acc_r' % MemWords = Cell(1 + 1)
    BY <1>1, <2>1, <2>2, Sends
  <2>4. Accessed(2)'
    BY <1>4, <2>1, <2>2, <2>3 DEF Accessed
  <2>5. Holds(0)' /\ rowbuf_cnt_r' = 1
    BY <1>4, <1>5, <2>1, <1>0 DEF SumCycle, Holds
  <2>6. Kept(1)' /\ Kept(2)'
    BY <1>3, <2>1, <1>0 DEF SumCycle, Kept
  <2>7. SumStep(1)'
    BY <1>4, <2>3, <2>4, <2>5, <2>6 DEF SumStep
  <2> QED BY <1>3, <1>7, <1>9, <1>10, <2>7
<1>11. CASE p = 1
  <2>1. /\ rowbuf_cnt_r = 1 /\ Holds(0) /\ nice_out = Loaded(1) /\ Accessed(2)
        /\ Kept(1) /\ Kept(2)
    BY <1>2, <1>11 DEF SumStep
  <2>2. /\ nice_out' = nice_mem[cmd_maddr] /\ accesses' = accesses + 1
        /\ maddr_acc_r' = cmd_maddr + 1
    BY <1>8, <1>11, <1>0 DEF SumCycle
  <2>3. nice_out' = Loaded(2) /\ maddr_acc_r' % MemWords = Cell(2 + 1)
    BY <1>1, <2>1, <2>2, Sends
  <2>4. Accessed(3)'
    BY <1>4, <2>1, <2>2, <2>3 DEF Accessed
  <2>5. Holds(1)' /\ rowbuf_cnt_r' = 2
    BY <1>4, <1>5, <2>1, <1>0 DEF SumCycle, Holds
  <2>6. rowsum_acc_r' = Loaded(0) /\ rowbuf_r' = [rowbuf_r EXCEPT ![0] = (@ + rcv_data_buf) % NiceMod]
    BY <2>1, <1>0 DEF SumCycle, Holds
  <2>7. Kept(1)' /\ Kept(2)'
    BY <1>3, <1>6, <2>1, <2>6 DEF Kept
  <2>8. SumStep(2)'
    BY <1>4, <2>3, <2>4, <2>5, <2>6, <2>7 DEF SumStep
  <2> QED BY <1>3, <1>7, <1>9, <1>11, <2>8
<1>12. CASE p = 2
  <2>1. /\ rowbuf_cnt_r = 2 /\ Holds(1) /\ rowsum_acc_r = Loaded(0)
        /\ nice_out = Loaded(2) /\ accesses = 3 /\ Kept(1) /\ Kept(2)
    BY <1>2, <1>12 DEF SumStep, Accessed
  <2>2. nice_out' = -1 /\ accesses' = 3
    BY <1>8, <1>12, <2>1, <1>0 DEF SumCycle
  <2>3. Holds(2)' /\ rowbuf_cnt_r' = 0
    BY <1>4, <1>5, <2>1, <1>0 DEF SumCycle, Holds
  <2>4. /\ rowsum_acc_r' = Sum2
        /\ rowbuf_r' = [rowbuf_r EXCEPT ![1] = (@ + rcv_data_buf) % NiceMod]
    BY <2>1, <1>0 DEF SumCycle, Holds, Sum2
  <2>5. Added(1)' /\ Kept(2)'
    BY <1>3, <1>4, <1>6, <2>1, <2>4 DEF Kept, Added, Holds
  <2>6. SumStep(3)'
    BY <1>4, <2>2, <2>3, <2>4, <2>5 DEF SumStep
  <2> QED BY <1>3, <1>7, <1>9, <1>12, <2>6
<1>13. CASE p = 3
  <2>1. /\ rowbuf_cnt_r = 0 /\ Holds(2) /\ rowsum_acc_r = Sum2
        /\ nice_out = -1 /\ accesses = 3 /\ Added(1) /\ Kept(2)
    BY <1>2, <1>13 DEF SumStep
  <2>2. nice_out' = -1 /\ accesses' = 3
    BY <1>8, <1>13, <2>1, <1>0 DEF SumCycle
  <2>3. rcv_data_buf_valid' = FALSE /\ rcv_data_buf_idx' = 2 /\ rowbuf_cnt_r' = 0
    <3>1. ~rsp_valid_rowsum
      BY <1>7, <1>13
    <3>2. rcv_data_buf_valid' = (rsp_valid_rowsum /\ r)
      BY <2>1, <1>0 DEF SumCycle
    <3> QED BY <2>1, <3>1, <3>2, <1>0 DEF SumCycle, Holds
  <2>4. /\ rowsum_acc_r' = Sum3
        /\ rowbuf_r' = [rowbuf_r EXCEPT ![2] = (@ + rcv_data_buf) % NiceMod]
    BY <2>1, <1>0 DEF SumCycle, Holds, Sum3
  <2>5. Added(1)' /\ Added(2)'
    BY <1>3, <1>4, <1>6, <2>1, <2>4 DEF Kept, Added, Holds
  <2>6. SumStep(4)'
    BY <1>4, <2>2, <2>3, <2>4, <2>5 DEF SumStep
  <2> QED BY <1>3, <1>7, <1>9, <1>13, <2>6
<1>14. CASE p = 4
  <2>1. /\ rowbuf_cnt_r = 0 /\ ~rcv_data_buf_valid /\ rcv_data_buf_idx = 2
        /\ rowsum_acc_r = Sum3 /\ nice_out = -1 /\ accesses = 3 /\ Added(1) /\ Added(2)
    BY <1>2, <1>14 DEF SumStep
  <2>2. nice_out' = -1 /\ accesses' = 3 /\ rowsum_acc_r' = Sum3 /\ rowbuf_r' = rowbuf_r
        /\ rowbuf_cnt_r' = 0
    BY <1>8, <1>14, <2>1, <1>0 DEF SumCycle
  <2>3. Added(1)' /\ Added(2)'
    BY <1>3, <1>4, <2>1, <2>2 DEF Added
  <2>4. CASE ~r
    <3>1. rcv_data_buf_valid' = FALSE /\ rcv_data_buf_idx' = 2 /\ nice_state_r' = "rowsum"
      BY <1>3, <2>1, <2>4, <1>0 DEF SumCycle
    <3>2. SumStep(4)'
      BY <1>4, <2>2, <2>3, <3>1 DEF SumStep
    <3> QED BY <1>9, <3>1, <3>2
  <2>5. CASE r
    <3>1. nice_state_r' = "IDLE" /\ rcv_data_buf_idx' = 0
      BY <1>3, <1>7, <1>14, <2>1, <2>5, <1>0 DEF SumCycle
    <3>2. start.known \subseteq {1, 2}
      BY <1>1, Constants DEF NiceTypes, Starts
    <3>3. Ended'
      BY <1>1, <1>3, <1>4, <2>2, <2>3, <3>2, Constants DEF Ended, RowExpected, Added
    <3>4. Rests'
      BY <1>1, <1>3, <2>2, <3>1 DEF Rests
    <3> QED BY <3>1, <3>3, <3>4 DEF Exactly, Loading, Storing, Summing
  <2> QED BY <1>6, <2>4, <2>5
<1> QED BY <1>2, <1>10, <1>11, <1>12, <1>13, <1>14

LEMMA NiceStarts == NiceInit => NiceInv
<1> SUFFICES ASSUME NiceInit PROVE NiceInv
  OBVIOUS
<1>1. start = [op |-> "none", base |-> 0, row |-> rowbuf_r, mem |-> nice_mem, known |-> {}]
  BY DEF NiceInit
<1>2. NiceTypes
  <2>1. 0 \in Cells /\ 0 \in Values /\ MemAtStart \in [Cells -> Values]
    BY NiceAssumption DEF Cells, Values
  <2>2. rowbuf_r \in [Columns -> Values] /\ nice_mem \in [Cells -> Values]
    BY <2>1 DEF NiceInit, Columns
  <2>3. start \in Starts
    BY <1>1, <2>1, <2>2 DEF Starts
  <2>4. NiceTypeOk
    <3>1. /\ nice_req \in NiceOps \cup {"none"} /\ nice_state_r \in NiceOps \cup {"IDLE"}
          /\ rcv_data_buf_valid \in BOOLEAN
      BY DEF NiceInit
    <3>2. {lbuf_cnt_r, sbuf_cnt_r, sbuf_cmd_cnt_r, rowbuf_cnt_r, rcv_data_buf_idx} \subseteq 0..clonum
      BY Constants DEF NiceInit
    <3>3. {rcv_data_buf, rowsum_acc_r} \subseteq 0..(NiceMod - 1)
      BY <2>1 DEF NiceInit, Values
    <3>4. nice_out \in -1..(NiceMod - 1)
      BY Constants DEF NiceInit
    <3>5. /\ rowbuf_r \in [0..clonum -> 0..(NiceMod - 1)]
          /\ nice_mem \in [0..(MemWords - 1) -> 0..(NiceMod - 1)]
      BY <2>2 DEF Columns, Cells, Values
    <3> QED BY <3>1, <3>2, <3>3, <3>4, <3>5 DEF NiceTypeOk
  <2>5. nice_req_rs1 \in Cells /\ maddr_acc_r \in Nat /\ accesses \in Nat
    BY <2>1 DEF NiceInit
  <2> QED BY <2>3, <2>4, <2>5 DEF NiceTypes
<1>3. Exactly
  <2>1. start.op = "none"
    BY <1>1
  <2> QED BY <2>1 DEF Exactly, Rests, Loading, Storing, Summing, Ended, NiceInit
<1> QED BY <1>2, <1>3 DEF NiceInv

LEMMA NiceSteps == NiceInv /\ [NiceNext]_niceVars => NiceInv'
<1>1. ASSUME NiceInv, NiceNext PROVE NiceInv'
  <2>1. PICK c, a, r \in BOOLEAN :
          /\ a => nice_out # -1
          /\ ~SlowMem => /\ a = (nice_out # -1)
                         /\ nice_state_r # "IDLE" => c
          /\ nice_state_r # "rowsum" => r
          /\ Edge(c, a, r)
    BY <1>1 DEF NiceNext
  <2>2. NiceTypes'
    BY <1>1, <2>1, EdgeTypes DEF NiceInv
  <2>3. ASSUME ~SlowMem PROVE Exactly'
    <3>1. PromptEdge(c, a, r) /\ NiceTypes /\ Exactly
      BY <1>1, <2>1, <2>3 DEF PromptEdge, NiceInv
    <3>2. nice_state_r \in NiceOps \cup {"IDLE"}
      BY <3>1 DEF NiceTypes, NiceTypeOk
    <3>3. CASE nice_state_r = "IDLE" /\ (nice_req = "none" \/ ~c)
      BY <3>1, <3>3, StaysIdle
    <3>4. CASE nice_state_r = "IDLE" /\ nice_req # "none" /\ c
      BY <3>1, <3>4, Begins
    <3>5. CASE nice_state_r = "lbuf"
      BY <3>1, <3>5, Loads
    <3>6. CASE nice_state_r = "sbuf"
      BY <3>1, <3>6, Stores
    <3>7. CASE nice_state_r = "rowsum"
      BY <3>1, <3>7, Sums
    <3> QED BY <3>2, <3>3, <3>4, <3>5, <3>6, <3>7 DEF NiceOps
  <2> QED BY <2>2, <2>3 DEF NiceInv
<1>2. ASSUME NiceInv, UNCHANGED niceVars PROVE NiceInv'
  <2>1. NiceTypes'
    BY <1>2 DEF NiceInv, niceVars, NiceTypes, NiceTypeOk
  <2>2. Exactly => Exactly'
    <3>1. Rests => Rests'
      BY <1>2 DEF niceVars, Rests
    <3>2. Loading => Loading'
      BY <1>2 DEF niceVars, Loading, Accessed, Cell, Loaded
    <3>3. Storing => Storing'
      BY <1>2 DEF niceVars, Storing, Accessed, Cell, Loaded
    <3>4. \A p : SumStep(p) => SumStep(p)'
      BY <1>2 DEF niceVars, SumStep, Accessed, Cell, Kept, Added, Holds, Sum2, Sum3, Loaded
    <3>5. Summing => Summing'
      BY <1>2, <3>4 DEF niceVars, Summing
    <3>6. Ended => Ended'
      BY <1>2 DEF niceVars, Ended, RowExpected, Cell, Loaded
    <3> QED BY <3>1, <3>2, <3>3, <3>5, <3>6 DEF Exactly
  <2> QED BY <1>2, <2>1, <2>2 DEF NiceInv
<1> QED BY <1>1, <1>2

\* The invariant holds in every state of the co-processor.
THEOREM NiceInvariant == NiceSpec => []NiceInv
<1> QED BY NiceStarts, NiceSteps, PTL DEF NiceSpec

\* No counter leaves the row and no word its width, whatever the memory does.
THEOREM NiceTypeCorrect == NiceSpec => []NiceTypeOk
<1>1. NiceInv => NiceTypeOk
  BY DEF NiceInv, NiceTypes
<1> QED BY <1>1, NiceInvariant, PTL

\* With a memory that takes the commands of a started instruction at once and
\* answers in the next cycle, as the DTCM does, every instruction makes its
\* three accesses and leaves memory, row buffer and sum as it should, whatever
\* the one before left behind and however long the result has to wait.
THEOREM NiceExact == NiceSpec => [](~SlowMem => NiceInstructionsExact)
<1>1. NiceInv => (~SlowMem => NiceInstructionsExact)
  <2> SUFFICES ASSUME NiceTypes, Exactly PROVE NiceInstructionsExact
    BY DEF NiceInv
  <2>1. DOMAIN nice_mem = Cells
    BY DEF NiceTypes, NiceTypeOk, Cells
  <2>2. nice_state_r = "IDLE" /\ start.op # "none" =>
          /\ accesses = clonum + 1 /\ nice_out = -1
          /\ \A n \in start.known :
               /\ rowbuf_r[n] = RowExpected(n)
               /\ start.op = "sbuf" => nice_mem[(start.base + n) % MemWords] = start.row[n]
          /\ \A w \in DOMAIN nice_mem :
               (start.op # "sbuf" \/ (w - start.base) % MemWords > clonum) => nice_mem[w] = start.mem[w]
    BY <2>1 DEF Exactly, Rests, Ended, Cell, Nth
  <2>3. ASSUME rsp_valid_rowsum
        PROVE  rowsum_acc_r = (Loaded(0) + Loaded(1) + Loaded(2)) % NiceMod
    <3>1. PICK p \in 0..4 : SumStep(p)
      BY <2>3 DEF rsp_valid_rowsum, Exactly, Summing
    <3>2. rcv_data_buf_idx = 2 /\ ~rcv_data_buf_valid
      BY <2>3, Constants DEF rsp_valid_rowsum, rowsum_acc_flg
    <3>3. p = 4
      <4>1. p = 0 \/ p = 1 \/ p = 2 \/ p = 3 \/ p = 4
        BY <3>1
      <4> QED BY <3>1, <3>2, <4>1 DEF SumStep, Holds
    <3>4. rowsum_acc_r = Sum3
      BY <3>1, <3>3 DEF SumStep
    <3>5. Loaded(0) \in Values /\ Loaded(1) \in Values /\ Loaded(2) \in Values
      BY LoadedValue, Constants
    <3> QED BY <3>4, <3>5, SumOfThree, Constants DEF Sum3, Sum2, Values
  <2> QED BY <2>2, <2>3 DEF NiceInstructionsExact
<1> QED BY <1>1, NiceInvariant, PTL

=============================================================================
