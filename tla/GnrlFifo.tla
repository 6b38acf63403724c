------------------------------ MODULE GnrlFifo ------------------------------
(***************************************************************************)
(* sirv_gnrl_fifo: the synchronous FIFO every ICB component of the SoC is  *)
(* built from.  A bit vector is the set of the indices of its 1 bits.  One *)
(* step is one rising edge of clk; the inputs of that cycle (i_vld, i_dat, *)
(* o_rdy) are the environment's choice.                                    *)
(***************************************************************************)
EXTENDS Integers, FiniteSets, Sequences

CONSTANTS DP,         \* depth, at least 1 (a depth of 0 is a wire)
          DAT,        \* the payloads
          CUT_READY   \* read at depth 1 only: is i_rdy cut from o_rdy?

ASSUME FifoAssumption == /\ DP \in Nat \ {0}
                         /\ CUT_READY \in BOOLEAN

VARIABLES rptr_vec_r,   \* one-hot read pointer
          wptr_vec_r,   \* one-hot write pointer
          vec_r,        \* DP+1 bit thermometer code of the occupancy
          fifo_rf_r     \* the storage, not reset

fifoVars == <<rptr_vec_r, wptr_vec_r, vec_r, fifo_rf_r>>

FifoTypeOk == /\ rptr_vec_r \subseteq 0..(DP - 1)
              /\ wptr_vec_r \subseteq 0..(DP - 1)
              /\ vec_r \subseteq 0..DP
              /\ fifo_rf_r \in [0..(DP - 1) -> DAT]

-----------------------------------------------------------------------------
\* Slips the proofs and runs must notice: a pointer that does not wrap, a
\* pop that clears the whole occupancy code.
NextPtrNoWrap(ptr) == {b + 1 : b \in ptr}
VecPopAll(vec)     == {0}

\* A pointer moves one place up; the top place wraps to bit 0.
NextPtr(ptr) == IF (DP - 1) \in ptr THEN {0}
                                    ELSE {b + 1 : b \in ptr}

\* {vec_r[DP-1:0], 1'b1} and vec_r >> 1.
VecPush(vec) == {0} \cup {b + 1 : b \in vec \ {DP}}
VecPop(vec)  == {b - 1 : b \in vec \ {0}}

\* i_vec and o_vec are both vec_r[DP:1].
Full   == DP \in vec_r
o_vld  == 1 \in vec_r

\* Ready with CUT_READY clear at depth 1 also while the entry is popped.
i_rdy(o_rdy) == \/ ~Full
                \/ DP = 1 /\ ~CUT_READY /\ o_vld /\ o_rdy

\* The one-hot read mux: the entry whose read-pointer bit is set.
ReadEntry == CHOOSE b \in 0..(DP - 1) : b \in rptr_vec_r
o_dat     == fifo_rf_r[ReadEntry]

\* Every storage word whose write-pointer bit is set takes the input.
Written(dat) == [b \in 0..(DP - 1) |-> IF b \in wptr_vec_r THEN dat
                                                         ELSE fifo_rf_r[b]]

-----------------------------------------------------------------------------
FifoInit == /\ rptr_vec_r = {0}
            /\ wptr_vec_r = {0}
            /\ vec_r = {0}
            /\ fifo_rf_r \in [0..(DP - 1) -> DAT]

\* wen & ~ren.
Push(dat) == /\ ~Full
             /\ wptr_vec_r' = NextPtr(wptr_vec_r)
             /\ vec_r' = VecPush(vec_r)
             /\ fifo_rf_r' = Written(dat)
             /\ UNCHANGED rptr_vec_r

\* ren & ~wen.
Pop == /\ o_vld
       /\ rptr_vec_r' = NextPtr(rptr_vec_r)
       /\ vec_r' = VecPop(vec_r)
       /\ UNCHANGED <<wptr_vec_r, fifo_rf_r>>

\* wen & ren: both pointers move, the occupancy code is not enabled.
PushPop(dat) == /\ o_vld
                /\ i_rdy(TRUE)
                /\ rptr_vec_r' = NextPtr(rptr_vec_r)
                /\ wptr_vec_r' = NextPtr(wptr_vec_r)
                /\ fifo_rf_r' = Written(dat)
                /\ UNCHANGED vec_r

FifoNext == \/ \E dat \in DAT : Push(dat) \/ PushPop(dat)
            \/ Pop

FifoSpec == FifoInit /\ [][FifoNext]_fifoVars

-----------------------------------------------------------------------------
(* The abstract value: a queue, oldest entry first. *)
Count == Cardinality(vec_r) - 1
Wrap(x) == IF x < DP THEN x ELSE x - DP
Queued == [k \in 1..Count |-> fifo_rf_r[Wrap(ReadEntry + k - 1)]]

BQ == INSTANCE BoundedQueue WITH queue <- Queued, Capacity <- DP,
                                 Values <- DAT,
                                 PassThrough <- (DP = 1 /\ ~CUT_READY)

\* The FIFO implements a bounded queue: nothing is lost, duplicated or
\* reordered, whatever the pattern of pushes and pops and wherever the
\* pointers wrap (sirv_gnrl_fifo keeps occupancy and pointers separately).
ImplementsQueue == BQ!Spec

\* The occupancy code and the two pointers, updated by different enables,
\* never disagree: the write pointer is always Count places after the read
\* pointer, both are one-hot and the code is a thermometer.
PointersAgree ==
  \E r \in 0..(DP - 1), n \in 0..DP :
    /\ rptr_vec_r = {r}
    /\ wptr_vec_r = {Wrap(r + n)}
    /\ vec_r = 0..n
=============================================================================
