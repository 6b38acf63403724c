-------------------------------- MODULE MtRun --------------------------------
(***************************************************************************)
(* One run of a multi-threaded benchmark: thread_entry of mt-matmul.c and  *)
(* mt-vvadd.c around one kernel, in every thread, over the barrier.        *)
(* The element C[r][c] is the set of the products (of the addends, for a   *)
(* vector sum) it contains.  A phase is one step: NoRace shows that no     *)
(* thread touches meanwhile what it reads or writes.                       *)
(***************************************************************************)
EXTENDS MtBarrier, MtKernels, SequencesExt

CONSTANT Jobs            \* records [kernel, nc, lda]

ASSUME JobsAssumption == \A job \in Jobs : job.lda \in Nat \ {0}

VARIABLES
  kernel, lda,           \* the program, and DIM_SIZE or DATA_SIZE
  C,                     \* results_data
  copied,                \* elements <<k, i>> of the shared copy of B written so far
  failed                 \* a check found a wrong result

runVars == <<barrierVars, kernel, lda, C, copied, failed>>

VectorSums == {"vvadd0", "vvadd1", "vvadd2", "vvadd3", "vvadd4"}
Rows == IF kernel \in VectorSums THEN {0} ELSE All(lda)
Cols == All(lda)
Complete == IF kernel \in VectorSums THEN {0, 1} ELSE All(lda)
Wrong == {-1}            \* a sum with a term twice, or with a term that is not its own

Matmul(c) ==
  CASE kernel = "ad" -> ad_matmul(c, ncores, lda) [] kernel = "ae" -> ae_matmul(c, ncores, lda)
    [] kernel = "af" -> af_matmul(c, ncores, lda) [] kernel = "ag" -> ag_matmul(c, ncores, lda)
    [] kernel = "ai" -> ai_matmul(c, ncores, lda) [] kernel = "ak" -> ak_matmul(c, ncores, lda)
    [] kernel = "al" -> al_matmul(c, ncores, lda) [] kernel = "am" -> am_matmul(c, ncores, lda)
    [] kernel = "an" -> an_matmul(c, ncores, lda) [] kernel = "ap" -> ap_matmul(c, ncores, lda)
    [] kernel = "aq" -> aq_matmul(c, ncores, lda) [] kernel = "ar" -> ar_matmul(c, ncores, lda)
    [] kernel = "at" -> at_matmul(c, ncores, lda) [] kernel = "av" -> av_matmul(c, ncores, lda)
    [] kernel = "ay" -> ay_matmul(c, ncores, lda) [] kernel = "az" -> az_matmul(c, ncores, lda)
    [] kernel = "bb" -> bb_matmul(c, ncores, lda) [] kernel = "bc" -> bc_matmul(c, ncores, lda)
    [] kernel = "bf" -> bf_matmul(c, ncores, lda) [] kernel = "bh" -> bh_matmul(c, ncores, lda)
    [] kernel = "bj" -> bj_matmul(c, ncores, lda) [] kernel = "bk" -> bk_matmul(c, ncores, lda)
    [] kernel = "bm" -> bm_matmul(c, ncores, lda) [] kernel = "bo" -> bo_matmul(c, ncores, lda)
    [] kernel = "br" -> br_matmul(c, ncores, lda) [] kernel = "bs" -> bs_matmul(c, ncores, lda)
    [] kernel = "ce" -> ce_matmul(c, ncores, lda) [] kernel = "cf" -> cf_matmul(c, ncores, lda)
    [] kernel = "cg" -> cg_matmul(c, ncores, lda) [] kernel = "ci" -> ci_matmul(c, ncores, lda)
    [] kernel = "ck" -> ck_matmul(c, ncores, lda) [] kernel = "cl" -> cl_matmul(c, ncores, lda)
    [] kernel = "cm" -> cm_matmul(c, ncores, lda) [] kernel = "cs" -> cs_matmul(c, ncores, lda)
    [] kernel = "cv" -> cv_matmul(c, ncores, lda) [] kernel = "cy" -> cy_matmul(c, ncores, lda)
    [] kernel = "dc" -> dc_matmul(c, ncores, lda) [] kernel = "df" -> df_matmul(c, ncores, lda)
    [] kernel = "dm" -> dm_matmul(c, ncores, lda) [] kernel = "do" -> do_matmul(c, ncores, lda)
    [] kernel = "dr" -> dr_matmul(c, ncores, lda) [] kernel = "ds" -> ds_matmul(c, ncores, lda)
    [] kernel = "du" -> du_matmul(c, ncores, lda) [] kernel = "dv" -> dv_matmul(c, ncores, lda)

Vvadd(c) ==
  CASE kernel = "vvadd0" -> vvadd0(c, ncores, lda) [] kernel = "vvadd1" -> vvadd1(c, ncores, lda)
    [] kernel = "vvadd2" -> vvadd2(c, ncores, lda) [] kernel = "vvadd3" -> vvadd3(c, ncores, lda)
    [] kernel = "vvadd4" -> vvadd4(c, ncores, lda)

\* z[i] = x[i] + y[i] over the loops of the kernel; 0 and 1 name the addends.
Sums(c, op, ks) ==
  LET loops == Vvadd(c)
  IN  [l \in DOMAIN loops |-> Block(op, lda, {0}, loops[l], ks)]

Check == Block("check", lda, Rows, Cols, Complete)

\* thread_entry of mt-vvadd.c: out of place, then in place on a copy of x
VectorEntry(c) ==
  << <<>>,
     Sums(c, "put", {0, 1}),
     IF c = 0 THEN <<Check, Block("put", lda, {0}, Cols, {0})>> ELSE <<>>,
     Sums(c, "add", {1}),
     IF c = 0 THEN <<Check>> ELSE <<>>,
     <<>> >>

\* thread_entry of mt-matmul.c: the product, a barrier, and everybody verifies
MatrixEntry(c) ==
  LET phases == Matmul(c)
      n == Cardinality(DOMAIN phases)
  IN  [p \in 1 .. n + 1 |-> IF p <= n THEN phases[p] ELSE <<Check>>]

Entry(c) == IF kernel \in VectorSums THEN VectorEntry(c) ELSE MatrixEntry(c)

LastPhase(c) == Cardinality(DOMAIN Entry(c))
Phase(c) == Entry(c)[round[c] + 1]

-----------------------------------------------------------------------------
RunInit ==
  \E job \in Jobs :
    /\ BarrierInit
    /\ ncores = job.nc
    /\ kernel = job.kernel
    /\ lda = job.lda
    /\ C = [r \in Rows |-> [c \in Cols |-> {}]]
    /\ copied = {}
    /\ failed = FALSE

\* The places of a block's elements of C, and of the elements of B it loads.
Addresses(b) == {r * b.dim + c : r \in b.rows, c \in b.cols}
Loaded(b) == {k * b.dim + c : k \in b.ks, c \in b.cols}

\* The element after the end of B that af_matmul loads ahead.
Prefetched == IF kernel = "af" THEN 1 ELSE 0

\* The indices of a block stay in the matrices the program was built for.
Inside(b) ==
  IF b.op = "load" THEN Loaded(b) \subseteq 0 .. lda * lda - 1 + Prefetched
  ELSE /\ b.dim = lda
       /\ b.rows \subseteq Rows
       /\ b.cols \subseteq Cols
       /\ b.ks \subseteq Complete

\* The operands are the ones of the product.
Valid(b, filled) ==
  /\ Inside(b)
  /\ b.op \in {"addT", "putT"} => b.ks \X b.cols \subseteq filled

Overlap(a, b) == a \cap b # {}

\* An element after a block that covers it.
Element(old, b) ==
  IF b.op \in {"put", "putT"} THEN b.ks
  ELSE IF Overlap(old, b.ks) THEN Wrong ELSE old \cup b.ks

Computes(b) == b.op \in {"add", "put", "addT", "putT"}
Writes(b) == Computes(b) \/ b.op = "keep"

\* The steps of a phase in order, on [C, copied, failed]; a check that fails
\* exits from the middle of it.
Perform(s, b) ==
  IF s.failed THEN s ELSE
  CASE b.op \in {"load", "keep"} -> s
    [] b.op = "fill"  -> [s EXCEPT !.copied = @ \cup (b.ks \X b.cols)]
    [] b.op = "check" -> [s EXCEPT !.failed = \E r \in Rows, c \in Cols : s.C[r][c] # Complete]
    [] Computes(b)    ->
         LET valid == Valid(b, s.copied)
             Row(row) == [c \in Cols |-> IF c \notin b.cols THEN row[c]
                                         ELSE IF valid THEN Element(row[c], b) ELSE Wrong]
         IN  [s EXCEPT !.C = [r \in Rows |-> IF r \in b.rows THEN Row(@[r]) ELSE @[r]]]

Work(c) ==
  LET s == FoldLeft(Perform, [C |-> C, copied |-> copied, failed |-> FALSE], Phase(c))
  IN  /\ C' = s.C
      /\ copied' = s.copied
      /\ failed' = (failed \/ s.failed)
      /\ UNCHANGED <<kernel, lda>>

\* A phase, then the barrier that ends it, unless a check finds a wrong sum ...
Step(c) ==
  /\ round[c] + 1 < LastPhase(c)
  /\ Work(c)
  /\ IF failed' # failed THEN Stop(c) ELSE Finish(c)

\* ... or the end of the thread.
Exit(c) == round[c] + 1 = LastPhase(c) /\ Stop(c) /\ Work(c)

InBarrier(c) == Cross(c) /\ UNCHANGED <<kernel, lda, C, copied, failed>>

RunNext == \E c \in Threads : Step(c) \/ Exit(c) \/ InBarrier(c)

\* Some core keeps executing: a waiting thread only spins, so that nothing
\* more is needed.
RunSpec == RunInit /\ [][RunNext]_runVars /\ WF_at(BarrierNext)

-----------------------------------------------------------------------------
\* Two blocks that must not run at the same time: both touch an element of C
\* and one writes it, or one fills what the other fills or reads of the copy.
Conflict(a, b) ==
  \/ /\ Writes(a)
     /\ Writes(b) \/ b.op = "check"
     /\ Overlap(Addresses(a), Addresses(b))
  \/ /\ a.op = "fill"
     /\ b.op \in {"fill", "addT", "putT"}
     /\ Overlap(a.ks, b.ks)
     /\ Overlap(a.cols, b.cols)

\* Phases of two threads that can run at the same time share no element that
\* one of them writes, neither of C nor of the shared copy of B.
NoRace ==
  \A t, u \in Threads :
    (t # u /\ at[t] = "work" /\ at[u] = "work") =>
      \A i \in DOMAIN Phase(t), j \in DOMAIN Phase(u) : ~Conflict(Phase(t)[i], Phase(u)[j])

\* The verify() of mt-matmul.c and the verifyDouble() of mt-vvadd.c never find
\* a wrong element: every term of the sum is there exactly once.
ResultVerified == ~failed

\* The kernels index A, B and C inside the DIM_SIZE x DIM_SIZE matrices of the
\* data set they are built with, but for the one element of Prefetched.
StaysInside ==
  \A t \in Threads : at[t] = "work" => \A i \in DOMAIN Phase(t) : Inside(Phase(t)[i])

\* Every thread comes to its exit: the threads call the barrier equally often.
EveryThreadExits == <>(\A t \in Threads : at[t] = "done")
=============================================================================
