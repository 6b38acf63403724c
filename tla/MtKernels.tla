------------------------------ MODULE MtKernels ------------------------------
(***************************************************************************)
(* The matrix products and vector sums of riscv-tests/mt, each as what one *)
(* core does between two barriers.  A kernel is a function from 1 .. n to  *)
(* phases, with a barrier after every phase but the last; a phase is a     *)
(* sequence of blocks.  A block is a loop nest that updates C over         *)
(* rows \X cols with the products of the index set ks:                     *)
(*   "add"   C[i + j*dim] += A[j*dim + k] * B[k*dim + i], all k of ks      *)
(*   "put"   the same, but C is overwritten with the sum                   *)
(*   "addT", "putT"  B is read from the shared static copy of it           *)
(*   "fill"  that copy is written at ks \X cols                            *)
(*   "check" C is compared with the expected result                        *)
(*   "keep"  C is read and written back: the products are zero             *)
(*   "load"  B[k*dim + i] is read and no product made of it: a transpose   *)
(*           that the core keeps for itself, or a load ahead               *)
(* dim is the row length the code indexes with: lda, or the literal 32.    *)
(* Unrolling shows in the index sets: By(a, b, w) is a loop of stride w    *)
(* over a body written out w times, and overshoots where the loop does.    *)
(***************************************************************************)
EXTENDS Integers, FiniteSets, Sequences

Block(op, dim, rows, cols, ks) ==
  [op |-> op, dim |-> dim, rows |-> rows, cols |-> cols, ks |-> ks]

LoopInclusive(a, b, s) == {x \in a .. b : (x - a) % s = 0}
Loop(a, b, s) == {x \in a .. b - 1 : (x - a) % s = 0}
By(a, b, w) == UNION {x .. x + w - 1 : x \in Loop(a, b, w)}
Ceil(a, b) == (a + b - 1) \div b
All(n) == 0 .. n - 1

\* coreid*(lda/ncores) .. (coreid+1)*(lda/ncores) - 1, in steps of w
OwnOneMore(c, nc, lda, w) == By(c * (lda \div nc), (c + 1) * (lda \div nc) + 1, w)
Own(c, nc, lda, w) == By(c * (lda \div nc), (c + 1) * (lda \div nc), w)

\* n phases that end in a barrier, and what follows the last one
Then(n, Body(_), last) ==
  [p \in 1 .. n + 1 |-> IF p <= n THEN Body(p - 1) ELSE last]
Once(blocks) == <<blocks>>

\* only cores 0 and 1 work; with one core it does both halves
First(c) == c = 0
SecondOnly(c, nc) == c = 1
Second(c, nc) == c = 1 \/ nc = 1
Halves(c, nc, first, second) ==
  (IF First(c) THEN <<first>> ELSE <<>>)
    \o (IF Second(c, nc) THEN <<second>> ELSE <<>>)

-----------------------------------------------------------------------------
\* Rows shared out, no barrier.  B1 to B4 are loaded for the next turn of the
\* loop over j, in its last turn too.
af_matmul(c, nc, lda) ==
  LET rows  == UNION {l .. l + 1 : l \in Loop((c * lda) \div nc, (lda * (1 + c)) \div nc, 2)}
      ahead == {j + 4 : j \in Loop(0, lda, 4)}
  IN  Once(<<Block("load", lda, {}, ahead, IF rows = {} THEN {} ELSE By(0, lda, 4)),
             Block("put", 32, rows, By(0, lda, 4), By(0, lda, 4))>>)

am_matmul(c, nc, lda) ==
  Once(<<Block("put", 32, UNION {l .. l + 1 :
           l \in Loop((c * 32) \div nc, (32 * (1 + c)) \div nc, 2)},
         All(32), By(0, lda, 4))>>)

du_matmul(c, nc, lda) == am_matmul(c, nc, lda)

ap_matmul(c, nc, lda) ==
  Once(<<Block("add", lda, Own(c, nc, lda, 1), All(lda), All(lda))>>)

ar_matmul(c, nc, lda) ==
  Once(<<Block("add", lda, Own(c, nc, lda, 1) \cap All(lda), All(lda), All(lda))>>)

bb_matmul(c, nc, lda) ==
  Once(<<Block("put", lda, Own(c, nc, lda, 4), By(0, lda, 2), All(lda))>>)

do_matmul(c, nc, lda) ==
  Once(<<Block("put", 32, Own(c, nc, 32, 1), All(32), All(32))>>)

bm_matmul(c, nc, lda) ==
  LET space == lda \div nc
      end   == IF c # nc - 1 THEN ((space * c + space) \div 4) * 4 ELSE (lda \div 4) * 4
  IN  Once(<<Block("add", lda, By(space * c, end, 4), By(0, lda, 4), All(lda))>>)

\* Row blocks dealt out in turn.
ak_matmul(c, nc, lda) ==
  Once(<<Block("add", lda,
         UNION {jj .. jj + 15 : jj \in Loop(16 * c, lda, 16 * nc)} \cap All(lda),
         By(0, lda, 8), By(0, lda, 4))>>)

ck_matmul(c, nc, lda) ==
  Once(<<Block("add", lda,
         UNION {By(jj, IF jj + 16 < lda THEN jj + 16 ELSE lda, 4) :
                  jj \in Loop(16 * c, lda, 16 * nc)},
         By(0, lda, 2), By(0, lda, 8))>>)

bs_matmul(c, nc, lda) ==
  Once(<<Block("add", lda,
         UNION {{j, j + nc, j + 2 * nc, j + 3 * nc} : j \in Loop(c, lda, 4 * nc)},
         All(lda), All(lda))>>)

ds_matmul(c, nc, lda) ==
  Once(<<Block("add", lda, UNION {j .. j + 3 : j \in Loop(4 * c, lda, 4 * nc)},
         All(lda), By(0, lda, 2))>>)

\* Columns shared out.
aq_matmul(c, nc, lda) ==
  Once(<<Block("add", lda, All(lda), UNION {{i, i + nc} : i \in Loop(c, lda, 2 * nc)},
         All(lda))>>)

\* bTrans is transposed with the literal 32 as its size.
at_matmul(c, nc, lda) ==
  Once(<<Block("load", lda, {}, All(32), All(32)),
         Block("add", 32, All(lda),
           By((c * lda) \div nc, ((c + 1) * lda) \div nc, 8), By(0, lda, 16))>>)

-----------------------------------------------------------------------------
\* Two halves, one for each of two cores; with one core it does both.
al_matmul(c, nc, lda) == Once(Halves(c, nc,
  Block("add", lda, All(32), 0 .. 15, All(32)), Block("add", lda, All(32), 16 .. 31, All(32))))

bf_matmul(c, nc, lda) == Once(Halves(c, nc,
  Block("put", lda, All(32), 0 .. 15, All(32)), Block("put", lda, All(32), 16 .. 31, All(32))))

cl_second(lda) == <<Block("add", lda, 16 .. 31, 16 .. 31, All(32)),
                    Block("add", lda, 0 .. 15, 16 .. 31, All(32))>>
cl_matmul(c, nc, lda) == Once(
  (IF First(c) THEN <<Block("add", lda, All(32), 0 .. 15, All(32))>> ELSE <<>>)
    \o (IF Second(c, nc) THEN cl_second(lda) ELSE <<>>))

df_first(lda) == <<Block("add", lda, 0 .. 15, 0 .. 15, All(32)),
                   Block("add", lda, 16 .. 31, 0 .. 15, All(32))>>
df_second(lda) == <<Block("add", lda, 16 .. 31, 16 .. 31, All(32)),
                    Block("add", lda, 0 .. 15, 16 .. 31, All(32))>>
df_matmul(c, nc, lda) == Once((IF First(c) THEN df_first(lda) ELSE <<>>)
                                \o (IF Second(c, nc) THEN df_second(lda) ELSE <<>>))

av_first(lda) == Block("add", lda, 0 .. 15, By(0, 32, 8), By(0, 32, 8))
av_second(lda) == Block("add", lda, 16 .. 31, By(0, 32, 8), By(0, 32, 8))
av_matmul(c, nc, lda) == Once(Halves(c, nc, av_first(lda), av_second(lda)))

cv_first(lda) == Block("add", lda, 0 .. 15, By(0, 32, 8), By(0, 32, 8))
cv_second(lda) == Block("add", lda, 16 .. 31, By(0, 32, 8), By(0, 32, 8))
cv_matmul(c, nc, lda) == Once(Halves(c, nc, cv_first(lda), cv_second(lda)))

bo_matmul(c, nc, lda) == Once(Halves(c, nc,
  Block("put", lda, By(0, 16, 2), All(32), By(0, 32, 8)),
  Block("put", lda, By(16, 32, 2), All(32), By(0, 32, 8))))

bk_matmul(c, nc, lda) == Once(Halves(c, nc,
  Block("add", 32, 0 .. 15, By(0, 32, 8), By(0, 32, 16)),
  Block("add", 32, 16 .. 31, By(0, 32, 8), By(0, 32, 16))))

dv_matmul(c, nc, lda) ==
  LET Rows(rows) == <<Block("add", 32, rows, By(0, 32, 8), By(0, 32, 16))>>
  IN  Once(IF c > 1 THEN <<>>
           ELSE (IF c # 0 \/ nc = 1 THEN Rows(0 .. 15) ELSE <<>>)
                  \o (IF First(c) THEN Rows(16 .. 31) ELSE <<>>))

\* The rows of the second half downwards, and the halves of k in the other order.
bh_matmul(c, nc, lda) ==
  LET half == lda \div 2
      Part(rows, m) == Block("add", lda, rows, By(0, lda, 8), half * m .. half * (m + 1) - 1)
  IN  Once((IF First(c) THEN <<Part(0 .. half - 1, 0), Part(0 .. half - 1, 1)>> ELSE <<>>)
        \o (IF Second(c, nc) THEN <<Part(half .. lda - 1, 1), Part(half .. lda - 1, 0)>>
            ELSE <<>>))

bj_matmul(c, nc, lda) == bh_matmul(c, nc, lda)

\* A flat index: 512 elements, 16 rows of 32, for each of the two.
ay_matmul(c, nc, lda) ==
  LET start == c * 512
      end   == (IF nc = 1 THEN 2 ELSE c + 1) * 512
  IN  Once(IF c > 1 THEN <<>>
           ELSE <<Block("put", 32, start \div 32 .. (end \div 32) - 1, By(0, 32, 8), By(0, lda, 2))>>)

az_matmul(c, nc, lda) == ay_matmul(c, nc, lda)

\* Core 1 works from copies of A and B that nobody else uses.
cy_matmul(c, nc, lda) == ay_matmul(c, nc, lda)

\* Each half of the k's to one core, and both add to every element of C.
cf_matmul(c, nc, lda) == Once(Halves(c, nc,
  Block("add", 32, All(32), All(32), 0 .. 15), Block("add", 32, All(32), All(32), 16 .. 31)))

cm_matmul(c, nc, lda) == Once(Halves(c, nc,
  Block("add", 32, All(lda), All(32), 0 .. 15), Block("add", 32, All(32), All(32), 16 .. 31)))

\* Tuned for two cores and 32 rows, otherwise core 0 does everything.
bc_matmul(c, nc, lda) ==
  LET end == IF c = nc - 1 THEN 32 ELSE (c + 1) * 16
      Rows(ks) == Block("add", lda, c * 16 .. end - 1, All(32), ks)
  IN  Once(IF nc = 2 /\ lda = 32 THEN <<Rows(0 .. 15), Rows(16 .. 31)>>
           ELSE IF c > 0 THEN <<>> ELSE <<Block("add", lda, All(lda), All(lda), All(lda))>>)

dc_matmul(c, nc, lda) ==
  LET end == IF c = nc - 1 THEN 32 ELSE (c + 1) * 16
      Rows(ks) == Block("add", lda, c * 16 .. end - 1, All(32), ks)
  IN  Once(IF nc = 2 /\ lda = 32
           THEN IF c = 0 THEN <<Rows(0 .. 15), Rows(16 .. 31)>>
                ELSE <<Rows(16 .. 31), Rows(0 .. 15)>>
           ELSE IF c > 0 THEN <<>> ELSE <<Block("add", lda, All(lda), All(lda), All(lda))>>)

-----------------------------------------------------------------------------
\* Barriers inside the loops keep the cores on the same part of B.
ad_matmul(c, nc, lda) ==
  LET own == lda \div nc
      Body(x) == LET k == 2 * (x % 16)
                 IN  <<Block("add", 32, {c * own + x \div 16}, By(0, 32, 4), {k, k + 1})>>
  IN  Then(own * 16, Body, <<>>)

an_matmul(c, nc, lda) ==
  LET own == lda \div nc
      Body(x) == <<Block("add", lda, {c * own + x \div lda}, All(lda), {x % lda})>>
  IN  Then(own * lda, Body, <<>>)

ag_matmul(c, nc, lda) ==
  LET turns == Ceil(lda, 4)
      Body(x) == LET i == 2 * (x \div turns)
                     k == 4 * (x % turns)
                 IN  <<Block("add", lda, Own(c, nc, lda, 4), {i, i + 1}, k .. k + 3)>>
  IN  Then(Ceil(lda, 2) * turns, Body, <<>>)

cg_matmul(c, nc, lda) == ag_matmul(c, nc, lda)

cs_matmul(c, nc, lda) ==
  LET Body(x) == LET j == c + 2 * nc * (x \div lda)
                 IN  <<Block("put", lda, {j, j + nc}, {x % lda}, All(lda))>>
  IN  Then(Cardinality(Loop(c, lda, 2 * nc)) * lda, Body, <<>>)

ai_matmul(c, nc, lda) ==
  LET start == (c * lda) \div nc
  IN  << <<>>, <<Block("put", lda, start .. start + lda \div nc - 1, By(0, lda, 4), All(lda))>> >>

ci_matmul(c, nc, lda) == ai_matmul(c, nc, lda)

\* B is transposed first, by all the cores, into a shared static array.
ae_matmul(c, nc, lda) ==
  LET own == lda \div nc
      Body(x) == IF x < lda THEN <<Block("fill", lda, {}, Own(c, nc, lda, 1), {x})>>
                 ELSE LET i == 4 * ((x - lda) \div own)
                      IN  <<Block("putT", lda, {c * own + ((x - lda) % own)}, i .. i + 3,
                                  By(0, lda, 8))>>
  IN  Then(lda + Ceil(lda, 4) * own, Body, <<>>)

ce_matmul(c, nc, lda) ==
  LET Body(x) == <<Block("fill", lda, {}, Own(c, nc, lda, 1), {x})>>
      cols == UNION {By(x * (32 \div nc), (x + 1) * (32 \div nc), 8) : x \in All(nc)}
  IN  Then(lda, Body, <<Block("addT", lda, Own(c, nc, lda, 1), cols, By(0, lda, 8))>>)

\* B is copied in two parts; only the last core reads the copy.
dm_matmul(c, nc, lda) ==
  LET last  == c = nc - 1
      part  == lda \div nc
      end   == IF last THEN (lda \div 4) * 4 ELSE ((part * c + part) \div 4) * 4
  IN  << <<Block("fill", lda, {}, All(lda), IF last THEN 0 .. part - 1 ELSE part .. lda - 1)>>,
         <<Block(IF last THEN "addT" ELSE "add", lda, By(part * c, end, 4),
                 By(0, (lda \div 4) * 4, 4), All(lda))>> >>

\* A thread-local transpose of the own columns, then blocks of 32 rows, 16
\* columns and 32 products, w columns at a time.  With less than 16 columns of
\* its own a core goes on where its transpose is zero.
Blocked(c, nc, lda, w) ==
  LET own  == lda \div nc
      tB   == By(c * own, (c + 1) * own, 2)
      copy == Ceil(lda, 2)
      K == Ceil(lda, 32)
      I == Ceil(own, 16)
      U == 16 \div w
      Body(x) ==
        IF x < copy THEN <<Block("load", lda, {}, tB, {2 * x, 2 * x + 1})>>
        ELSE LET y  == x - copy
                 z  == y \div U              \* j2, i2, j, k2
                 j  == 32 * (((z \div K) \div 16) \div I) + 2 * ((z \div K) % 16)
                 i2 == c * own + 16 * (((z \div K) \div 16) % I)
                 ks == 32 * (z % K) .. 32 * (z % K) + 31
                 cols == i2 + w * (y % U) .. i2 + w * (y % U) + w - 1
             IN  <<Block("add", lda, {j, j + 1}, cols \cap tB, ks),
                   Block("keep", lda, {j, j + 1}, cols \ tB, ks)>>
  IN  Then(copy + Ceil(lda, 32) * I * 16 * K * U, Body, <<>>)

br_matmul(c, nc, lda) == Blocked(c, nc, lda, 4)
dr_matmul(c, nc, lda) == Blocked(c, nc, lda, 8)

-----------------------------------------------------------------------------
\* The vector sums: the index sets of the loops, in order.  The remainder by
\* zero is the dividend, as RISC-V has it.
vvadd0(c, nc, n) ==
  LET leftover == IF n < nc THEN n ELSE n % (n \div nc)
  IN  <<Own(c, nc, n, 1), Loop((n - leftover) + c, n, nc)>>
vvadd1(c, nc, n) ==
  <<UNION {(i .. i + 3) \cup (i + nc * 4 .. i + nc * 4 + 3) : i \in Loop(4 * c, n, 8 * nc)}>>
vvadd2(c, nc, n) == <<UNION {{i, i + nc} : i \in Loop(c, n, 2 * nc)}>>
\* Duff's device: the first turn enters its body of 8 in the middle.  Without
\* an element of its own (n < nc) the counter passes below 0 in its 64 bits.
vvadd3(c, nc, n) ==
  LET count == n \div nc
      turns == IF count = 0 THEN 2 ^ 64 ELSE Ceil(count, 8)
      first == IF count % 8 = 0 THEN 8 ELSE count % 8
  IN  <<c * count .. c * count + first + 8 * (turns - 1) - 1>>
vvadd4(c, nc, n) == <<Loop(c, n, nc)>>
=============================================================================
