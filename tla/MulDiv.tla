------------------------------- MODULE MulDiv -------------------------------
(***************************************************************************)
(* e203_exu_alu_muldiv: the iterative multiplier (radix-4 Booth) and        *)
(* divider (non-restoring, with a correction phase), which keep their       *)
(* partial results in two shared buffers, so that the second instruction    *)
(* of a fused pair (MULH-MUL, DIV-REM, ...) is answered from what the first *)
(* left behind.  The word has W bits; one step is one clock edge.           *)
(***************************************************************************)
EXTENDS Integers

CONSTANTS W,          \* width of a register, 32 in the processor
          Operands    \* values of rs1 and rs2

ASSUME MulDivAssumption == /\ W \in Nat \ {0} /\ W % 2 = 0
                           /\ Operands \subseteq 0..(2^W - 1)

MulOps == {"mul", "mulh", "mulhsu", "mulhu"}
DivOps == {"div", "divu", "rem", "remu"}

VARIABLES rs1, rs2,           \* the operands, the same in a behaviour
          op,                 \* the instruction in the IR, or "other"
          muldiv_b2b,         \* ifu_muldiv_b2b_r
          muldiv_i_valid,     \* it is offered to the unit
          muldiv_state_r, exec_cnt_r, flushed_r,
          sbf_0_r, sbf_1_r,   \* part_remd_r / part_prdt_hi_r, part_quot_r / part_prdt_lo_r
          sft1_r              \* part_prdt_sft1_r and part_remd_sft1_r: one per kind

mdVars == <<rs1, rs2, op, muldiv_b2b, muldiv_i_valid, muldiv_state_r, exec_cnt_r,
            flushed_r, sbf_0_r, sbf_1_r, sft1_r>>

Bit(x, i)       == (x \div 2^i) % 2
Bits(x, hi, lo) == (x \div 2^lo) % 2^(hi - lo + 1)
Signed(x, n)    == IF Bit(x, n - 1) = 1 THEN x - 2^n ELSE x

MulDivTypeOk ==
  /\ {rs1, rs2} \subseteq Operands
  /\ op \in MulOps \cup DivOps \cup {"other"}
  /\ {muldiv_b2b, muldiv_i_valid, flushed_r} \subseteq BOOLEAN
  /\ muldiv_state_r \in {"0TH", "EXEC", "REMD_CHCK", "QUOT_CORR", "REMD_CORR"}
  /\ exec_cnt_r \in 0..W
  /\ {sbf_0_r, sbf_1_r} \subseteq 0..(2^(W + 1) - 1)
  /\ sft1_r \in [{"prdt", "remd"} -> {0, 1}]

-----------------------------------------------------------------------------
i_op_div == op \in DivOps
quotient == op \in {"div", "divu"}

\* A slip: a fused instruction trusts the buffers although a flush came
\* between.
B2bAfterFlush == muldiv_b2b
back2back_seq == muldiv_b2b /\ ~flushed_r

cycle_0th == muldiv_state_r = "0TH"
exec_last_cycle == exec_cnt_r = IF i_op_div THEN W ELSE W \div 2

(* The multiplier: a Booth digit of rs1 selects 0, rs2 or 2*rs2. *)
mul_rs1_sign == IF op = "mulhu" THEN 0 ELSE Bit(rs1, W - 1)
mul_rs2 == IF op \in {"mulhsu", "mulhu"} THEN rs2 ELSE Signed(rs2, W)
booth_code ==
  IF cycle_0th THEN 2 * Bits(rs1, 1, 0)
  ELSE IF exec_cnt_r = W \div 2
       THEN 4 * mul_rs1_sign + 2 * Bit(sbf_1_r, 0) + sft1_r["prdt"]
       ELSE 2 * Bits(sbf_1_r, 1, 0) + sft1_r["prdt"]
booth_digit == CASE booth_code \in {0, 7} -> 0
                 [] booth_code \in {1, 2} -> 1
                 [] booth_code = 3 -> 2
                 [] booth_code = 4 -> -2
                 [] booth_code \in {5, 6} -> -1
mul_exe_alu_res ==
  ((IF cycle_0th THEN 0 ELSE Signed(sbf_0_r, W + 1)) + booth_digit * mul_rs2) % 2^(W + 3)
part_prdt_hi_nxt == Bits(mul_exe_alu_res, W + 2, 2)
part_prdt_lo_nxt ==
  Bits(mul_exe_alu_res, 1, 0) * 2^(W - 1)
  + IF cycle_0th THEN mul_rs1_sign * 2^(W - 2) + Bits(rs1, W - 1, 2)
                 ELSE Bits(sbf_1_r, W, 2)
mul_res == IF op = "mul" THEN Bits(sbf_1_r, W, 1) ELSE Bits(mul_exe_alu_res, W - 1, 0)

(* The divider: remainder and quotient shift together, one bit a cycle. *)
div_rs1_sign == IF op \in {"divu", "remu"} THEN 0 ELSE Bit(rs1, W - 1)
div_rs2_sign == IF op \in {"divu", "remu"} THEN 0 ELSE Bit(rs2, W - 1)
divisor == div_rs2_sign * (2^(W + 1) + 2^W) + rs2              \* W+2 bits
quot_0cycl == IF div_rs1_sign # div_rs2_sign THEN 0 ELSE 1
\* {dividend, quot_0cycl}: upper W+2 and lower W+1 bits.
dividend_hi == div_rs1_sign * (2^(W + 2) - 1)
dividend_lo == 2 * rs1 + quot_0cycl
prev_quot == IF cycle_0th THEN quot_0cycl ELSE Bit(sbf_1_r, 0)
div_exe_alu_res ==
  LET op1 == IF cycle_0th THEN dividend_hi ELSE sft1_r["remd"] * 2^(W + 1) + sbf_0_r
  IN (IF prev_quot = 1 THEN op1 - divisor ELSE op1 + divisor) % 2^(W + 2)
current_quot == IF Bit(div_exe_alu_res, W + 1) # div_rs2_sign THEN 0 ELSE 1
exe_quot == IF cycle_0th THEN dividend_lo ELSE sbf_1_r         \* W+1 bits

remd_chck_res == (Signed(sbf_0_r, W + 1) + divisor) % 2^(W + 2)
div_need_corrct ==
  \/ Bit(sbf_0_r, W) # div_rs1_sign /\ sbf_0_r # 0
  \/ remd_chck_res = 0
  \/ sbf_0_r = divisor % 2^(W + 1)
remd_inc_quot_dec == Bit(sbf_0_r, W) # div_rs2_sign
quot_corr_res == (sbf_1_r + IF remd_inc_quot_dec THEN -1 ELSE 1) % 2^(W + 1)
remd_corr_res == (sbf_0_r + IF remd_inc_quot_dec THEN divisor ELSE -divisor) % 2^(W + 1)

div_remd == CASE muldiv_state_r = "REMD_CHCK" -> sbf_0_r
              [] muldiv_state_r \in {"QUOT_CORR", "REMD_CORR"} -> remd_corr_res
              [] OTHER -> div_exe_alu_res % 2^(W + 1)
div_quot == CASE muldiv_state_r \in {"REMD_CHCK", "QUOT_CORR", "REMD_CORR"} -> sbf_1_r
              [] OTHER -> Bits(exe_quot, W - 1, 0) * 2 + 1

div_by_0 == rs2 = 0
div_ovf == op \in {"div", "rem"} /\ rs2 = 2^W - 1 /\ rs1 = 2^(W - 1)
special_cases == i_op_div /\ (div_by_0 \/ div_ovf)
special_res == IF div_by_0 THEN (IF quotient THEN 2^W - 1 ELSE rs1)
                           ELSE (IF quotient THEN 2^(W - 1) ELSE 0)

-----------------------------------------------------------------------------
(* The answer. *)
wbck_condi ==
  \/ back2back_seq \/ special_cases
  \/ muldiv_state_r = "EXEC" /\ exec_last_cycle /\ ~i_op_div
  \/ muldiv_state_r = "REMD_CHCK" /\ ~div_need_corrct
  \/ muldiv_state_r = "REMD_CORR"
muldiv_o_valid == wbck_condi /\ muldiv_i_valid
back2back_res == CASE op = "mul" -> Bits(sbf_1_r, W - 2, 0) * 2 + sft1_r["prdt"]
                   [] op \in {"rem", "remu"} -> Bits(sbf_0_r, W - 1, 0)
                   [] OTHER -> Bits(sbf_1_r, W - 1, 0)
wbck_wdat == CASE special_cases -> special_res
               [] back2back_seq /\ ~special_cases -> back2back_res
               [] ~back2back_seq /\ ~special_cases /\ i_op_div ->
                    IF quotient THEN Bits(div_quot, W - 1, 0) ELSE Bits(div_remd, W - 1, 0)
               [] OTHER -> mul_res

-----------------------------------------------------------------------------
\* One clock edge of the unit: flush is the pulse, o_rdy takes the answer.
State(flush, o_hsked) ==
  CASE cycle_0th -> IF muldiv_i_valid /\ ~back2back_seq /\ ~special_cases /\ ~flush
                    THEN "EXEC" ELSE "0TH"
    [] flush /\ ~cycle_0th -> "0TH"
    [] ~flush /\ muldiv_state_r = "EXEC" ->
         IF ~exec_last_cycle THEN "EXEC"
         ELSE IF i_op_div THEN "REMD_CHCK"
         ELSE IF o_hsked THEN "0TH" ELSE "EXEC"
    [] ~flush /\ muldiv_state_r = "REMD_CHCK" ->
         IF div_need_corrct THEN "QUOT_CORR" ELSE IF o_hsked THEN "0TH" ELSE "REMD_CHCK"
    [] ~flush /\ muldiv_state_r = "QUOT_CORR" -> "REMD_CORR"
    [] ~flush /\ muldiv_state_r = "REMD_CORR" -> IF o_hsked THEN "0TH" ELSE "REMD_CORR"

Unit(flush, o_rdy) ==
  LET o_hsked == muldiv_o_valid /\ o_rdy
      next == State(flush, o_hsked)
      leaves(s) == muldiv_state_r = s /\ next # s
      runs == \/ cycle_0th /\ next = "EXEC"
              \/ muldiv_state_r = "EXEC" /\ ~exec_last_cycle
              \/ leaves("EXEC")
      alu_res == IF ~i_op_div THEN mul_exe_alu_res
                 ELSE IF muldiv_state_r = "REMD_CORR" THEN remd_corr_res
                 ELSE div_exe_alu_res
      ends == muldiv_state_r = "EXEC" /\ exec_last_cycle
  IN /\ muldiv_state_r' = next
     /\ exec_cnt_r' = CASE cycle_0th /\ next = "EXEC" -> 1
                        [] muldiv_state_r = "EXEC" /\ ~exec_last_cycle -> exec_cnt_r + 1
                        [] OTHER -> exec_cnt_r
     /\ flushed_r' = (flush \/ (flushed_r /\ ~o_hsked))
     /\ sbf_0_r' = CASE runs /\ ~i_op_div -> part_prdt_hi_nxt
                     [] i_op_div /\ leaves("REMD_CORR") -> remd_corr_res
                     [] i_op_div /\ runs /\ ends -> div_remd
                     [] i_op_div /\ runs /\ ~ends ->
                          (2 * div_exe_alu_res + Bit(exe_quot, W)) % 2^(W + 1)
                     [] OTHER -> sbf_0_r
     /\ sbf_1_r' = CASE runs /\ ~i_op_div -> part_prdt_lo_nxt
                     [] i_op_div /\ leaves("QUOT_CORR") -> quot_corr_res
                     [] i_op_div /\ runs /\ ends -> div_quot
                     [] i_op_div /\ runs /\ ~ends ->
                          (2 * exe_quot + current_quot) % 2^(W + 1)
                     [] OTHER -> sbf_1_r
     /\ sft1_r' = [prdt |-> IF leaves("EXEC") \/ (runs /\ ~i_op_div)
                            THEN (IF cycle_0th THEN Bit(rs1, 1) ELSE Bit(sbf_1_r, 1))
                            ELSE sft1_r["prdt"],
                   remd |-> IF leaves("EXEC") \/ leaves("REMD_CORR") \/ (runs /\ i_op_div)
                            THEN Bit(alu_res, W) ELSE sft1_r["remd"]]

-----------------------------------------------------------------------------
(* The IR in front of it.  Fusing is decided when an instruction is loaded, *)
(* by comparing it with what the IR holds, accepted, flushed or not.        *)
Fuses(last, next) ==
  \/ next = "mul" /\ last \in {"mulh", "mulhsu", "mulhu"}
  \/ <<last, next>> \in {<<"rem", "div">>, <<"div", "rem">>, <<"remu", "divu">>, <<"divu", "remu">>}

\* same: the register numbers agree and the last result does not change them.
Load == \E next \in MulOps \cup DivOps \cup {"other"}, same \in BOOLEAN :
          /\ op' = next
          /\ muldiv_b2b' = (Fuses(op, next) /\ same)
          /\ muldiv_i_valid' = (next # "other")

MulDivInit ==
  /\ rs1 \in Operands /\ rs2 \in Operands
  /\ op = "other" /\ muldiv_b2b = FALSE /\ muldiv_i_valid = FALSE
  /\ muldiv_state_r = "0TH" /\ exec_cnt_r = 0 /\ flushed_r = FALSE
  /\ sbf_0_r = 0 /\ sbf_1_r = 0
  /\ sft1_r = [prdt |-> 0, remd |-> 0]

MulDivNext ==
  \E flush, o_rdy \in BOOLEAN :
    /\ Unit(flush, o_rdy)
    /\ \/ /\ ~flush
          /\ ~muldiv_i_valid \/ (muldiv_o_valid /\ o_rdy)
          /\ Load
       \/ /\ muldiv_i_valid' = (muldiv_i_valid /\ ~flush /\ ~(muldiv_o_valid /\ o_rdy))
          /\ UNCHANGED <<op, muldiv_b2b>>
    /\ UNCHANGED <<rs1, rs2>>

MulDivSpec == MulDivInit /\ [][MulDivNext]_mdVars

-----------------------------------------------------------------------------
Abs(x) == IF x < 0 THEN -x ELSE x
Truncated(a, b) == IF (a < 0) = (b < 0) THEN Abs(a) \div Abs(b) ELSE -(Abs(a) \div Abs(b))
golden_res ==
  LET s1 == Signed(rs1, W)
      s2 == Signed(rs2, W)
      unsigned == op \in {"divu", "remu"}
      a == IF unsigned THEN rs1 ELSE s1
      b == IF unsigned THEN rs2 ELSE s2
  IN CASE op = "mul"    -> (s1 * s2) % 2^W
       [] op = "mulh"   -> ((s1 * s2) \div 2^W) % 2^W
       [] op = "mulhsu" -> ((s1 * rs2) \div 2^W) % 2^W
       [] op = "mulhu"  -> ((rs1 * rs2) \div 2^W) % 2^W
       [] i_op_div /\ b = 0 -> IF quotient THEN 2^W - 1 ELSE rs1
       [] i_op_div /\ b # 0 -> IF quotient THEN Truncated(a, b) % 2^W
                              ELSE (a - b * Truncated(a, b)) % 2^W

\* Whenever the unit offers a result it is that of its instruction, whether
\* computed, special or taken over from the instruction before, and
\* whatever was flushed in between (the assertion CHECK_GOLD_AND_ACTUAL_SAME).
ResultIsGolden == muldiv_o_valid => wbck_wdat = golden_res
=============================================================================
