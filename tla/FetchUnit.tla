------------------------------ MODULE FetchUnit ------------------------------
(***************************************************************************)
(* The instruction fetch unit: e203_ifu_ifetch with its branch predictor    *)
(* e203_ifu_litebpu, e203_ifu_ift2icb, which makes 32-bit fetches out of    *)
(* lanes, and the clock gate a WFI closes.  One step is one rising edge of  *)
(* the core's clock; the execution stage, the load-store unit and the       *)
(* memory are the environment.  An instruction is the pair <<low, high>> of *)
(* the addresses its halves come from.                                      *)
(***************************************************************************)
EXTENDS FetchMem, Sequences

CONSTANTS Programs,      \* functions [Address -> instruction kinds]
          Target(_),     \* where the jump at an address goes
          WritesX1(_),   \* does the instruction at an address write x1?
          ReadsRs1(_),   \* does it read a register as its first operand?
          Redirects,       \* where the execution stage may redirect to
          Handler,       \* mtvec
          MaxFlush,      \* bound: redirections in a behaviour
          MaxIrq,        \* bound: interrupts raised
          WfiMasked      \* may a WFI be executed with interrupts disabled?

Kinds == {"c16", "l32", "jal", "ret", "jalr"}

\* Whatever redirects does so to a program counter of the core's width.
ASSUME FetchAssumption ==
  /\ Programs \subseteq [Address -> Kinds]
  /\ \A a \in Address : Target(a) \in Address /\ WritesX1(a) \in BOOLEAN /\ ReadsRs1(a) \in BOOLEAN
  /\ Redirects \subseteq Address /\ Handler \in Address
  /\ MaxFlush \in Nat /\ MaxIrq \in Nat /\ WfiMasked \in BOOLEAN

VARIABLES
  program,
  reset_flag_r, reset_req_r, halt_ack_r, dly_flush_r, pc_r, pc_newpend_r, out_flag_r,
  ir_valid_r, ir_pc_vld_r, ifu_pc_r, ifu_ir_r,          \* the IR stage
  rs1xn_rdrf_r,                                         \* litebpu
  icb_state_r, req_same_cross_holdup_r, req_need_2uop_r, req_need_0uop_r,
  req_lane_cross_r, icb_cmd2_r, icb_cmd_addr_2_1_r, leftover_r,
  rsp_buf,                                              \* bypass buffer of the response
  wfi_halt_req_r, wfi_flag_r, status_mie, irq,          \* execution stage
  next_pc, flushes, irqs,        \* history: the instruction due next; bounds
  quiet_tick                     \* turns in the cycles left to the fetch unit

clockVars == <<reset_flag_r, reset_req_r, halt_ack_r, dly_flush_r, pc_r, pc_newpend_r,
               out_flag_r, ir_valid_r, ir_pc_vld_r, ifu_pc_r, ifu_ir_r, rs1xn_rdrf_r,
               icb_state_r, req_same_cross_holdup_r, req_need_2uop_r, req_need_0uop_r,
               req_lane_cross_r, icb_cmd2_r, icb_cmd_addr_2_1_r, leftover_r, rsp_buf>>
exuVars == <<wfi_halt_req_r, wfi_flag_r, status_mie, irq, next_pc, flushes, irqs>>
fetchVars == <<program, memVars, clockVars, exuVars, quiet_tick>>

Word == Address \cup {Lsu}

FetchTypeOk ==
  /\ MemTypeOk
  /\ program \in Programs
  /\ \A flag \in {reset_flag_r, reset_req_r, halt_ack_r, dly_flush_r, pc_newpend_r, out_flag_r,
                  ir_valid_r, ir_pc_vld_r, rs1xn_rdrf_r, req_same_cross_holdup_r,
                  req_need_2uop_r, req_need_0uop_r, req_lane_cross_r, wfi_halt_req_r,
                  wfi_flag_r, status_mie, irq} : flag \in BOOLEAN
  /\ {pc_r, ifu_pc_r, next_pc} \subseteq Address
  /\ ifu_ir_r \in Word \X Word
  /\ icb_state_r \in {"IDLE", "1ST", "WAIT2ND", "2ND"}
  /\ icb_cmd2_r \in {"none", "itcm", "biu"}
  /\ icb_cmd_addr_2_1_r \in 0..3
  /\ leftover_r \in Word
  /\ rsp_buf \in Seq(Word \X Word) /\ Len(rsp_buf) <= 1
  /\ flushes \in 0..MaxFlush /\ irqs \in 0..MaxIrq /\ quiet_tick \in {0, 1}

-----------------------------------------------------------------------------
(* Responses: ift2icb. *)
icb_rsp_valid == CASE icb_cmd2_r = "itcm" -> itcm_stage = Ifu
                   [] icb_cmd2_r = "biu"  -> bus_rsp
                   [] OTHER               -> FALSE
\* Out of reset neither source is selected and the data are zeros.
rsp_lane == CASE icb_cmd2_r = "itcm" -> ram_dout
              [] icb_cmd2_r = "biu"  -> IF bus_rsp THEN bus_lane ELSE Lsu
              [] OTHER               -> Lsu

rsp2leftover == req_need_2uop_r /\ icb_state_r = "1ST"
rsp_sel_leftover == \/ icb_state_r = "1ST" /\ req_same_cross_holdup_r
                    \/ icb_state_r = "2ND"

\* The lane shifted to the requested half-word; the memory's is not shifted.
aligned == LET o == IF icb_cmd2_r = "itcm" THEN icb_cmd_addr_2_1_r ELSE 0
           IN IF o = 3 THEN <<Lsu, Lsu>> ELSE <<Half(rsp_lane, o), Half(rsp_lane, o + 1)>>
i_rsp_instr == IF rsp_sel_leftover THEN <<leftover_r, Half(rsp_lane, 0)>> ELSE aligned

\* A request served from the lane held up answers without any access.
i_rsp_valid == \/ icb_state_r = "1ST" /\ req_need_0uop_r
               \/ icb_rsp_valid /\ ~rsp2leftover
i_rsp_ready == rsp_buf = <<>>
i_rsp_hsked == i_rsp_valid /\ i_rsp_ready
icb_rsp_ready == rsp2leftover \/ i_rsp_ready
icb_rsp_hsked == icb_rsp_valid /\ icb_rsp_ready

rsp_valid == rsp_buf # <<>> \/ i_rsp_valid
ifu_ir_nxt == IF rsp_buf # <<>> THEN Head(rsp_buf) ELSE i_rsp_instr

-----------------------------------------------------------------------------
(* The mini-decoder, on whatever stands on the response data. *)
kind == IF ifu_ir_nxt[1] \in Address THEN program[ifu_ir_nxt[1]] ELSE "c16"
rv32 == kind = "l32"
Length(k) == IF k = "l32" THEN 2 ELSE 1
bjp_req == kind \in {"jal", "ret", "jalr"}

halt_req == wfi_halt_req_r /\ ~irq
core_wfi == wfi_flag_r /\ ~irq

\* The IR is accepted by the execution stage or flushed.
ir_valid_clr(flush, o_rdy) == ir_valid_r /\ (o_rdy \/ flush # Nobody)

\* What the execution stage decodes of the instruction in the IR.
ir_decoded == ir_valid_r /\ ifu_ir_r[1] \in Address
ir_rs1en == ir_decoded /\ ReadsRs1(ifu_ir_r[1])
jalr_rs1idx_cam_irrdidx == ir_decoded /\ WritesX1(ifu_ir_r[1])

\* jalr through xN waits until nothing that may write xN is under way, then
\* takes one more cycle to read the register; jalr through x1 only waits.
x1_dep(oitf_empty) == rsp_valid /\ kind = "ret" /\ (~oitf_empty \/ jalr_rs1idx_cam_irrdidx)
xn_dep(oitf_empty) == rsp_valid /\ kind = "jalr" /\ (~oitf_empty \/ ir_valid_r)
\* The IR does not hinder the read if it leaves or needs no read port.
may_read(oitf_empty, clr) ==
  /\ rsp_valid /\ kind = "jalr"
  /\ \/ ~xn_dep(oitf_empty)
     \/ oitf_empty /\ ir_valid_r /\ (clr \/ ~ir_rs1en)
\* A slip: the register is read again in every cycle.
rdrf_again(oitf_empty, clr) == may_read(oitf_empty, clr)
rdrf_set(oitf_empty, clr) == ~rs1xn_rdrf_r /\ may_read(oitf_empty, clr)
bpu_wait(oitf_empty, clr) ==
  \/ x1_dep(oitf_empty)
  \/ xn_dep(oitf_empty)
  \/ rdrf_set(oitf_empty, clr)

\* A jal adds its offset to pc_r; what x1 or xN holds depends on the jump.
jump_base == IF kind = "jal" THEN pc_r ELSE ifu_ir_nxt[1]

\* pc_nxt by priority.
pc_nxt(flush) ==
  CASE flush # Nobody -> flush
    [] flush = Nobody /\ dly_flush_r -> pc_r
    [] flush = Nobody /\ ~dly_flush_r /\ bjp_req -> Target(jump_base)
    [] flush = Nobody /\ ~dly_flush_r /\ ~bjp_req /\ reset_req_r -> 0
    [] OTHER -> Plus(pc_r, Length(kind))

req_seq(flush) == flush = Nobody /\ ~dly_flush_r /\ ~reset_req_r /\ ~bjp_req

-----------------------------------------------------------------------------
(* Requests: which accesses a fetch of pc needs. *)
lane_cross(pc) == pc % LaneWidth(pc) = LaneWidth(pc) - 1
lane_begin(pc) == pc % LaneWidth(pc) = 0
lane_same(pc, seq) == seq /\ (lane_begin(pc) => req_lane_cross_r)
lane_holdup(pc) == InItcm(pc) /\ ifu_holdup_r
same_cross_holdup(pc, seq) == lane_same(pc, seq) /\ lane_cross(pc) /\ lane_holdup(pc)
need_2uop(pc, seq) == lane_cross(pc) /\ ~(lane_same(pc, seq) /\ lane_holdup(pc))
need_0uop(pc, seq) == lane_same(pc, seq) /\ ~lane_cross(pc) /\ lane_holdup(pc)

second_uop == req_need_2uop_r /\ icb_state_r \in {"1ST", "WAIT2ND"}
cmd_addr(pc, seq) ==
  IF second_uop THEN Plus(pc_r, 1)
  ELSE IF same_cross_holdup(pc, seq) THEN Plus(pc_r, Length(kind) + 1)
  ELSE pc

req_ready_condi == \/ icb_state_r = "IDLE"
                   \/ icb_state_r = "1ST" /\ ~req_need_2uop_r /\ i_rsp_hsked
                   \/ icb_state_r = "2ND" /\ req_need_2uop_r /\ i_rsp_hsked

\* A slip: the second access counts as sent whether or not it was taken.
state_no_wait(req_hsked, cmd_ready) ==
  CASE icb_state_r = "IDLE" /\ req_hsked -> "1ST"
    [] icb_state_r = "1ST" /\ rsp2leftover /\ icb_rsp_hsked -> "2ND"
    [] icb_state_r \in {"1ST", "2ND"} /\ i_rsp_hsked -> IF req_hsked THEN "1ST" ELSE "IDLE"
    [] OTHER -> icb_state_r
state_nxt(req_hsked, cmd_ready) ==
  CASE icb_state_r = "IDLE" /\ req_hsked -> "1ST"
    [] icb_state_r = "1ST" /\ (IF rsp2leftover THEN icb_rsp_hsked ELSE i_rsp_hsked) ->
         IF req_need_2uop_r THEN (IF cmd_ready THEN "2ND" ELSE "WAIT2ND")
                            ELSE (IF req_hsked THEN "1ST" ELSE "IDLE")
    [] icb_state_r = "WAIT2ND" /\ cmd_ready -> "2ND"
    [] icb_state_r = "2ND" /\ i_rsp_hsked -> IF req_hsked THEN "1ST" ELSE "IDLE"
    [] OTHER -> icb_state_r

-----------------------------------------------------------------------------
\* A slip: a delayed flush is forgotten when the outstanding answer is dropped.
DlyFlushLost(flush, req_hsked) == flush # Nobody /\ ~req_hsked

DlyFlush(flush, req_hsked) == IF flush # Nobody THEN ~req_hsked
                              ELSE dly_flush_r /\ ~req_hsked
IrSet(rsp_hsked, flush) == rsp_hsked /\ flush = Nobody /\ ~dly_flush_r

\* The registers of the fetch unit's clock domain at one edge, given the
\* wires of that cycle.
Registers(flush, o_rdy, oitf_empty, req_hsked, rsp_hsked, cmd_hsked, cmd_ready, pc, addr) ==
  LET clr == ir_valid_clr(flush, o_rdy)
      seq == req_seq(flush)
      ir_valid_set == IrSet(rsp_hsked, flush)
      ir_pc_vld_set == /\ pc_newpend_r /\ (~ir_valid_r \/ clr)
                       /\ flush = Nobody /\ ~dly_flush_r
      pc_ena == req_hsked \/ flush # Nobody
      i_taken == rsp_buf = <<>> /\ rsp_hsked      \* bypasses the buffer
  IN /\ reset_flag_r' = FALSE
     /\ reset_req_r' = IF reset_req_r THEN ~req_hsked ELSE reset_flag_r
     /\ halt_ack_r' = IF halt_ack_r THEN halt_req ELSE halt_req /\ (~out_flag_r \/ rsp_valid)
     /\ dly_flush_r' = DlyFlush(flush, req_hsked)
     /\ pc_r' = IF pc_ena THEN pc ELSE pc_r
     /\ pc_newpend_r' = (pc_ena \/ (pc_newpend_r /\ ~ir_pc_vld_set))
     /\ out_flag_r' = (req_hsked \/ (out_flag_r /\ ~rsp_hsked))
     /\ ir_valid_r' = (ir_valid_set \/ (ir_valid_r /\ ~clr))
     /\ ir_pc_vld_r' = (ir_pc_vld_set \/ (ir_pc_vld_r /\ ~clr))
     /\ ifu_pc_r' = IF ir_pc_vld_set THEN pc_r ELSE ifu_pc_r
     /\ ifu_ir_r' = IF ir_valid_set
                    THEN <<ifu_ir_nxt[1], IF rv32 THEN ifu_ir_nxt[2] ELSE ifu_ir_r[2]>>
                    ELSE ifu_ir_r
     /\ rs1xn_rdrf_r' = rdrf_set(oitf_empty, clr)
     /\ icb_state_r' = state_nxt(req_hsked, cmd_ready)
     /\ IF req_hsked
        THEN /\ req_same_cross_holdup_r' = same_cross_holdup(pc, seq)
             /\ req_need_2uop_r' = need_2uop(pc, seq)
             /\ req_need_0uop_r' = need_0uop(pc, seq)
             /\ req_lane_cross_r' = lane_cross(pc)
        ELSE UNCHANGED <<req_same_cross_holdup_r, req_need_2uop_r, req_need_0uop_r,
                         req_lane_cross_r>>
     /\ icb_cmd2_r' = IF ~cmd_hsked THEN icb_cmd2_r
                      ELSE IF InItcm(addr) THEN "itcm" ELSE "biu"
     /\ icb_cmd_addr_2_1_r' = IF cmd_hsked \/ req_hsked THEN addr % 4
                              ELSE icb_cmd_addr_2_1_r
     /\ leftover_r' = IF \/ req_hsked /\ same_cross_holdup(pc, seq)
                         \/ icb_rsp_hsked /\ rsp2leftover
                      THEN Half(rsp_lane, IF icb_cmd2_r = "itcm" THEN 3 ELSE 1)
                      ELSE leftover_r
     /\ rsp_buf' = IF rsp_buf # <<>> THEN (IF rsp_hsked THEN <<>> ELSE rsp_buf)
                   ELSE IF i_rsp_valid /\ ~i_taken THEN <<i_rsp_instr>>
                   ELSE <<>>

\* The program's successor of an instruction, as the predictor promises it.
Successor(a) == IF program[a] \in {"jal", "ret", "jalr"} THEN Target(a)
                ELSE Plus(a, Length(program[a]))

\* The execution stage: a WFI halts it, an interrupt wakes it; traps disable
\* interrupts, mret enables them, a write to mstatus does either.
Execution(flush, cause, o_rdy, commits, sleep, raise, drop) ==
  /\ wfi_halt_req_r' = ((wfi_halt_req_r \/ commits = "wfi") /\ ~irq)
  /\ wfi_flag_r' = IF irq THEN FALSE ELSE wfi_flag_r \/ (sleep /\ halt_req /\ halt_ack_r)
  /\ status_mie' = \/ cause = "mret" \/ commits = "enable"
                   \/ status_mie /\ cause # "trap" /\ commits # "disable"
  /\ irq' = (raise \/ (irq /\ ~drop))
  /\ irqs' = irqs + (IF raise THEN 1 ELSE 0)
  /\ flushes' = flushes + (IF flush # Nobody THEN 1 ELSE 0)
  /\ next_pc' = IF flush # Nobody THEN flush
                ELSE IF ir_valid_r /\ o_rdy THEN Successor(next_pc) ELSE next_pc

FetchCycle(flush, cause, o_rdy, oitf_empty, commits, sleep, raise, drop, lsu_cmd, lsu_rdy, mem_rdy, answers) ==
  LET pc == pc_nxt(flush)
      seq == req_seq(flush)
      clr == ir_valid_clr(flush, o_rdy)
      wait == bpu_wait(oitf_empty, clr)
      flush_real == flush # Nobody \/ dly_flush_r
      addr == cmd_addr(pc, seq)
      cmd_ready == IF InItcm(addr) THEN ItcmReady(lsu_cmd)
                                   ELSE BusReady(mem_rdy, icb_rsp_ready)
      req_ready == cmd_ready /\ req_ready_condi
      rsp_ready == flush_real \/ ((~ir_valid_r \/ clr) /\ req_ready /\ ~wait)
      rsp_hsked == rsp_valid /\ rsp_ready
      new_req == ~wait /\ ~halt_req /\ ~reset_flag_r
      req_valid == /\ new_req \/ reset_req_r \/ flush_real
                   /\ ~out_flag_r \/ rsp_hsked
      req_hsked == req_valid /\ req_ready
      cmd_valid == \/ req_valid /\ req_ready_condi /\ ~need_0uop(pc, seq)
                   \/ req_need_2uop_r /\ \/ icb_state_r = "1ST" /\ icb_rsp_hsked
                                         \/ icb_state_r = "WAIT2ND"
      ask == IF cmd_valid THEN addr ELSE Nobody
      \* a gated clock does not gate the wires
      cmd_hsked == cmd_valid /\ cmd_ready
  IN /\ IF core_wfi THEN UNCHANGED clockVars
        ELSE Registers(flush, o_rdy, oitf_empty, req_hsked, rsp_hsked, cmd_hsked,
                       cmd_ready, pc, addr)
     /\ ItcmCycle(IF InItcm(addr) THEN ask ELSE Nobody, icb_rsp_ready, lsu_cmd, lsu_rdy)
     /\ BusCycle(IF cmd_hsked /\ ~InItcm(addr) THEN addr ELSE Nobody, icb_rsp_ready, answers)
     /\ Execution(flush, cause, o_rdy, commits, sleep, raise, drop)
     /\ UNCHANGED program

-----------------------------------------------------------------------------
(* The environment.  Branches and mret redirect when their instruction is   *)
(* accepted, traps when the IR holds an instruction or a long one is still  *)
(* under way, an interrupt when oitf is empty and a PC is offered.  A trap  *)
(* of a long instruction behind a WFI is left to the module Exu.  Inputs    *)
(* nothing depends on in a cycle are not varied.                            *)
MayTrap(oitf_empty) ==
  \/ irq /\ status_mie /\ oitf_empty /\ ir_pc_vld_r
  \/ ~wfi_halt_req_r /\ ~reset_flag_r /\ ~reset_req_r /\ (ir_valid_r \/ ~oitf_empty)
MayAccept == ir_valid_r /\ ~wfi_halt_req_r /\ ~(irq /\ status_mie)
OitfMatters == wfi_halt_req_r \/ irq \/ (rsp_valid /\ kind \in {"ret", "jalr"})

\* What the memories and their other user do; quiet_tick turns in a cycle in
\* which they serve the fetch unit at once and oitf is empty.
MemoryCycle(cause, flush, o_rdy, oitf_empty, commits, sleep, raise, drop) ==
  LET to_bus == ~InItcm(cmd_addr(pc_nxt(flush), req_seq(flush)))
      Any(matters) == IF matters THEN BOOLEAN ELSE {TRUE}
  IN \E mem_rdy \in Any(to_bus), answers \in Any(to_bus \/ bus_lane # Nobody),
        lsu_rdy \in Any(itcm_stage = Lsu), lsu_idle \in BOOLEAN :
       /\ ~lsu_idle => LsuMayAsk(lsu_rdy)
       /\ quiet_tick' = IF oitf_empty /\ mem_rdy /\ answers /\ lsu_rdy /\ lsu_idle
                        THEN 1 - quiet_tick ELSE quiet_tick
       /\ FetchCycle(flush, cause, o_rdy, oitf_empty, commits, sleep, raise, drop,
                     ~lsu_idle, lsu_rdy, mem_rdy, answers)

FetchNext ==
  \E cause \in IF flushes = MaxFlush THEN {"none"} ELSE {"none", "branch", "trap", "mret"},
     o_rdy \in IF MayAccept THEN BOOLEAN ELSE {FALSE} :
  \E oitf_empty \in IF cause = "trap" \/ OitfMatters THEN BOOLEAN ELSE {TRUE},
     flush \in CASE cause = "none" -> {Nobody}
               [] cause = "trap" -> {Handler}
               [] OTHER -> Redirects,
     commits \in IF ~o_rdy \/ cause # "none" THEN {"other"}
                 ELSE {"other", IF status_mie THEN "disable" ELSE "enable"}
                      \cup (IF WfiMasked \/ status_mie THEN {"wfi"} ELSE {}),
     raise \in IF ~irq /\ irqs < MaxIrq THEN BOOLEAN ELSE {FALSE},
     drop \in IF irq /\ ~status_mie THEN BOOLEAN ELSE {FALSE} :
    /\ cause = "trap" => MayTrap(oitf_empty) /\ ~o_rdy
    /\ cause = "branch" => o_rdy
    /\ cause = "mret" => o_rdy /\ ~status_mie
    /\ MemoryCycle(cause, flush, o_rdy, oitf_empty, commits,
                   wfi_halt_req_r /\ oitf_empty, raise, drop)

FetchInit ==
  /\ MemInit
  /\ program \in Programs
  /\ reset_flag_r = TRUE
  /\ reset_req_r = FALSE /\ halt_ack_r = FALSE /\ dly_flush_r = FALSE
  /\ pc_newpend_r = FALSE /\ out_flag_r = FALSE /\ ir_valid_r = FALSE
  /\ ir_pc_vld_r = FALSE /\ rs1xn_rdrf_r = FALSE
  /\ req_same_cross_holdup_r = FALSE /\ req_need_2uop_r = FALSE
  /\ req_need_0uop_r = FALSE /\ req_lane_cross_r = FALSE
  /\ wfi_halt_req_r = FALSE /\ wfi_flag_r = FALSE /\ irq = FALSE
  /\ pc_r = 0 /\ ifu_pc_r = 0 /\ next_pc = 0
  /\ ifu_ir_r = <<Lsu, Lsu>>
  /\ icb_state_r = "IDLE" /\ icb_cmd2_r = "none" /\ icb_cmd_addr_2_1_r = 0
  /\ leftover_r = Lsu
  /\ rsp_buf = <<>>
  /\ status_mie = FALSE
  /\ flushes = 0 /\ irqs = 0 /\ quiet_tick = 0

\* The load-store unit has no accesses without instructions and the memory
\* answers: again and again a cycle is left to the fetch unit, also one in
\* which a jalr has just read its register.
QuietCycle == quiet_tick' = 1 - quiet_tick
FetchFairness == /\ WF_quiet_tick(QuietCycle)
                 /\ SF_quiet_tick(QuietCycle /\ rs1xn_rdrf_r)
FetchSpec == FetchInit /\ [][FetchNext]_fetchVars /\ FetchFairness

-----------------------------------------------------------------------------
\* The IR holds the very instruction that is due, whole, whatever was
\* flushed, dropped, held up or put together from two lanes before
\* (ir_valid_set, leftover_r, req_need_0uop_r).
IrInProgramOrder ==
  ir_valid_r => /\ ifu_ir_r[1] = next_pc
                /\ program[next_pc] = "l32" => ifu_ir_r[2] = Plus(next_pc, 1)

\* ifu_pc_r is offered before its instruction arrives, for an interrupt to
\* save in mepc: while interrupts can be taken it is the one that is due.
PcInProgramOrder == ir_pc_vld_r /\ (status_mie \/ ir_valid_r) => ifu_pc_r = next_pc

\* ifetch, ift2icb and the memories agree on what is outstanding: no answer
\* is lost, none comes unasked and none is waited for twice.
FetchAwaited ==
  /\ out_flag_r <=> (icb_state_r # "IDLE" \/ rsp_buf # <<>>)
  /\ (cmd_buf \in Address \/ itcm_stage = Ifu) <=>
        (icb_state_r \in {"1ST", "2ND"} /\ ~(icb_state_r = "1ST" /\ req_need_0uop_r)
         /\ icb_cmd2_r = "itcm")
  /\ ~(cmd_buf \in Address /\ itcm_stage = Ifu)
  /\ (bus_lane # Nobody) <=>
        (icb_state_r \in {"1ST", "2ND"} /\ ~(icb_state_r = "1ST" /\ req_need_0uop_r)
         /\ icb_cmd2_r = "biu")

\* However fetches are flushed, an instruction arrives, unless a WFI stops
\* them.
InstructionArrives == []<>(ir_valid_r \/ wfi_halt_req_r)
=============================================================================
