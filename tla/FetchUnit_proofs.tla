-------------------------- MODULE FetchUnit_proofs --------------------------
(***************************************************************************)
(* For every program, memory size and pattern of stalls, flushes and       *)
(* accesses of the load-store unit: the fetch unit and the memories agree  *)
(* on what is outstanding, an instruction arrives whole, and the IR holds  *)
(* the one that is due.  The invariant is in two parts.  FetchShape is     *)
(* about one fetch: where its access is, what the held up lane and the     *)
(* leftover hold.  FetchOrder is about which fetch it is.                  *)
(***************************************************************************)
EXTENDS FetchUnit, TLAPS

\* The fetch unit has an access under way, at the ITCM or the memory.
Accessing == /\ icb_state_r \in {"1ST", "2ND"}
             /\ ~(icb_state_r = "1ST" /\ req_need_0uop_r)

\* The ITCM's pipeline.  An access only waits in front of the SRAM while the
\* load-store unit does not take its answer.
ItcmOrder ==
  /\ cmd_buf # Lsu
  /\ cmd_buf \in Address => InItcm(cmd_buf) /\ itcm_stage = Lsu
  /\ itcm_stage = Lsu => ~ifu_holdup_r
  /\ ram_dout \in Address => InItcm(ram_dout) /\ Lane(ram_dout) = ram_dout
  /\ bus_lane \in Address => ~InItcm(bus_lane) /\ Lane(bus_lane) = bus_lane
  /\ bus_rsp => bus_lane # Nobody

\* What ift2icb noted about the request it serves.
RequestAgrees ==
  /\ rsp_buf # <<>> => icb_state_r = "IDLE"
  /\ icb_state_r \in {"WAIT2ND", "2ND"} => req_need_2uop_r
  /\ req_need_2uop_r => ~req_need_0uop_r /\ ~req_same_cross_holdup_r
  /\ req_same_cross_holdup_r => ~req_need_0uop_r

\* When nothing is asked: out of reset, and in a WFI, until the clock stops.
NothingAsked ==
  /\ reset_flag_r \/ reset_req_r =>
       /\ ~out_flag_r /\ ~ir_valid_r /\ ~ir_pc_vld_r /\ ~dly_flush_r /\ ~pc_newpend_r
       /\ ~wfi_halt_req_r /\ ~halt_ack_r /\ ~status_mie
       /\ icb_cmd2_r = "none" /\ next_pc = 0
  /\ ~(reset_flag_r /\ reset_req_r)
  /\ ir_valid_r \/ wfi_halt_req_r => ~dly_flush_r
  /\ wfi_flag_r => wfi_halt_req_r /\ halt_ack_r
  /\ halt_ack_r => icb_state_r = "IDLE" /\ wfi_halt_req_r


-----------------------------------------------------------------------------
(* One fetch, that of pc_r unless a flush has overtaken it. *)

\* The access under way goes to a: its answer, once there, is a's lane.
Asked(a) ==
  /\ icb_cmd2_r = IF InItcm(a) THEN "itcm" ELSE "biu"
  /\ InItcm(a) => /\ icb_cmd_addr_2_1_r = a % 4
                  /\ cmd_buf = a \/ (itcm_stage = Ifu /\ ram_dout = Lane(a))
  /\ ~InItcm(a) => bus_lane = Lane(a)

\* Both halves when the fetch crosses into the next lane, else its own place.
LastHalf == IF lane_cross(pc_r) THEN Plus(pc_r, 1) ELSE pc_r

PcNoted ==
  /\ req_lane_cross_r = lane_cross(pc_r)
  /\ lane_cross(pc_r) => req_same_cross_holdup_r \/ req_need_2uop_r
  /\ req_need_2uop_r \/ req_same_cross_holdup_r => lane_cross(pc_r)
  /\ req_need_0uop_r => InItcm(pc_r) /\ ~lane_cross(pc_r)
  /\ req_same_cross_holdup_r => InItcm(pc_r)

AccessIsDue ==
  /\ icb_state_r = "1ST" /\ ~req_need_0uop_r =>
       Asked(IF req_same_cross_holdup_r THEN Plus(pc_r, 1) ELSE pc_r)
  /\ icb_state_r = "1ST" /\ req_need_0uop_r =>
       icb_cmd2_r = "itcm" /\ icb_cmd_addr_2_1_r = pc_r % 4 /\ ram_dout = Lane(pc_r)
  /\ icb_state_r = "2ND" => Asked(Plus(pc_r, 1))

HalvesAreDue ==
  /\ \/ icb_state_r \in {"WAIT2ND", "2ND"}
     \/ icb_state_r = "1ST" /\ req_same_cross_holdup_r
     => leftover_r = pc_r
  /\ rsp_buf # <<>> => rsp_buf[1] = <<pc_r, Plus(pc_r, 1)>>

\* The lane held up is the last one of this fetch, which its successors start
\* in or after.
HeldLane ==
  ~second_uop => /\ icb_cmd2_r = IF InItcm(LastHalf) THEN "itcm" ELSE "biu"
                 /\ ifu_holdup_r /\ InItcm(LastHalf) => ram_dout = Lane(LastHalf)

Overtaken == dly_flush_r \/ reset_flag_r \/ reset_req_r
FetchIsPc == ~Overtaken => PcNoted /\ AccessIsDue /\ HalvesAreDue /\ HeldLane

FetchShape == /\ FetchTypeOk /\ FetchAwaited /\ ItcmOrder /\ RequestAgrees
              /\ NothingAsked /\ FetchIsPc

-----------------------------------------------------------------------------
(* Which fetch it is. *)

\* An interrupt that ends a WFI, or may be taken at once: nothing is accepted
\* until it has redirected.
Waking == status_mie /\ (wfi_halt_req_r \/ irq)

Due == IF ir_valid_r THEN Successor(next_pc) ELSE next_pc

FetchIsDue ==
  /\ dly_flush_r => pc_r = next_pc
  /\ wfi_halt_req_r => status_mie
  /\ ~Overtaken => (out_flag_r /\ pc_r = Due) \/ (Waking /\ ir_valid_r)

\* A PC of an earlier fetch is only offered while interrupts are disabled.
PcIsDue ==
  /\ ir_valid_r => pc_newpend_r \/ Waking
  /\ ir_pc_vld_r /\ ir_valid_r => ifu_pc_r = next_pc
  /\ ir_pc_vld_r /\ ~ir_valid_r /\ pc_newpend_r => ~status_mie
  /\ ~ir_valid_r /\ ~pc_newpend_r /\ ~reset_flag_r /\ ~reset_req_r =>
       ir_pc_vld_r /\ ifu_pc_r = pc_r /\ ~dly_flush_r

FetchOrder == FetchIsDue /\ IrInProgramOrder /\ PcIsDue

-----------------------------------------------------------------------------
(* Arithmetic of addresses and lanes. *)
LEMMA PlusIs ==
  ASSUME NEW a \in Address, NEW n \in 0..3
  PROVE  /\ Plus(a, n) \in Address
         /\ Plus(a, n) = IF a + n < PC_SIZE THEN a + n ELSE a + n - PC_SIZE
BY FetchMemAssumption DEF Plus, Address

\* Lanes of w half-words divide both memories.
LEMMA Aligned ==
  ASSUME NEW a \in Address, NEW w \in {2, 4}
  PROVE  /\ a % w \in 0..(w - 1) /\ a - (a % w) \in Address
         /\ (a - (a % w)) % w = 0
         /\ a < ITCM_SIZE <=> a - (a % w) < ITCM_SIZE
         /\ a % w # w - 1 => a + 1 < PC_SIZE
<1>1. a \in Int /\ 0 <= a /\ a < PC_SIZE
  BY FetchMemAssumption DEF Address
<1>2. CASE w = 4
  <2>1. a % 4 \in 0..3 /\ (a - (a % 4)) % 4 = 0 /\ 0 <= a - (a % 4) /\ a - (a % 4) < PC_SIZE
    BY <1>1, FetchMemAssumption
  <2>2. a < ITCM_SIZE <=> a - (a % 4) < ITCM_SIZE
    BY <1>1, FetchMemAssumption
  <2>3. a % 4 # 3 => a + 1 < PC_SIZE
    BY <1>1, FetchMemAssumption
  <2>4. a - (a % 4) \in Address
    BY <1>1, <2>1, FetchMemAssumption DEF Address
  <2>5. QED BY <1>2, <2>1, <2>2, <2>3, <2>4
<1>3. CASE w = 2
  <2>1. ITCM_SIZE % 2 = 0 /\ PC_SIZE % 2 = 0
    BY FetchMemAssumption
  <2>2. QED BY <1>1, <1>3, <2>1, FetchMemAssumption DEF Address
<1>4. QED BY <1>2, <1>3

LEMMA LaneIs ==
  ASSUME NEW a \in Address
  PROVE  /\ Lane(a) \in Address /\ Lane(Lane(a)) = Lane(a)
         /\ InItcm(Lane(a)) = InItcm(a)
         /\ InItcm(a) => a % 4 \in 0..3 /\ Lane(a) = a - (a % 4)
                         /\ (lane_cross(a) <=> a % 4 = 3)
         /\ ~InItcm(a) => a % 2 \in 0..1 /\ Lane(a) = a - (a % 2)
                         /\ (lane_cross(a) <=> a % 2 = 1)
         /\ ~lane_cross(a) => Plus(a, 1) = a + 1
<1> DEFINE w == LaneWidth(a)
           b == a - (a % w)
<1>1. w = (IF InItcm(a) THEN 4 ELSE 2) /\ w \in {2, 4}
  BY DEF LaneWidth
<1>2. Lane(a) = b
  BY DEF Lane
<1>12. lane_cross(a) <=> a % w = w - 1
  BY DEF lane_cross
<1> HIDE DEF w
<1>3. /\ a % w \in 0..(w - 1) /\ b \in Address /\ b % w = 0
      /\ InItcm(b) = InItcm(a) /\ (a % w # w - 1 => a + 1 < PC_SIZE)
  BY <1>1, Aligned DEF InItcm
<1>4. LaneWidth(b) = w
  BY <1>1, <1>3 DEF LaneWidth
<1>5. b \in Int /\ b - 0 = b
  BY <1>3, FetchMemAssumption DEF Address
<1> HIDE DEF b
<1>6. Lane(b) = b
  BY <1>3, <1>4, <1>5 DEF Lane
<1>7. ~lane_cross(a) => Plus(a, 1) = a + 1
  BY <1>2, <1>3, <1>12, PlusIs
<1>8. a % w \in 0..(w - 1) /\ b = a - (a % w)
  BY <1>3 DEF b
<1>9. CASE InItcm(a)
  <2>1. w = 4
    BY <1>1, <1>9
  <2>2. QED BY <1>2, <1>3, <1>6, <1>7, <1>8, <1>9, <1>12, <2>1
<1>10. CASE ~InItcm(a)
  <2>1. w = 2
    BY <1>1, <1>10
  <2>2. QED BY <1>2, <1>3, <1>6, <1>7, <1>8, <1>10, <1>12, <2>1
<1>11. QED BY <1>9, <1>10


\* A fetch that crosses ends at the beginning of a lane.
LEMMA NextLane ==
  ASSUME NEW a \in Address, lane_cross(a)
  PROVE  LET b == Plus(a, 1) IN /\ b \in Address /\ Lane(b) = b /\ Half(Lane(b), 0) = b
                                /\ InItcm(b) => b % 4 = 0
                                /\ Half(Lane(a), IF InItcm(a) THEN 3 ELSE 1) = a
<1> DEFINE b == Plus(a, 1)
<1>0. a \in Int /\ 0 <= a /\ a < PC_SIZE
  BY FetchMemAssumption DEF Address
<1>1. b \in Address /\ b = IF a + 1 < PC_SIZE THEN a + 1 ELSE a + 1 - PC_SIZE
  BY PlusIs
<1> HIDE DEF b
<1>2. b % 2 = 0
  <2>1. a % 2 = 1
    <3>1. CASE InItcm(a)
      BY <3>1, <1>0, LaneIs
    <3>2. QED BY <3>1, LaneIs
  <2>2. PC_SIZE % 2 = 0
    BY FetchMemAssumption
  <2>3. QED BY <1>0, <1>1, <2>1, <2>2, FetchMemAssumption
<1>3. InItcm(b) => b % 4 = 0
  <2>1. CASE InItcm(a)
    <3>1. a % 4 = 3
      BY <2>1, LaneIs
    <3>2. QED BY <1>0, <1>1, <3>1, FetchMemAssumption
  <2>2. CASE ~InItcm(a)
    BY <1>0, <1>1, <2>2, FetchMemAssumption DEF InItcm
  <2>3. QED BY <2>1, <2>2
<1>4. b \in Int /\ b - 0 = b /\ b + 0 = b
  BY <1>1, FetchMemAssumption DEF Address
<1>5. Lane(b) = b
  BY <1>1, <1>2, <1>3, <1>4, LaneIs
<1>6. Half(Lane(b), 0) = b
  BY <1>1, <1>4, <1>5 DEF Half
<1>7. Half(Lane(a), IF InItcm(a) THEN 3 ELSE 1) = a
  <2>1. CASE InItcm(a)
    <3>1. Lane(a) = a - 3 /\ Lane(a) \in Address
      BY <2>1, LaneIs
    <3>2. QED BY <1>0, <2>1, <3>1 DEF Half
  <2>2. CASE ~InItcm(a)
    <3>1. Lane(a) = a - 1 /\ Lane(a) \in Address
      BY <2>2, LaneIs
    <3>2. QED BY <1>0, <2>2, <3>1 DEF Half
  <2>3. QED BY <2>1, <2>2
<1>8. QED BY <1>1, <1>3, <1>5, <1>6, <1>7 DEF b

\* The two halves of a fetch that does not cross, as they lie in its lane.
LEMMA OneLane ==
  ASSUME NEW a \in Address, ~lane_cross(a)
  PROVE  LET o == IF InItcm(a) THEN a % 4 ELSE 0
         IN o # 3 /\ Half(Lane(a), o) = a /\ Half(Lane(a), o + 1) = Plus(a, 1)
<1>0. a \in Int /\ Lane(a) \in Address
  BY LaneIs, FetchMemAssumption DEF Address
<1>1. CASE InItcm(a)
  <2>1. a % 4 \in 0..3 /\ a % 4 # 3 /\ Lane(a) = a - (a % 4) /\ Plus(a, 1) = a + 1
    BY <1>1, LaneIs
  <2>2. QED BY <1>0, <1>1, <2>1 DEF Half
<1>2. CASE ~InItcm(a)
  <2>1. Lane(a) = a /\ Plus(a, 1) = a + 1
    BY <1>0, <1>2, LaneIs
  <2>2. QED BY <1>0, <1>2, <2>1 DEF Half
<1>3. QED BY <1>1, <1>2

\* What follows a fetch in the lane it ended in, or begins one it crossed into.
LEMMA SameLane ==
  ASSUME NEW a \in Address, NEW n \in {1, 2}, InItcm(Plus(a, n)),
         lane_begin(Plus(a, n)) => lane_cross(a)
  PROVE  LET last == IF lane_cross(a) THEN Plus(a, 1) ELSE a
         IN last \in Address /\ InItcm(last) /\ Lane(last) = Lane(Plus(a, n))
<1> DEFINE pc == Plus(a, n)
           b  == Plus(a, 1)
<1>0. a \in Int /\ 0 <= a /\ a < PC_SIZE
  BY FetchMemAssumption DEF Address
<1>1. /\ pc \in Address /\ pc = IF a + n < PC_SIZE THEN a + n ELSE a + n - PC_SIZE
      /\ b \in Address /\ b = IF a + 1 < PC_SIZE THEN a + 1 ELSE a + 1 - PC_SIZE
  BY PlusIs
<1>2. InItcm(pc) /\ pc < ITCM_SIZE /\ (lane_begin(pc) <=> pc % 4 = 0)
  BY DEF InItcm, lane_begin, LaneWidth
<1>3. Lane(pc) = pc - (pc % 4)
  BY <1>1, <1>2, LaneIs
<1> HIDE DEF pc, b
<1>4. CASE lane_cross(a)
  <2>1. Lane(b) = b /\ (InItcm(b) => b % 4 = 0)
    BY <1>4, NextLane DEF b
  <2>2. a % 2 = 1 /\ (InItcm(a) => a % 4 = 3)
    <3>1. CASE InItcm(a)
      BY <3>1, <1>0, <1>4, LaneIs
    <3>2. QED BY <3>1, <1>4, LaneIs
  <2>3. PC_SIZE % 4 = 0 /\ PC_SIZE % 2 = 0
    BY FetchMemAssumption
  <2>4. pc = b \/ pc = b + 1
    BY <1>0, <1>1, <2>2, <2>3, FetchMemAssumption
  <2>5. InItcm(b)
    BY <1>0, <1>1, <1>2, <2>4, FetchMemAssumption DEF InItcm
  <2>6. Lane(pc) = b
    BY <1>0, <1>1, <1>3, <2>1, <2>4, <2>5, FetchMemAssumption
  <2>7. QED BY <1>1, <1>4, <2>1, <2>5, <2>6 DEF pc, b
<1>5. CASE ~lane_cross(a)
  <2>1. pc % 4 # 0
    BY <1>2, <1>5 DEF pc
  <2>2. a + n < PC_SIZE
    <3>1. a + 1 < PC_SIZE
      BY <1>0, <1>1, <1>5, LaneIs, FetchMemAssumption DEF b, Address
    <3>2. QED BY <1>0, <1>1, <2>1, <3>1, FetchMemAssumption
  <2>3. InItcm(a)
    BY <1>0, <1>1, <1>2, <2>2, FetchMemAssumption DEF InItcm
  <2>4. Lane(a) = a - (a % 4) /\ a % 4 # 3
    BY <1>5, <2>3, LaneIs
  <2>5. Lane(pc) = Lane(a)
    BY <1>0, <1>1, <1>3, <2>1, <2>2, <2>4, FetchMemAssumption
  <2>6. QED BY <1>5, <2>3, <2>5 DEF pc
<1>6. QED BY <1>4, <1>5


-----------------------------------------------------------------------------
(* One cycle, with its wires named. *)
Flushed(flush) == flush # Nobody \/ dly_flush_r
MayAsk(flush) == Flushed(flush) \/ reset_req_r \/ (~halt_req /\ ~reset_flag_r)
\* ift2icb goes on to the second lane.
AsksAgain == req_need_2uop_r /\ \/ icb_state_r = "1ST" /\ icb_rsp_hsked
                                \/ icb_state_r = "WAIT2ND"

Inputs(flush, o_rdy, lsu_cmd, lsu_rdy) ==
  /\ flush \in Address \cup {Nobody}
  /\ o_rdy \in BOOLEAN /\ lsu_cmd \in BOOLEAN /\ lsu_rdy \in BOOLEAN
  /\ lsu_cmd => LsuMayAsk(lsu_rdy)

Wires(flush, o_rdy, lsu_cmd, lsu_rdy, pc, addr, ready, rsp, req, valid) ==
  /\ Inputs(flush, o_rdy, lsu_cmd, lsu_rdy)
  /\ ready \in BOOLEAN /\ rsp \in BOOLEAN /\ req \in BOOLEAN /\ valid \in BOOLEAN
  /\ pc = pc_nxt(flush) /\ addr = cmd_addr(pc, req_seq(flush))
  /\ InItcm(addr) => ready = ItcmReady(lsu_cmd)
  /\ ~InItcm(addr) /\ ready => bus_lane = Nobody \/ (bus_rsp /\ icb_rsp_ready)
  /\ rsp => rsp_valid
  /\ rsp_valid /\ Flushed(flush) => rsp
  /\ rsp /\ ~Flushed(flush) => /\ ~ir_valid_r \/ ir_valid_clr(flush, o_rdy)
                               /\ ~halt_req /\ ~reset_flag_r => req
  /\ req => ready /\ req_ready_condi /\ (~out_flag_r \/ rsp) /\ MayAsk(flush)
  /\ AsksAgain => valid
  /\ req /\ ~need_0uop(pc, req_seq(flush)) => valid
  /\ valid /\ ~AsksAgain => /\ req_ready_condi /\ ~need_0uop(pc, req_seq(flush))
                            /\ MayAsk(flush) /\ (~out_flag_r \/ rsp) /\ (ready => req)

Edge(flush, o_rdy, oitf_empty, lsu_cmd, lsu_rdy, answers, pc, addr, ready, rsp, req, valid) ==
  /\ Wires(flush, o_rdy, lsu_cmd, lsu_rdy, pc, addr, ready, rsp, req, valid)
  /\ IF core_wfi THEN UNCHANGED clockVars
     ELSE Registers(flush, o_rdy, oitf_empty, req, rsp, valid /\ ready, ready, pc, addr)
  /\ ItcmCycle(IF InItcm(addr) /\ valid THEN addr ELSE Nobody, icb_rsp_ready, lsu_cmd, lsu_rdy)
  /\ BusCycle(IF valid /\ ready /\ ~InItcm(addr) THEN addr ELSE Nobody, icb_rsp_ready, answers)

Cycles(flush, o_rdy, oitf_empty, lsu_cmd, lsu_rdy, answers) ==
  \E pc, addr, ready, rsp, req, valid :
    Edge(flush, o_rdy, oitf_empty, lsu_cmd, lsu_rdy, answers, pc, addr, ready, rsp, req, valid)

\* What the execution stage does in it.
Executes(flush, o_rdy, oitf_empty) ==
  \E cause \in {"none", "branch", "trap", "mret"}, commits \in {"other", "disable", "enable", "wfi"},
     raise \in BOOLEAN, drop \in BOOLEAN :
    /\ Execution(flush, cause, o_rdy, commits, wfi_halt_req_r /\ oitf_empty, raise, drop)
    /\ cause = "none" <=> flush = Nobody
    /\ cause # "none" => flushes < MaxFlush
    /\ raise => irqs < MaxIrq
    /\ drop => ~status_mie
    /\ o_rdy => MayAccept
    /\ cause = "trap" => MayTrap(oitf_empty) /\ ~o_rdy
    /\ cause \in {"branch", "mret"} => o_rdy
    /\ commits # "other" => o_rdy /\ cause = "none"
    /\ commits = "wfi" => WfiMasked \/ status_mie
    /\ commits = "enable" => ~status_mie


LEMMA WiresOf ==
  ASSUME NEW flush, NEW o_rdy, NEW oitf_empty, NEW lsu_cmd, NEW lsu_rdy, NEW mem_rdy,
         NEW answers, NEW cause, NEW commits, NEW sleep, NEW raise, NEW drop,
         FetchTypeOk, Inputs(flush, o_rdy, lsu_cmd, lsu_rdy),
         FetchCycle(flush, cause, o_rdy, oitf_empty, commits, sleep, raise, drop,
                    lsu_cmd, lsu_rdy, mem_rdy, answers)
  PROVE  Cycles(flush, o_rdy, oitf_empty, lsu_cmd, lsu_rdy, answers)
<1> DEFINE pc == pc_nxt(flush)
           seq == req_seq(flush)
           clr == ir_valid_clr(flush, o_rdy)
           wait == bpu_wait(oitf_empty, clr)
           flush_real == flush # Nobody \/ dly_flush_r
           addr == cmd_addr(pc, seq)
           ready == IF InItcm(addr) THEN ItcmReady(lsu_cmd) ELSE BusReady(mem_rdy, icb_rsp_ready)
           req_ready == ready /\ req_ready_condi
           rsp_ready == flush_real \/ ((~ir_valid_r \/ clr) /\ req_ready /\ ~wait)
           rsp == rsp_valid /\ rsp_ready
           new_req == ~wait /\ ~halt_req /\ ~reset_flag_r
           req_valid == /\ new_req \/ reset_req_r \/ flush_real
                        /\ ~out_flag_r \/ rsp
           req == req_valid /\ req_ready
           valid == \/ req_valid /\ req_ready_condi /\ ~need_0uop(pc, seq)
                    \/ req_need_2uop_r /\ \/ icb_state_r = "1ST" /\ icb_rsp_hsked
                                          \/ icb_state_r = "WAIT2ND"
<1>1. /\ IF core_wfi THEN UNCHANGED clockVars
         ELSE Registers(flush, o_rdy, oitf_empty, req, rsp, valid /\ ready, ready, pc, addr)
      /\ ItcmCycle(IF InItcm(addr) THEN IF valid THEN addr ELSE Nobody ELSE Nobody, icb_rsp_ready, lsu_cmd, lsu_rdy)
      /\ BusCycle(IF (valid /\ ready) /\ ~InItcm(addr) THEN addr ELSE Nobody, icb_rsp_ready, answers)
  BY DEF FetchCycle
<1>2. Wires(flush, o_rdy, lsu_cmd, lsu_rdy, pc, addr, ready, rsp, req, valid)
  <2>1. ready \in BOOLEAN /\ rsp \in BOOLEAN /\ req \in BOOLEAN /\ valid \in BOOLEAN
    <3>1. ready \in BOOLEAN
      BY DEF ItcmReady, BusReady
    <3> HIDE DEF ready
    <3>2. QED BY <3>1
  <2>2. InItcm(addr) => ready = ItcmReady(lsu_cmd)
    OBVIOUS
  <2>3. ~InItcm(addr) /\ ready => bus_lane = Nobody \/ (bus_rsp /\ icb_rsp_ready)
    BY DEF BusReady
  <2>4. QED BY <2>1, <2>2, <2>3 DEF Wires, Flushed, MayAsk, AsksAgain
<1> HIDE DEF pc, seq, clr, wait, flush_real, addr, ready, req_ready, rsp_ready, rsp, new_req, req_valid, req, valid
<1>3. Edge(flush, o_rdy, oitf_empty, lsu_cmd, lsu_rdy, answers, pc, addr, ready, rsp, req, valid)
  BY <1>1, <1>2 DEF Edge
<1>4. QED BY <1>3 DEF Cycles


\* Every step of the fetch unit is such a cycle.
LEMMA CycleOf ==
  ASSUME FetchTypeOk, FetchNext
  PROVE  /\ \E flush, o_rdy, oitf_empty, lsu_cmd, lsu_rdy, answers,
               pc, addr, ready, rsp, req, valid :
              /\ Edge(flush, o_rdy, oitf_empty, lsu_cmd, lsu_rdy, answers,
                      pc, addr, ready, rsp, req, valid)
              /\ Executes(flush, o_rdy, oitf_empty)
              /\ oitf_empty \in BOOLEAN /\ answers \in BOOLEAN
         /\ program' = program /\ quiet_tick' \in {0, 1}
<1>1. PICK cause \in {"none", "branch", "trap", "mret"}, o_rdy \in BOOLEAN, oitf_empty \in BOOLEAN,
           flush \in Address \cup {Nobody}, commits \in {"other", "disable", "enable", "wfi"},
           raise \in BOOLEAN, drop \in BOOLEAN :
        /\ MemoryCycle(cause, flush, o_rdy, oitf_empty, commits,
                       wfi_halt_req_r /\ oitf_empty, raise, drop)
        /\ cause = "none" <=> flush = Nobody
        /\ cause # "none" => flushes < MaxFlush
        /\ raise => irqs < MaxIrq
        /\ drop => ~status_mie
        /\ o_rdy => MayAccept
        /\ cause = "trap" => MayTrap(oitf_empty) /\ ~o_rdy
        /\ cause \in {"branch", "mret"} => o_rdy
        /\ commits # "other" => o_rdy /\ cause = "none"
        /\ commits = "wfi" => WfiMasked \/ status_mie
        /\ commits = "enable" => ~status_mie
  <2>1. Nobody \notin Address
    BY FetchMemAssumption DEF Nobody, Address
  <2>2. PICK cause \in IF flushes = MaxFlush THEN {"none"} ELSE {"none", "branch", "trap", "mret"},
             o_rdy \in IF MayAccept THEN BOOLEAN ELSE {FALSE} :
          \E oitf_empty \in IF cause = "trap" \/ OitfMatters THEN BOOLEAN ELSE {TRUE},
             flush \in CASE cause = "none" -> {Nobody}
                         [] cause = "trap" -> {Handler}
                         [] OTHER -> Redirects,
             commits \in IF ~o_rdy \/ cause # "none" THEN {"other"}
                         ELSE {"other", IF status_mie THEN "disable" ELSE "enable"}
                              \cup (IF WfiMasked \/ status_mie THEN {"wfi"} ELSE {}),
             raise \in IF ~irq /\ irqs < MaxIrq THEN BOOLEAN ELSE {FALSE},
             drop \in IF irq /\ ~status_mie THEN BOOLEAN ELSE {FALSE} :
            /\ cause = "trap" => MayTrap(oitf_empty) /\ ~o_rdy
            /\ cause = "branch" => o_rdy
            /\ cause = "mret" => o_rdy /\ ~status_mie
            /\ MemoryCycle(cause, flush, o_rdy, oitf_empty, commits,
                           wfi_halt_req_r /\ oitf_empty, raise, drop)
    BY DEF FetchNext
  <2>3. /\ cause \in {"none", "branch", "trap", "mret"} /\ o_rdy \in BOOLEAN
        /\ cause # "none" => flushes # MaxFlush /\ flushes < MaxFlush
        /\ o_rdy => MayAccept
    <3>1. cause \in {"none", "branch", "trap", "mret"} /\ (cause # "none" => flushes # MaxFlush)
      BY <2>2
    <3>2. flushes # MaxFlush => flushes < MaxFlush
      BY FetchAssumption DEF FetchTypeOk
    <3>3. o_rdy \in BOOLEAN /\ (o_rdy => MayAccept)
      BY <2>2
    <3>4. QED BY <3>1, <3>2, <3>3
  <2>4. PICK oitf_empty \in IF cause = "trap" \/ OitfMatters THEN BOOLEAN ELSE {TRUE},
             flush \in CASE cause = "none" -> {Nobody}
                         [] cause = "trap" -> {Handler}
                         [] OTHER -> Redirects,
             commits \in IF ~o_rdy \/ cause # "none" THEN {"other"}
                         ELSE {"other", IF status_mie THEN "disable" ELSE "enable"}
                              \cup (IF WfiMasked \/ status_mie THEN {"wfi"} ELSE {}),
             raise \in IF ~irq /\ irqs < MaxIrq THEN BOOLEAN ELSE {FALSE},
             drop \in IF irq /\ ~status_mie THEN BOOLEAN ELSE {FALSE} :
            /\ cause = "trap" => MayTrap(oitf_empty) /\ ~o_rdy
            /\ cause = "branch" => o_rdy
            /\ cause = "mret" => o_rdy /\ ~status_mie
            /\ MemoryCycle(cause, flush, o_rdy, oitf_empty, commits,
                           wfi_halt_req_r /\ oitf_empty, raise, drop)
    BY <2>2
  <2>5. oitf_empty \in BOOLEAN /\ raise \in BOOLEAN /\ drop \in BOOLEAN
    BY <2>4
  <2>6. flush \in Address \cup {Nobody} /\ (cause = "none" <=> flush = Nobody)
    BY <2>1, <2>3, <2>4, FetchAssumption
  <2>7. /\ commits \in {"other", "disable", "enable", "wfi"}
        /\ commits # "other" => o_rdy /\ cause = "none"
        /\ commits = "wfi" => WfiMasked \/ status_mie
        /\ commits = "enable" => ~status_mie
    BY <2>4
  <2>8. (raise => irqs < MaxIrq) /\ (drop => ~status_mie)
    BY <2>4
  <2>9. QED BY <2>3, <2>4, <2>5, <2>6, <2>7, <2>8
<1>2. PICK mem_rdy \in BOOLEAN, answers \in BOOLEAN, lsu_rdy \in BOOLEAN, lsu_idle \in BOOLEAN :
        /\ ~lsu_idle => LsuMayAsk(lsu_rdy)
        /\ quiet_tick' = IF oitf_empty /\ mem_rdy /\ answers /\ lsu_rdy /\ lsu_idle
                         THEN 1 - quiet_tick ELSE quiet_tick
        /\ FetchCycle(flush, cause, o_rdy, oitf_empty, commits, wfi_halt_req_r /\ oitf_empty,
                      raise, drop, ~lsu_idle, lsu_rdy, mem_rdy, answers)
  <2> DEFINE to_bus == ~InItcm(cmd_addr(pc_nxt(flush), req_seq(flush)))
             Any(matters) == IF matters THEN BOOLEAN ELSE {TRUE}
  <2>1. PICK mem_rdy \in Any(to_bus), answers \in Any(to_bus \/ bus_lane # Nobody),
             lsu_rdy \in Any(itcm_stage = Lsu), lsu_idle \in BOOLEAN :
          /\ ~lsu_idle => LsuMayAsk(lsu_rdy)
          /\ quiet_tick' = IF oitf_empty /\ mem_rdy /\ answers /\ lsu_rdy /\ lsu_idle
                           THEN 1 - quiet_tick ELSE quiet_tick
          /\ FetchCycle(flush, cause, o_rdy, oitf_empty, commits, wfi_halt_req_r /\ oitf_empty,
                        raise, drop, ~lsu_idle, lsu_rdy, mem_rdy, answers)
    BY <1>1 DEF MemoryCycle
  <2>2. mem_rdy \in BOOLEAN /\ answers \in BOOLEAN /\ lsu_rdy \in BOOLEAN
    BY <2>1
  <2>3. QED BY <2>1, <2>2
<1>3. \E pc, addr, ready, rsp, req, valid :
        Edge(flush, o_rdy, oitf_empty, ~lsu_idle, lsu_rdy, answers, pc, addr, ready, rsp, req, valid)
  <2> DEFINE lsu_cmd == ~lsu_idle
             sleep == wfi_halt_req_r /\ oitf_empty
  <2>1. Inputs(flush, o_rdy, lsu_cmd, lsu_rdy)
    BY <1>1, <1>2 DEF Inputs
  <2>2. FetchCycle(flush, cause, o_rdy, oitf_empty, commits, sleep, raise, drop,
                   lsu_cmd, lsu_rdy, mem_rdy, answers)
    BY <1>2
  <2> HIDE DEF lsu_cmd, sleep
  <2>3. Cycles(flush, o_rdy, oitf_empty, lsu_cmd, lsu_rdy, answers)
    BY <2>1, <2>2, WiresOf
  <2>4. QED BY <2>3 DEF lsu_cmd, Cycles
<1>4. program' = program /\ quiet_tick' \in {0, 1}
  BY <1>2 DEF FetchCycle, FetchTypeOk
<1>5. Execution(flush, cause, o_rdy, commits, wfi_halt_req_r /\ oitf_empty, raise, drop)
  BY <1>2 DEF FetchCycle
<1>6. Executes(flush, o_rdy, oitf_empty)
  BY <1>1, <1>5 DEF Executes
<1>7. QED BY <1>1, <1>2, <1>3, <1>4, <1>6


-----------------------------------------------------------------------------
(* What is under way. *)
LEMMA Flags ==
  ASSUME FetchTypeOk
  PROVE  /\ reset_flag_r \in BOOLEAN /\ reset_req_r \in BOOLEAN /\ halt_ack_r \in BOOLEAN
         /\ dly_flush_r \in BOOLEAN /\ pc_newpend_r \in BOOLEAN /\ out_flag_r \in BOOLEAN
         /\ ir_valid_r \in BOOLEAN /\ ir_pc_vld_r \in BOOLEAN /\ rs1xn_rdrf_r \in BOOLEAN
         /\ req_same_cross_holdup_r \in BOOLEAN /\ req_need_2uop_r \in BOOLEAN
         /\ req_need_0uop_r \in BOOLEAN /\ req_lane_cross_r \in BOOLEAN
         /\ wfi_halt_req_r \in BOOLEAN /\ wfi_flag_r \in BOOLEAN /\ status_mie \in BOOLEAN
         /\ irq \in BOOLEAN
BY DEF FetchTypeOk

LEMMA NobodyIsNoAddress == /\ Nobody \notin Address /\ Lsu \notin Address /\ Ifu \notin Address
                           /\ Nobody # Lsu /\ Nobody # Ifu /\ Lsu # Ifu
BY FetchMemAssumption DEF Nobody, Lsu, Ifu, Address

\* Answers are taken as they come: the buffer behind ift2icb is empty while an
\* access is under way.
LEMMA AnswersTaken ==
  ASSUME FetchShape
  PROVE  /\ icb_rsp_valid => Accessing /\ cmd_buf \notin Address
         /\ i_rsp_valid => icb_state_r \in {"1ST", "2ND"}
         /\ icb_state_r # "IDLE" => rsp_buf = <<>> /\ out_flag_r
         /\ i_rsp_hsked = i_rsp_valid /\ icb_rsp_hsked = icb_rsp_valid
         /\ itcm_stage = Ifu \/ bus_rsp => icb_rsp_valid /\ icb_rsp_ready
<1>1. bus_rsp => bus_lane # Nobody
  BY DEF FetchShape, ItcmOrder
<1>2. icb_rsp_valid => Accessing /\ cmd_buf \notin Address
  BY <1>1 DEF icb_rsp_valid, FetchShape, FetchAwaited, Accessing, FetchTypeOk
<1>3. itcm_stage = Ifu \/ bus_rsp => icb_rsp_valid
  BY <1>1 DEF icb_rsp_valid, FetchShape, FetchAwaited
<1>4. icb_state_r # "IDLE" => rsp_buf = <<>> /\ out_flag_r
  BY DEF FetchShape, RequestAgrees, FetchAwaited
<1>5. i_rsp_valid => icb_state_r \in {"1ST", "2ND"}
  BY <1>2 DEF i_rsp_valid, Accessing
<1>6. i_rsp_hsked = i_rsp_valid
  BY <1>4, <1>5 DEF i_rsp_hsked, i_rsp_valid, i_rsp_ready
<1>7. icb_rsp_hsked = icb_rsp_valid /\ (icb_rsp_valid => icb_rsp_ready)
  <2>1. icb_rsp_valid \in BOOLEAN
    BY DEF icb_rsp_valid, FetchShape, FetchTypeOk, MemTypeOk
  <2>2. icb_rsp_valid => icb_rsp_ready
    BY <1>2, <1>4 DEF icb_rsp_ready, i_rsp_ready, Accessing
  <2>3. QED BY <2>1, <2>2 DEF icb_rsp_hsked
<1>8. QED BY <1>2, <1>3, <1>4, <1>5, <1>6, <1>7


\* A stopped clock stops a fetch unit that has nothing to ask.
LEMMA StoppedIsQuiet ==
  ASSUME FetchShape, core_wfi,
         NEW flush, NEW o_rdy, NEW oitf_empty, NEW lsu_cmd, NEW lsu_rdy,
         NEW pc, NEW addr, NEW ready, NEW rsp, NEW req, NEW valid,
         Wires(flush, o_rdy, lsu_cmd, lsu_rdy, pc, addr, ready, rsp, req, valid),
         Executes(flush, o_rdy, oitf_empty)
  PROVE  flush = Nobody /\ ~o_rdy /\ ~valid /\ ~req /\ icb_state_r = "IDLE" /\ wfi_halt_req_r
         /\ ~dly_flush_r /\ ~reset_flag_r /\ ~reset_req_r
<1>1. wfi_halt_req_r /\ ~irq /\ halt_req /\ icb_state_r = "IDLE"
      /\ ~dly_flush_r /\ ~reset_flag_r /\ ~reset_req_r
  BY DEF core_wfi, halt_req, FetchShape, NothingAsked
<1>2. flush = Nobody /\ ~o_rdy
  BY <1>1 DEF Executes, MayAccept, MayTrap
<1>3. ~MayAsk(flush) /\ ~AsksAgain
  BY <1>1, <1>2 DEF MayAsk, Flushed, AsksAgain
<1>4. QED BY <1>1, <1>2, <1>3 DEF Wires

\* A first access is asked when the last fetch is answered, a second one when
\* the first is; so none is asked while another waits before the SRAM.
LEMMA AskedInTurn ==
  ASSUME FetchShape,
         NEW flush, NEW o_rdy, NEW lsu_cmd, NEW lsu_rdy,
         NEW pc, NEW addr, NEW ready, NEW rsp, NEW req, NEW valid,
         Wires(flush, o_rdy, lsu_cmd, lsu_rdy, pc, addr, ready, rsp, req, valid)
  PROVE  /\ req_ready_condi <=> \/ icb_state_r = "IDLE"
                                \/ i_rsp_valid
         /\ AsksAgain => ~req_ready_condi /\ ~req
         /\ req => (valid <=> ~need_0uop(pc, req_seq(flush)))
         /\ valid /\ ready /\ ~AsksAgain => req
         /\ valid => cmd_buf \notin Address
         /\ valid => icb_state_r = "IDLE" \/ icb_state_r = "WAIT2ND" \/ icb_rsp_valid
                     \/ (icb_state_r = "1ST" /\ req_need_0uop_r)
<1>1. req_ready_condi <=> icb_state_r = "IDLE" \/ i_rsp_valid
  BY AnswersTaken DEF req_ready_condi, i_rsp_valid, rsp2leftover, icb_rsp_valid, FetchShape,
     RequestAgrees, FetchTypeOk, Accessing
<1>2. AsksAgain => ~req_ready_condi /\ ~req
  BY <1>1, AnswersTaken DEF AsksAgain, Wires, i_rsp_valid, rsp2leftover, FetchShape, RequestAgrees
<1>3. /\ req => (valid <=> ~need_0uop(pc, req_seq(flush)))
      /\ valid /\ ready /\ ~AsksAgain => req
  BY <1>2 DEF Wires
<1>4. valid => icb_state_r = "IDLE" \/ icb_state_r = "WAIT2ND" \/ icb_rsp_valid
               \/ (icb_state_r = "1ST" /\ req_need_0uop_r)
  BY <1>1, AnswersTaken DEF Wires, AsksAgain, i_rsp_valid
<1>5. valid => cmd_buf \notin Address
  BY <1>4, AnswersTaken DEF FetchShape, FetchAwaited
<1>6. QED BY <1>1, <1>2, <1>3, <1>4, <1>5


-----------------------------------------------------------------------------
(* The memories' side of a cycle: took says that they take the access to addr. *)
ItcmMoves(took, addr, lsu_cmd) ==
  \/ /\ cmd_buf \in Address /\ ~took
     /\ UNCHANGED <<cmd_buf, itcm_stage, ram_dout, ifu_holdup_r>>
  \/ /\ cmd_buf \in Address /\ ~took
     /\ cmd_buf' = Nobody /\ itcm_stage' = Ifu /\ ram_dout' = Lane(cmd_buf) /\ ifu_holdup_r' = FALSE
  \/ /\ cmd_buf = Nobody /\ took /\ ~lsu_cmd
     /\ cmd_buf' = Nobody /\ itcm_stage' = Ifu /\ ram_dout' = Lane(addr) /\ ifu_holdup_r' = TRUE
  \/ /\ cmd_buf = Nobody /\ took /\ ~lsu_cmd
     /\ itcm_stage = Lsu /\ cmd_buf' = addr /\ UNCHANGED <<itcm_stage, ram_dout, ifu_holdup_r>>
  \/ /\ cmd_buf = Nobody /\ ~took
     /\ cmd_buf' = Nobody /\ itcm_stage' \in {Lsu, Nobody}
     /\ \/ UNCHANGED <<ram_dout, ifu_holdup_r>> /\ (itcm_stage' = Lsu => itcm_stage = Lsu)
        \/ lsu_cmd /\ ifu_holdup_r' = FALSE /\ ram_dout' = Lsu

BusMoves(took, addr) ==
  /\ \/ took /\ bus_lane' = Lane(addr)
     \/ ~took /\ bus_rsp /\ bus_lane' = Nobody
     \/ ~took /\ ~bus_rsp /\ bus_lane' = bus_lane
  /\ took => bus_lane = Nobody \/ bus_rsp
  /\ bus_rsp' \in BOOLEAN /\ (bus_rsp' => bus_lane' # Nobody)

LEMMA ItcmStep ==
  ASSUME FetchShape,
         NEW flush, NEW o_rdy, NEW lsu_cmd, NEW lsu_rdy,
         NEW pc, NEW addr, NEW ready, NEW rsp, NEW req, NEW valid, addr \in Address,
         Wires(flush, o_rdy, lsu_cmd, lsu_rdy, pc, addr, ready, rsp, req, valid),
         ItcmCycle(IF InItcm(addr) /\ valid THEN addr ELSE Nobody, icb_rsp_ready, lsu_cmd, lsu_rdy)
  PROVE  ItcmMoves(valid /\ ready /\ InItcm(addr), addr, lsu_cmd)
<1> DEFINE ask == IF InItcm(addr) /\ valid THEN addr ELSE Nobody
           took == valid /\ ready /\ InItcm(addr)
           rsp_rdy == IF itcm_stage = Lsu THEN lsu_rdy ELSE icb_rsp_ready
           uop_rdy == itcm_stage = Nobody \/ rsp_rdy
           sel == IF lsu_cmd THEN Lsu ELSE ask
           uop == IF cmd_buf # Nobody THEN cmd_buf ELSE sel
           ram_cs == uop # Nobody /\ uop_rdy
<1>1. /\ cmd_buf' = IF uop_rdy THEN Nobody ELSE uop
      /\ itcm_stage' = IF ~uop_rdy THEN itcm_stage
                       ELSE IF uop \in Address THEN Ifu ELSE uop
      /\ ram_dout' = IF ~ram_cs THEN ram_dout
                     ELSE IF uop = Lsu THEN Lsu ELSE Lane(uop)
      /\ ifu_holdup_r' = IF ram_cs THEN ~lsu_cmd /\ ask # Nobody ELSE ifu_holdup_r
  BY DEF ItcmCycle, HoldUp
<1>2. /\ cmd_buf \in Address \cup {Nobody} /\ itcm_stage \in {Lsu, Ifu, Nobody}
      /\ cmd_buf \in Address => itcm_stage = Lsu
      /\ itcm_stage = Ifu => icb_rsp_ready
      /\ lsu_cmd \in BOOLEAN
      /\ lsu_cmd => (itcm_stage = Lsu => lsu_rdy)
  BY AnswersTaken DEF FetchShape, ItcmOrder, FetchTypeOk, MemTypeOk, Wires, Inputs, LsuMayAsk
<1>3. cmd_buf \in Address => ask = Nobody /\ ~took
  BY AskedInTurn DEF Wires
<1>4. /\ ask = Nobody \/ (ask = addr /\ (took <=> ~lsu_cmd /\ cmd_buf = Nobody))
      /\ took => ask = addr
  BY DEF Wires, ItcmReady
<1> SUFFICES ItcmMoves(took, addr, lsu_cmd)
  OBVIOUS
<1> HIDE DEF ask, took
<1>5. CASE cmd_buf \in Address
  <2>1. uop = cmd_buf /\ (uop_rdy <=> lsu_rdy) /\ (ram_cs <=> lsu_rdy)
    BY <1>2, <1>5, NobodyIsNoAddress
  <2> HIDE DEF uop, uop_rdy, ram_cs
  <2>2. CASE ~lsu_rdy
    <3>1. UNCHANGED <<cmd_buf, itcm_stage, ram_dout, ifu_holdup_r>>
      BY <1>1, <2>1, <2>2
    <3>2. QED BY <1>3, <1>5, <3>1 DEF ItcmMoves
  <2>3. CASE lsu_rdy
    <3>1. cmd_buf' = Nobody /\ itcm_stage' = Ifu /\ ram_dout' = Lane(cmd_buf) /\ ifu_holdup_r' = FALSE
      BY <1>1, <1>3, <1>5, <2>1, <2>3, NobodyIsNoAddress
    <3>2. QED BY <1>3, <1>5, <3>1 DEF ItcmMoves
  <2>4. QED BY <2>2, <2>3
<1>6. CASE cmd_buf = Nobody /\ took
  <2>1. ~lsu_cmd /\ ask = addr /\ uop = addr /\ uop # Nobody
    BY <1>4, <1>6, NobodyIsNoAddress
  <2>2. (~uop_rdy => itcm_stage = Lsu) /\ (ram_cs <=> uop_rdy)
    BY <1>2, <2>1
  <2> HIDE DEF uop, uop_rdy, ram_cs
  <2>3. CASE uop_rdy
    <3>1. cmd_buf' = Nobody /\ itcm_stage' = Ifu /\ ram_dout' = Lane(addr) /\ ifu_holdup_r' = TRUE
      BY <1>1, <2>1, <2>2, <2>3, NobodyIsNoAddress
    <3>2. QED BY <1>6, <2>1, <3>1 DEF ItcmMoves
  <2>4. CASE ~uop_rdy
    <3>1. cmd_buf' = addr /\ UNCHANGED <<itcm_stage, ram_dout, ifu_holdup_r>>
      BY <1>1, <2>1, <2>2, <2>4
    <3>2. QED BY <1>6, <2>1, <2>2, <2>4, <3>1 DEF ItcmMoves
  <2>5. QED BY <2>3, <2>4
<1>7. CASE cmd_buf = Nobody /\ ~took
  <2>1. lsu_cmd \/ ask = Nobody
    BY <1>4, <1>7
  <2>2. CASE lsu_cmd
    <3>1. uop = Lsu /\ uop_rdy /\ ram_cs
      BY <1>2, <1>7, <2>2, NobodyIsNoAddress
    <3> HIDE DEF uop, uop_rdy, ram_cs
    <3>2. cmd_buf' = Nobody /\ itcm_stage' = Lsu /\ ram_dout' = Lsu /\ ifu_holdup_r' = FALSE
      BY <1>1, <2>2, <3>1, NobodyIsNoAddress
    <3>3. QED BY <1>7, <2>2, <3>2 DEF ItcmMoves
  <2>3. CASE ~lsu_cmd
    <3>1. uop = Nobody /\ ~ram_cs /\ (~uop_rdy => itcm_stage = Lsu)
      BY <1>2, <1>7, <2>1, <2>3
    <3> HIDE DEF uop, uop_rdy, ram_cs
    <3>2. UNCHANGED <<ram_dout, ifu_holdup_r>> /\ cmd_buf' = Nobody
          /\ itcm_stage' \in {Lsu, Nobody} /\ (itcm_stage' = Lsu => itcm_stage = Lsu)
      BY <1>1, <3>1, NobodyIsNoAddress
    <3>3. QED BY <1>7, <3>2 DEF ItcmMoves
  <2>4. QED BY <2>2, <2>3
<1>8. QED BY <1>2, <1>5, <1>6, <1>7

LEMMA BusStep ==
  ASSUME FetchShape,
         NEW flush, NEW o_rdy, NEW lsu_cmd, NEW lsu_rdy, NEW answers,
         NEW pc, NEW addr, NEW ready, NEW rsp, NEW req, NEW valid, addr \in Address,
         Wires(flush, o_rdy, lsu_cmd, lsu_rdy, pc, addr, ready, rsp, req, valid),
         BusCycle(IF valid /\ ready /\ ~InItcm(addr) THEN addr ELSE Nobody, icb_rsp_ready, answers)
  PROVE  BusMoves(valid /\ ready /\ ~InItcm(addr), addr)
<1> DEFINE took == valid /\ ready /\ ~InItcm(addr)
           ask == IF took THEN addr ELSE Nobody
<1>1. (bus_rsp => icb_rsp_ready) /\ bus_rsp \in BOOLEAN
  BY AnswersTaken DEF FetchShape, FetchTypeOk, MemTypeOk
<1>2. /\ bus_lane' = IF ask # Nobody THEN Lane(ask)
                     ELSE IF bus_rsp THEN Nobody ELSE bus_lane
      /\ bus_rsp' = (bus_lane' # Nobody /\ answers)
  BY <1>1 DEF BusCycle
<1>3. took => bus_lane = Nobody \/ bus_rsp
  BY DEF Wires
<1>4. ask = (IF took THEN addr ELSE Nobody) /\ took \in BOOLEAN
  OBVIOUS
<1> HIDE DEF took, ask
<1>5. BusMoves(took, addr)
  BY <1>2, <1>3, <1>4, NobodyIsNoAddress DEF BusMoves
<1>6. QED BY <1>5 DEF took


-----------------------------------------------------------------------------
(* The values on the wires. *)
LEMMA HalfType ==
  ASSUME NEW l \in Address, Lane(l) = l, NEW i \in 0..(LaneWidth(l) - 1)
  PROVE  Half(l, i) \in Address
<1>0. l \in Int /\ 0 <= l /\ l < PC_SIZE
  BY FetchMemAssumption DEF Address
<1>1. CASE InItcm(l)
  <2>1. l % 4 = 0 /\ i \in 0..3
    BY <1>0, <1>1, LaneIs DEF LaneWidth
  <2>2. l + i < PC_SIZE
    BY <1>0, <2>1, FetchMemAssumption
  <2>3. QED BY <1>0, <2>1, <2>2, FetchMemAssumption DEF Half, Address
<1>2. CASE ~InItcm(l)
  <2>1. l % 2 = 0 /\ i \in 0..1
    BY <1>0, <1>2, LaneIs DEF LaneWidth
  <2>2. l + i < PC_SIZE
    BY <1>0, <2>1, FetchMemAssumption
  <2>3. QED BY <1>0, <2>1, <2>2, FetchMemAssumption DEF Half, Address
<1>3. QED BY <1>1, <1>2

LEMMA ResponseType ==
  ASSUME FetchShape
  PROVE  /\ \A i \in 0..(IF icb_cmd2_r = "itcm" THEN 3 ELSE 1) : Half(rsp_lane, i) \in Word
         /\ i_rsp_instr \in Word \X Word /\ ifu_ir_nxt \in Word \X Word
<1>1. \A i \in 0..(IF icb_cmd2_r = "itcm" THEN 3 ELSE 1) : Half(rsp_lane, i) \in Word
  <2>1. ASSUME NEW i \in 0..(IF icb_cmd2_r = "itcm" THEN 3 ELSE 1), rsp_lane \in Address
        PROVE  Half(rsp_lane, i) \in Address
    <3>1. CASE icb_cmd2_r = "itcm"
      <4>1. Lane(rsp_lane) = rsp_lane /\ LaneWidth(rsp_lane) = 4
        BY <2>1, <3>1 DEF rsp_lane, LaneWidth, FetchShape, ItcmOrder
      <4>2. QED BY <2>1, <3>1, <4>1, HalfType
    <3>2. CASE icb_cmd2_r # "itcm"
      <4>1. Lane(rsp_lane) = rsp_lane /\ LaneWidth(rsp_lane) = 2
        BY <2>1, <3>2, NobodyIsNoAddress DEF rsp_lane, LaneWidth, FetchShape, ItcmOrder
      <4>2. QED BY <2>1, <3>2, <4>1, HalfType
    <3>3. QED BY <3>1, <3>2
  <2>2. QED BY <2>1 DEF Half, Word
<1>2. aligned \in Word \X Word
  <2> DEFINE o == IF icb_cmd2_r = "itcm" THEN icb_cmd_addr_2_1_r ELSE 0
  <2>1. o \in 0..3 /\ (icb_cmd2_r # "itcm" => o = 0)
    BY DEF FetchShape, FetchTypeOk
  <2>2. aligned = IF o = 3 THEN <<Lsu, Lsu>> ELSE <<Half(rsp_lane, o), Half(rsp_lane, o + 1)>>
    BY DEF aligned
  <2> HIDE DEF o
  <2>3. o # 3 => Half(rsp_lane, o) \in Word /\ Half(rsp_lane, o + 1) \in Word
    <3>1. o # 3 => /\ o \in 0..(IF icb_cmd2_r = "itcm" THEN 3 ELSE 1)
                   /\ o + 1 \in 0..(IF icb_cmd2_r = "itcm" THEN 3 ELSE 1)
      BY <2>1
    <3>2. QED BY <1>1, <3>1
  <2>4. QED BY <2>2, <2>3 DEF Word
<1>3. <<leftover_r, Half(rsp_lane, 0)>> \in Word \X Word
  BY <1>1 DEF FetchShape, FetchTypeOk
<1>4. i_rsp_instr \in Word \X Word
  BY <1>2, <1>3 DEF i_rsp_instr
<1>5. rsp_buf # <<>> => Head(rsp_buf) \in Word \X Word
  <2>1. rsp_buf \in Seq(Word \X Word)
    BY DEF FetchShape, FetchTypeOk
  <2>2. QED BY <2>1
<1>6. QED BY <1>1, <1>4, <1>5 DEF ifu_ir_nxt

LEMMA PcType ==
  ASSUME FetchShape, NEW flush \in Address \cup {Nobody}
  PROVE  /\ Length(kind) \in {1, 2} /\ pc_nxt(flush) \in Address
         /\ cmd_addr(pc_nxt(flush), req_seq(flush)) \in Address
<1>1. Length(kind) \in {1, 2}
  BY DEF Length
<1>2. pc_r \in Address /\ 0 \in Address
  BY FetchMemAssumption DEF FetchShape, FetchTypeOk, Address
<1>3. bjp_req => Target(jump_base) \in Address
  BY <1>2, FetchAssumption DEF bjp_req, kind, jump_base
<1>4. \A n \in 0..3 : Plus(pc_r, n) \in Address
  BY <1>2, PlusIs
<1>5. pc_nxt(flush) \in Address
  BY <1>1, <1>2, <1>3, <1>4 DEF pc_nxt
<1>6. Length(kind) + 1 \in 0..3
  BY <1>1
<1>7. QED BY <1>1, <1>4, <1>5, <1>6 DEF cmd_addr


-----------------------------------------------------------------------------
(* FetchShape, part by part. *)
LEMMA ItcmOrderStep ==
  ASSUME FetchShape, NEW addr \in Address, NEW asked, NEW lsu_cmd,
         ItcmMoves(asked /\ InItcm(addr), addr, lsu_cmd),
         BusMoves(asked /\ ~InItcm(addr), addr)
  PROVE  ItcmOrder' /\ MemTypeOk'
<1>1. /\ cmd_buf' # Lsu /\ cmd_buf' \in Address \cup {Nobody}
      /\ itcm_stage' \in {Lsu, Ifu, Nobody} /\ ifu_holdup_r' \in BOOLEAN
      /\ cmd_buf' \in Address => InItcm(cmd_buf') /\ itcm_stage' = Lsu
      /\ itcm_stage' = Lsu => ~ifu_holdup_r'
  <2>1. /\ cmd_buf \in Address \cup {Nobody} /\ itcm_stage \in {Lsu, Ifu, Nobody}
        /\ ifu_holdup_r \in BOOLEAN /\ (itcm_stage = Lsu => ~ifu_holdup_r)
        /\ cmd_buf \in Address => InItcm(cmd_buf) /\ itcm_stage = Lsu
    BY NobodyIsNoAddress DEF FetchShape, ItcmOrder, FetchTypeOk, MemTypeOk
  <2>2. \/ UNCHANGED <<cmd_buf, itcm_stage, ifu_holdup_r>>
        \/ cmd_buf' = Nobody /\ itcm_stage' = Ifu /\ ifu_holdup_r' \in BOOLEAN
        \/ cmd_buf' = addr /\ InItcm(addr) /\ UNCHANGED <<itcm_stage, ifu_holdup_r>> /\ itcm_stage = Lsu
        \/ /\ cmd_buf' = Nobody /\ itcm_stage' \in {Lsu, Nobody}
           /\ \/ ifu_holdup_r' = ifu_holdup_r /\ (itcm_stage' = Lsu => itcm_stage = Lsu)
              \/ ifu_holdup_r' = FALSE
    BY DEF ItcmMoves
  <2>3. CASE UNCHANGED <<cmd_buf, itcm_stage, ifu_holdup_r>>
    BY <2>1, <2>3, NobodyIsNoAddress
  <2>4. CASE cmd_buf' = Nobody /\ itcm_stage' = Ifu /\ ifu_holdup_r' \in BOOLEAN
    BY <2>4, NobodyIsNoAddress
  <2>7. CASE /\ cmd_buf' = Nobody /\ itcm_stage' \in {Lsu, Nobody}
             /\ ifu_holdup_r' = ifu_holdup_r /\ (itcm_stage' = Lsu => itcm_stage = Lsu)
    BY <2>1, <2>7, NobodyIsNoAddress
  <2>8. CASE cmd_buf' = Nobody /\ itcm_stage' \in {Lsu, Nobody} /\ ifu_holdup_r' = FALSE
    BY <2>8, NobodyIsNoAddress
  <2>5. CASE cmd_buf' = addr /\ InItcm(addr) /\ UNCHANGED <<itcm_stage, ifu_holdup_r>> /\ itcm_stage = Lsu
    BY <2>1, <2>5, NobodyIsNoAddress
  <2>6. QED BY <2>2, <2>3, <2>4, <2>5, <2>7, <2>8
<1>2. /\ ram_dout' \in Address \cup {Lsu}
      /\ ram_dout' \in Address => InItcm(ram_dout') /\ Lane(ram_dout') = ram_dout'
  <2>1. \/ ram_dout' = ram_dout \/ ram_dout' = Lsu
        \/ cmd_buf \in Address /\ InItcm(cmd_buf) /\ ram_dout' = Lane(cmd_buf)
        \/ InItcm(addr) /\ ram_dout' = Lane(addr)
    BY DEF ItcmMoves, FetchShape, ItcmOrder
  <2>2. QED BY <2>1, LaneIs, NobodyIsNoAddress DEF FetchShape, ItcmOrder, FetchTypeOk, MemTypeOk
<1>3. /\ bus_lane' \in Address \cup {Nobody} /\ bus_rsp' \in BOOLEAN
      /\ bus_lane' \in Address => ~InItcm(bus_lane') /\ Lane(bus_lane') = bus_lane'
      /\ bus_rsp' => bus_lane' # Nobody
  <2>1. \/ bus_lane' = bus_lane \/ bus_lane' = Nobody
        \/ ~InItcm(addr) /\ bus_lane' = Lane(addr)
    BY DEF BusMoves
  <2>2. QED BY <2>1, LaneIs, NobodyIsNoAddress DEF BusMoves, FetchShape, ItcmOrder, FetchTypeOk, MemTypeOk
<1>4. ItcmOrder'
  BY <1>1, <1>2, <1>3 DEF ItcmOrder, InItcm, Lane, LaneWidth
<1>5. MemTypeOk'
  BY <1>1, <1>2, <1>3 DEF MemTypeOk, Address
<1>6. QED BY <1>4, <1>5

\* The registers of ift2icb that follow the state of a request.
RequestRegisters(req, rsp, asked, ready, pc, seq, addr) ==
  /\ icb_state_r' = state_nxt(req, ready)
  /\ out_flag_r' = (req \/ (out_flag_r /\ ~rsp))
  /\ req_same_cross_holdup_r' = IF req THEN same_cross_holdup(pc, seq) ELSE req_same_cross_holdup_r
  /\ req_need_2uop_r' = IF req THEN need_2uop(pc, seq) ELSE req_need_2uop_r
  /\ req_need_0uop_r' = IF req THEN need_0uop(pc, seq) ELSE req_need_0uop_r
  /\ req_lane_cross_r' = IF req THEN lane_cross(pc) ELSE req_lane_cross_r
  /\ icb_cmd2_r' = IF ~asked THEN icb_cmd2_r ELSE IF InItcm(addr) THEN "itcm" ELSE "biu"
  /\ rsp_buf' = IF rsp_buf # <<>> THEN (IF rsp THEN <<>> ELSE rsp_buf)
                ELSE IF i_rsp_valid /\ ~rsp THEN <<i_rsp_instr>> ELSE <<>>

LEMMA RequestRegistersOf ==
  ASSUME NEW flush, NEW o_rdy, NEW oitf_empty, NEW req, NEW rsp, NEW asked, NEW ready,
         NEW pc, NEW addr, 
         Registers(flush, o_rdy, oitf_empty, req, rsp, asked, ready, pc, addr)
  PROVE  RequestRegisters(req, rsp, asked, ready, pc, req_seq(flush), addr)
BY DEF Registers, RequestRegisters


\* ift2icb is in one of three situations: it starts a request or has none, it
\* asks for the second lane, or it waits.
StateMoves(req, asked, zero) ==
  \/ /\ icb_state_r = "IDLE" \/ i_rsp_valid
     /\ icb_state_r' = IF req THEN "1ST" ELSE "IDLE"
     /\ asked <=> req /\ ~zero
  \/ /\ (icb_state_r = "1ST" /\ icb_rsp_valid) \/ icb_state_r = "WAIT2ND"
     /\ req_need_2uop_r /\ ~req /\ ~i_rsp_valid
     /\ icb_state_r' = IF asked THEN "2ND" ELSE "WAIT2ND"
  \/ Accessing /\ ~icb_rsp_valid /\ ~i_rsp_valid /\ ~req /\ ~asked /\ icb_state_r' = icb_state_r

LEMMA StateStep ==
  ASSUME FetchShape,
         NEW flush, NEW o_rdy, NEW lsu_cmd, NEW lsu_rdy,
         NEW pc, NEW addr, NEW ready, NEW rsp, NEW req, NEW valid,
         Wires(flush, o_rdy, lsu_cmd, lsu_rdy, pc, addr, ready, rsp, req, valid),
         icb_state_r' = state_nxt(req, ready)
  PROVE  StateMoves(req, valid /\ ready, need_0uop(pc, req_seq(flush)))
<1> DEFINE zero == need_0uop(pc, req_seq(flush))
<1>1. /\ req \in BOOLEAN /\ valid \in BOOLEAN /\ ready \in BOOLEAN
      /\ AsksAgain => valid
      /\ req => req_ready_condi /\ ready
      /\ valid => req_ready_condi \/ AsksAgain
  BY DEF Wires
<1>2. /\ req_ready_condi <=> icb_state_r = "IDLE" \/ i_rsp_valid
      /\ AsksAgain => ~req_ready_condi /\ ~req
      /\ req => (valid <=> ~zero)
      /\ valid /\ ready /\ ~AsksAgain => req
  BY AskedInTurn
<1>3. /\ icb_state_r \in {"IDLE", "1ST", "WAIT2ND", "2ND"}
      /\ icb_state_r \in {"WAIT2ND", "2ND"} => req_need_2uop_r
      /\ req_need_2uop_r => ~req_need_0uop_r
      /\ req_need_2uop_r \in BOOLEAN /\ req_need_0uop_r \in BOOLEAN
  BY DEF FetchShape, RequestAgrees, FetchTypeOk
<1>4. /\ i_rsp_valid <=> \/ icb_state_r = "1ST" /\ req_need_0uop_r
                         \/ icb_rsp_valid /\ ~(req_need_2uop_r /\ icb_state_r = "1ST")
      /\ icb_rsp_valid => Accessing
      /\ i_rsp_hsked = i_rsp_valid /\ icb_rsp_hsked = icb_rsp_valid
      /\ Accessing <=> icb_state_r = "2ND" \/ (icb_state_r = "1ST" /\ ~req_need_0uop_r)
  BY AnswersTaken, <1>3 DEF i_rsp_valid, rsp2leftover, Accessing
<1>5. /\ AsksAgain <=> req_need_2uop_r /\ ((icb_state_r = "1ST" /\ icb_rsp_valid) \/ icb_state_r = "WAIT2ND")
      /\ rsp2leftover <=> req_need_2uop_r /\ icb_state_r = "1ST"
  BY <1>4 DEF AsksAgain, rsp2leftover
<1> SUFFICES StateMoves(req, valid /\ ready, zero)
  OBVIOUS
<1> HIDE DEF zero
<1>6. CASE icb_state_r = "IDLE" \/ i_rsp_valid
  <2>1. ~AsksAgain /\ (valid /\ ready <=> req /\ ~zero)
    BY <1>1, <1>2, <1>6
  <2>2. icb_state_r' = IF req THEN "1ST" ELSE "IDLE"
    BY <1>1, <1>3, <1>4, <1>5, <1>6 DEF state_nxt
  <2>3. QED BY <1>6, <2>1, <2>2 DEF StateMoves
<1>7. CASE AsksAgain
  <2>1. icb_state_r' = IF ready THEN "2ND" ELSE "WAIT2ND"
    BY <1>1, <1>3, <1>4, <1>5, <1>7 DEF state_nxt
  <2>2. ~i_rsp_valid /\ ~req /\ valid
    BY <1>1, <1>2, <1>7
  <2>3. QED BY <1>3, <1>5, <1>7, <2>1, <2>2 DEF StateMoves
<1>8. CASE ~(icb_state_r = "IDLE" \/ i_rsp_valid) /\ ~AsksAgain
  <2>1. ~valid /\ ~req
    BY <1>1, <1>2, <1>8
  <2>2. Accessing /\ ~icb_rsp_valid /\ icb_state_r # "WAIT2ND"
    BY <1>3, <1>4, <1>5, <1>8
  <2>3. icb_state_r' = icb_state_r
    BY <1>3, <1>4, <1>5, <1>8, <2>2 DEF state_nxt
  <2>4. QED BY <1>8, <2>1, <2>2, <2>3 DEF StateMoves
<1>9. QED BY <1>6, <1>7, <1>8

LEMMA BusyStep ==
  ASSUME FetchShape, NEW addr \in Address, NEW asked, NEW lsu_cmd,
         ItcmMoves(asked /\ InItcm(addr), addr, lsu_cmd),
         BusMoves(asked /\ ~InItcm(addr), addr)
  PROVE  /\ (cmd_buf' \in Address \/ itcm_stage' = Ifu) <=> (cmd_buf \in Address \/ (asked /\ InItcm(addr)))
         /\ ~(cmd_buf' \in Address /\ itcm_stage' = Ifu)
         /\ bus_lane' # Nobody <=> (bus_lane # Nobody /\ ~bus_rsp) \/ (asked /\ ~InItcm(addr))
<1>1. cmd_buf \in Address => itcm_stage = Lsu
  BY DEF FetchShape, ItcmOrder
<1>2. /\ (cmd_buf' \in Address \/ itcm_stage' = Ifu) <=> (cmd_buf \in Address \/ (asked /\ InItcm(addr)))
      /\ ~(cmd_buf' \in Address /\ itcm_stage' = Ifu)
  BY <1>1, NobodyIsNoAddress DEF ItcmMoves
<1>3. bus_lane' # Nobody <=> (bus_lane # Nobody /\ ~bus_rsp) \/ (asked /\ ~InItcm(addr))
  <2>1. Lane(addr) # Nobody
    BY LaneIs, NobodyIsNoAddress
  <2>2. (asked /\ ~InItcm(addr)) => bus_lane = Nobody \/ bus_rsp
    BY DEF BusMoves
  <2>3. QED BY <2>1, <2>2 DEF BusMoves
<1>4. QED BY <1>2, <1>3


\* The accesses agree while the clock runs.
LEMMA RunningAwaited ==
  ASSUME FetchShape, ~core_wfi,
         NEW flush, NEW o_rdy, NEW oitf_empty, NEW lsu_cmd, NEW lsu_rdy, NEW answers,
         NEW pc, NEW addr, NEW ready, NEW rsp, NEW req, NEW valid,
         Edge(flush, o_rdy, oitf_empty, lsu_cmd, lsu_rdy, answers, pc, addr, ready, rsp, req, valid)
  PROVE  FetchAwaited' /\ RequestAgrees'
<1> DEFINE asked == valid /\ ready
           zero  == need_0uop(pc, req_seq(flush))
           two   == need_2uop(pc, req_seq(flush))
           same  == same_cross_holdup(pc, req_seq(flush))
<1>1. /\ Wires(flush, o_rdy, lsu_cmd, lsu_rdy, pc, addr, ready, rsp, req, valid)
      /\ RequestRegisters(req, rsp, asked, ready, pc, req_seq(flush), addr)
  BY RequestRegistersOf DEF Edge
<1>2. addr \in Address /\ asked \in BOOLEAN
  BY <1>1, PcType DEF Wires, Inputs
<1>3. /\ ItcmMoves(asked /\ InItcm(addr), addr, lsu_cmd)
      /\ BusMoves(asked /\ ~InItcm(addr), addr)
  BY <1>1, <1>2, ItcmStep, BusStep DEF Edge
<1>4. /\ (cmd_buf' \in Address \/ itcm_stage' = Ifu) <=> (cmd_buf \in Address \/ (asked /\ InItcm(addr)))
      /\ ~(cmd_buf' \in Address /\ itcm_stage' = Ifu)
      /\ bus_lane' # Nobody <=> (bus_lane # Nobody /\ ~bus_rsp) \/ (asked /\ ~InItcm(addr))
  BY <1>2, <1>3, BusyStep
<1>5. StateMoves(req, asked, zero)
  BY <1>1, StateStep DEF RequestRegisters
<1>6. /\ req_need_2uop_r' = IF req THEN two ELSE req_need_2uop_r
      /\ req_need_0uop_r' = IF req THEN zero ELSE req_need_0uop_r
      /\ req_same_cross_holdup_r' = IF req THEN same ELSE req_same_cross_holdup_r
      /\ icb_cmd2_r' = IF ~asked THEN icb_cmd2_r ELSE IF InItcm(addr) THEN "itcm" ELSE "biu"
      /\ out_flag_r' = (req \/ (out_flag_r /\ ~rsp))
      /\ rsp_buf' = IF rsp_buf # <<>> THEN (IF rsp THEN <<>> ELSE rsp_buf)
                    ELSE IF i_rsp_valid /\ ~rsp THEN <<i_rsp_instr>> ELSE <<>>
  BY <1>1 DEF RequestRegisters
<1>7. /\ two => ~zero /\ ~same
      /\ same => ~zero
      /\ two \in BOOLEAN /\ zero \in BOOLEAN /\ same \in BOOLEAN
  BY DEF need_2uop, need_0uop, same_cross_holdup
<1>8. /\ out_flag_r <=> icb_state_r # "IDLE" \/ rsp_buf # <<>>
      /\ (cmd_buf \in Address \/ itcm_stage = Ifu) <=> (Accessing /\ icb_cmd2_r = "itcm")
      /\ bus_lane # Nobody <=> (Accessing /\ icb_cmd2_r = "biu")
      /\ rsp_buf # <<>> => icb_state_r = "IDLE"
      /\ icb_state_r \in {"WAIT2ND", "2ND"} => req_need_2uop_r
      /\ req_need_2uop_r => ~req_need_0uop_r /\ ~req_same_cross_holdup_r
      /\ req_same_cross_holdup_r => ~req_need_0uop_r
      /\ bus_rsp => bus_lane # Nobody
      /\ icb_state_r \in {"IDLE", "1ST", "WAIT2ND", "2ND"}
  BY DEF FetchShape, FetchAwaited, RequestAgrees, ItcmOrder, Accessing, FetchTypeOk
<1>9. /\ icb_rsp_valid => Accessing /\ cmd_buf \notin Address
      /\ i_rsp_valid => icb_state_r \in {"1ST", "2ND"}
      /\ bus_rsp => icb_rsp_valid
      /\ icb_rsp_valid => (icb_cmd2_r = "biu" => bus_rsp)
      /\ Accessing <=> /\ icb_state_r \in {"1ST", "2ND"}
                       /\ ~(icb_state_r = "1ST" /\ req_need_0uop_r)
      /\ i_rsp_valid <=> (icb_state_r = "1ST" /\ req_need_0uop_r) \/ (icb_rsp_valid /\ ~rsp2leftover)
  BY AnswersTaken DEF Accessing, icb_rsp_valid, i_rsp_valid
<1>10. /\ rsp => rsp_buf # <<>> \/ i_rsp_valid
       /\ req => ~out_flag_r \/ rsp
       /\ rsp \in BOOLEAN /\ req \in BOOLEAN
  BY <1>1 DEF Wires, rsp_valid
<1> HIDE DEF asked, zero, two, same
<1>11. RequestAgrees'
  <2>1. rsp_buf' # <<>> => icb_state_r' = "IDLE"
    <3>1. rsp_buf' # <<>> => ~rsp /\ (rsp_buf # <<>> \/ i_rsp_valid)
      BY <1>6
    <3>2. rsp_buf' # <<>> => ~req /\ (icb_state_r = "IDLE" \/ i_rsp_valid)
      BY <1>8, <1>9, <1>10, <3>1
    <3>3. QED BY <1>5, <1>8, <3>2 DEF StateMoves
  <2>2. icb_state_r' \in {"WAIT2ND", "2ND"} => req_need_2uop_r'
    BY <1>5, <1>6, <1>8 DEF StateMoves
  <2>3. /\ req_need_2uop_r' => ~req_need_0uop_r' /\ ~req_same_cross_holdup_r'
        /\ req_same_cross_holdup_r' => ~req_need_0uop_r'
    BY <1>6, <1>7, <1>8
  <2>4. QED BY <2>1, <2>2, <2>3 DEF RequestAgrees
<1>12. out_flag_r' <=> icb_state_r' # "IDLE" \/ rsp_buf' # <<>>
  <2>1. CASE icb_state_r = "IDLE" \/ i_rsp_valid
    <3>1. icb_state_r' = IF req THEN "1ST" ELSE "IDLE"
      BY <1>5, <1>8, <1>9, <2>1 DEF StateMoves, Accessing
    <3>2. ~req => (out_flag_r' <=> rsp_buf' # <<>>)
      BY <1>6, <1>8, <1>9, <1>10, <2>1
    <3>3. QED BY <1>6, <3>1, <3>2
  <2>2. CASE ~(icb_state_r = "IDLE" \/ i_rsp_valid)
    <3>1. ~rsp /\ ~req /\ out_flag_r
      BY <1>5, <1>8, <1>10, <2>2 DEF StateMoves
    <3>2. icb_state_r' # "IDLE"
      BY <1>5, <2>2 DEF StateMoves, Accessing
    <3>3. QED BY <1>6, <3>1, <3>2
  <2>3. QED BY <2>1, <2>2
<1>13. /\ Accessing' /\ icb_cmd2_r' = "itcm" <=> (cmd_buf \in Address \/ (asked /\ InItcm(addr)))
       /\ Accessing' /\ icb_cmd2_r' = "biu" <=>
            (bus_lane # Nobody /\ ~bus_rsp) \/ (asked /\ ~InItcm(addr))
  <2>1. Accessing' <=> /\ icb_state_r' \in {"1ST", "2ND"}
                       /\ ~(icb_state_r' = "1ST" /\ req_need_0uop_r')
    BY DEF Accessing
  <2>2. CASE icb_state_r = "IDLE" \/ i_rsp_valid
    <3>1. /\ icb_state_r' = IF req THEN "1ST" ELSE "IDLE"
          /\ asked <=> req /\ ~zero
      BY <1>5, <1>8, <1>9, <2>2 DEF StateMoves, Accessing
    <3>2. Accessing' <=> asked
      BY <1>6, <2>1, <3>1
    <3>3. cmd_buf \notin Address /\ ~(bus_lane # Nobody /\ ~bus_rsp)
      BY <1>8, <1>9, <2>2
    <3>4. QED BY <1>6, <3>2, <3>3
  <2>3. CASE /\ (icb_state_r = "1ST" /\ icb_rsp_valid) \/ icb_state_r = "WAIT2ND"
             /\ ~req /\ icb_state_r' = IF asked THEN "2ND" ELSE "WAIT2ND"
    <3>1. Accessing' <=> asked
      BY <2>1, <2>3
    <3>2. cmd_buf \notin Address /\ ~(bus_lane # Nobody /\ ~bus_rsp)
      BY <1>8, <1>9, <2>3
    <3>3. QED BY <1>6, <3>1, <3>2
  <2>4. CASE Accessing /\ ~icb_rsp_valid /\ ~req /\ ~asked /\ icb_state_r' = icb_state_r
    <3>1. Accessing' /\ icb_cmd2_r' = icb_cmd2_r
      BY <1>6, <1>9, <2>1, <2>4
    <3>2. itcm_stage # Ifu /\ ~bus_rsp
      BY <2>4, AnswersTaken
    <3>3. QED BY <1>8, <2>4, <3>1, <3>2
  <2>5. QED BY <1>5, <2>2, <2>3, <2>4 DEF StateMoves
<1>14. FetchAwaited'
  BY <1>4, <1>12, <1>13 DEF FetchAwaited, Accessing, Address
<1>15. QED BY <1>11, <1>14


\* The memories keep their order, and agree with a fetch unit that stands still.
LEMMA MemoriesStep ==
  ASSUME FetchShape,
         NEW flush, NEW o_rdy, NEW oitf_empty, NEW lsu_cmd, NEW lsu_rdy, NEW answers,
         NEW pc, NEW addr, NEW ready, NEW rsp, NEW req, NEW valid,
         Edge(flush, o_rdy, oitf_empty, lsu_cmd, lsu_rdy, answers, pc, addr, ready, rsp, req, valid)
  PROVE  /\ pc \in Address /\ addr \in Address
         /\ ItcmMoves((valid /\ ready) /\ InItcm(addr), addr, lsu_cmd)
         /\ BusMoves((valid /\ ready) /\ ~InItcm(addr), addr)
         /\ ItcmOrder' /\ MemTypeOk'
<1>1. pc \in Address /\ addr \in Address
  BY PcType DEF Edge, Wires, Inputs
<1>2. ItcmMoves(valid /\ ready /\ InItcm(addr), addr, lsu_cmd)
  BY <1>1, ItcmStep DEF Edge
<1>3. BusMoves(valid /\ ready /\ ~InItcm(addr), addr)
  <2>1. /\ Wires(flush, o_rdy, lsu_cmd, lsu_rdy, pc, addr, ready, rsp, req, valid)
        /\ BusCycle(IF valid /\ ready /\ ~InItcm(addr) THEN addr ELSE Nobody, icb_rsp_ready, answers)
    BY DEF Edge
  <2>2. QED BY <1>1, <2>1, BusStep
<1>4. /\ ItcmMoves((valid /\ ready) /\ InItcm(addr), addr, lsu_cmd)
      /\ BusMoves((valid /\ ready) /\ ~InItcm(addr), addr)
  BY <1>2, <1>3
<1>5. ItcmOrder' /\ MemTypeOk'
  BY <1>1, <1>4, ItcmOrderStep
<1>6. QED BY <1>1, <1>4, <1>5

LEMMA StoppedAwaited ==
  ASSUME FetchShape, core_wfi,
         NEW flush, NEW o_rdy, NEW oitf_empty, NEW lsu_cmd, NEW lsu_rdy, NEW answers,
         NEW pc, NEW addr, NEW ready, NEW rsp, NEW req, NEW valid,
         Edge(flush, o_rdy, oitf_empty, lsu_cmd, lsu_rdy, answers, pc, addr, ready, rsp, req, valid),
         Executes(flush, o_rdy, oitf_empty)
  PROVE  FetchAwaited' /\ RequestAgrees' /\ UNCHANGED clockVars
<1>1. UNCHANGED clockVars
  BY DEF Edge
<1>2. ~valid /\ icb_state_r = "IDLE"
  BY StoppedIsQuiet DEF Edge
<1>3. /\ (cmd_buf' \in Address \/ itcm_stage' = Ifu) <=> (cmd_buf \in Address)
      /\ ~(cmd_buf' \in Address /\ itcm_stage' = Ifu)
      /\ bus_lane' # Nobody <=> (bus_lane # Nobody /\ ~bus_rsp)
  <2> DEFINE asked == valid /\ ready
  <2>1. /\ addr \in Address
        /\ ItcmMoves(asked /\ InItcm(addr), addr, lsu_cmd)
        /\ BusMoves(asked /\ ~InItcm(addr), addr)
    BY MemoriesStep
  <2>2. ~asked
    BY <1>2
  <2> HIDE DEF asked
  <2>3. QED BY <2>1, <2>2, BusyStep
<1>4. /\ out_flag_r <=> rsp_buf # <<>>
      /\ cmd_buf \notin Address /\ bus_lane = Nobody
  BY <1>2 DEF FetchShape, FetchAwaited
<1>5. FetchAwaited'
  BY <1>1, <1>2, <1>3, <1>4 DEF FetchAwaited, clockVars, Address
<1>6. RequestAgrees'
  BY <1>1 DEF FetchShape, RequestAgrees, clockVars
<1>7. QED BY <1>1, <1>5, <1>6


\* What the execution stage cannot do out of reset and in a WFI.
LEMMA ExecutionHolds ==
  ASSUME FetchShape, NEW flush, NEW o_rdy, NEW oitf_empty,
         Executes(flush, o_rdy, oitf_empty)
  PROVE  /\ o_rdy => ir_valid_r /\ ~wfi_halt_req_r
         /\ wfi_halt_req_r' =>
              flush = Nobody /\ ~irq /\ (wfi_halt_req_r \/ (o_rdy /\ ir_valid_r))
         /\ halt_req => flush = Nobody /\ wfi_halt_req_r' /\ ~irq /\ wfi_halt_req_r
         /\ reset_flag_r \/ reset_req_r =>
              flush = Nobody /\ ~wfi_halt_req_r' /\ ~status_mie' /\ next_pc' = next_pc
         /\ wfi_flag_r' => ~irq /\ wfi_halt_req_r /\ halt_ack_r
         /\ wfi_halt_req_r' \in BOOLEAN /\ wfi_flag_r' \in BOOLEAN
         /\ status_mie' \in BOOLEAN /\ irq' \in BOOLEAN
         /\ irqs' \in 0..MaxIrq /\ flushes' \in 0..MaxFlush
<1>1. PICK cause \in {"none", "branch", "trap", "mret"}, commits \in {"other", "disable", "enable", "wfi"},
           raise \in BOOLEAN, drop \in BOOLEAN :
        /\ Execution(flush, cause, o_rdy, commits, wfi_halt_req_r /\ oitf_empty, raise, drop)
        /\ cause = "none" <=> flush = Nobody
        /\ cause # "none" => flushes < MaxFlush
        /\ raise => irqs < MaxIrq
        /\ o_rdy => MayAccept
        /\ cause = "trap" => MayTrap(oitf_empty) /\ ~o_rdy
        /\ cause \in {"branch", "mret"} => o_rdy
        /\ commits # "other" => o_rdy /\ cause = "none"
  BY DEF Executes
<1>2. /\ wfi_halt_req_r' = ((wfi_halt_req_r \/ commits = "wfi") /\ ~irq)
      /\ wfi_flag_r' = IF irq THEN FALSE
                       ELSE wfi_flag_r \/ ((wfi_halt_req_r /\ oitf_empty) /\ halt_req /\ halt_ack_r)
      /\ status_mie' = (\/ cause = "mret" \/ commits = "enable"
                        \/ status_mie /\ cause # "trap" /\ commits # "disable")
      /\ irq' = (raise \/ (irq /\ ~drop))
      /\ irqs' = irqs + (IF raise THEN 1 ELSE 0)
      /\ flushes' = flushes + (IF flush # Nobody THEN 1 ELSE 0)
      /\ next_pc' = IF flush # Nobody THEN flush
                    ELSE IF ir_valid_r /\ o_rdy THEN Successor(next_pc) ELSE next_pc
  BY <1>1 DEF Execution
<1>3. /\ o_rdy => ir_valid_r /\ ~wfi_halt_req_r /\ ~(irq /\ status_mie)
      /\ cause = "trap" => (irq /\ status_mie) \/ (~wfi_halt_req_r /\ ~reset_flag_r /\ ~reset_req_r)
  BY <1>1 DEF MayAccept, MayTrap
<1>4. /\ reset_flag_r \/ reset_req_r => ~ir_valid_r /\ ~wfi_halt_req_r /\ ~status_mie
      /\ wfi_flag_r => wfi_halt_req_r /\ halt_ack_r
      /\ halt_req <=> wfi_halt_req_r /\ ~irq
  BY DEF FetchShape, NothingAsked, halt_req
<1>5. wfi_halt_req_r' => flush = Nobody /\ ~irq /\ (wfi_halt_req_r \/ (o_rdy /\ ir_valid_r))
  BY <1>1, <1>2, <1>3
<1>6. halt_req => flush = Nobody /\ wfi_halt_req_r' /\ ~irq /\ wfi_halt_req_r
  BY <1>1, <1>2, <1>3, <1>4
<1>7. reset_flag_r \/ reset_req_r => cause = "none" /\ ~o_rdy
  BY <1>1, <1>3, <1>4
<1>8. reset_flag_r \/ reset_req_r =>
        flush = Nobody /\ ~wfi_halt_req_r' /\ ~status_mie' /\ next_pc' = next_pc
  BY <1>1, <1>2, <1>4, <1>7
<1>9. wfi_flag_r' => ~irq /\ wfi_halt_req_r /\ halt_ack_r
  BY <1>2, <1>4
<1>10. irqs \in 0..MaxIrq /\ flushes \in 0..MaxFlush /\ wfi_flag_r \in BOOLEAN
  BY Flags DEF FetchShape, FetchTypeOk
<1>11. irqs' \in 0..MaxIrq /\ flushes' \in 0..MaxFlush
  BY <1>1, <1>2, <1>10, FetchAssumption
<1>12. /\ wfi_halt_req_r' \in BOOLEAN /\ wfi_flag_r' \in BOOLEAN
       /\ status_mie' \in BOOLEAN /\ irq' \in BOOLEAN
  BY <1>2, <1>10
<1>13. QED BY <1>3, <1>5, <1>6, <1>8, <1>9, <1>11, <1>12


LEMMA NothingAskedStep ==
  ASSUME FetchShape,
         NEW flush, NEW o_rdy, NEW oitf_empty, NEW lsu_cmd, NEW lsu_rdy, NEW answers,
         NEW pc, NEW addr, NEW ready, NEW rsp, NEW req, NEW valid,
         Edge(flush, o_rdy, oitf_empty, lsu_cmd, lsu_rdy, answers, pc, addr, ready, rsp, req, valid),
         Executes(flush, o_rdy, oitf_empty)
  PROVE  NothingAsked'
<1>1. /\ o_rdy => ir_valid_r /\ ~wfi_halt_req_r
      /\ wfi_halt_req_r' =>
           flush = Nobody /\ ~irq /\ (wfi_halt_req_r \/ (o_rdy /\ ir_valid_r))
      /\ halt_req => flush = Nobody /\ wfi_halt_req_r' /\ ~irq /\ wfi_halt_req_r
      /\ reset_flag_r \/ reset_req_r =>
           flush = Nobody /\ ~wfi_halt_req_r' /\ ~status_mie' /\ next_pc' = next_pc
      /\ wfi_flag_r' => ~irq /\ wfi_halt_req_r /\ halt_ack_r
  BY ExecutionHolds
<1>2. /\ reset_flag_r \/ reset_req_r =>
           /\ ~out_flag_r /\ ~ir_valid_r /\ ~ir_pc_vld_r /\ ~dly_flush_r /\ ~pc_newpend_r
           /\ ~wfi_halt_req_r /\ ~halt_ack_r /\ ~status_mie
           /\ icb_cmd2_r = "none" /\ next_pc = 0
      /\ ~(reset_flag_r /\ reset_req_r)
      /\ ir_valid_r \/ wfi_halt_req_r => ~dly_flush_r
      /\ wfi_flag_r => wfi_halt_req_r /\ halt_ack_r
      /\ halt_ack_r => icb_state_r = "IDLE" /\ wfi_halt_req_r
  BY DEF FetchShape, NothingAsked
<1>3. Wires(flush, o_rdy, lsu_cmd, lsu_rdy, pc, addr, ready, rsp, req, valid)
  BY DEF Edge
<1>4. CASE core_wfi
  <2>1. UNCHANGED clockVars
    BY <1>4, StoppedAwaited
  <2>2. /\ wfi_halt_req_r /\ ~irq /\ ~dly_flush_r /\ ~reset_flag_r /\ ~reset_req_r
        /\ wfi_halt_req_r' /\ halt_ack_r /\ icb_state_r = "IDLE"
    BY <1>1, <1>2, <1>4 DEF core_wfi, halt_req
  <2>3. QED BY <2>1, <2>2 DEF NothingAsked, clockVars
<1>5. CASE ~core_wfi
  <2>1. Registers(flush, o_rdy, oitf_empty, req, rsp, valid /\ ready, ready, pc, addr)
    BY <1>5 DEF Edge
  <2>2. /\ reset_flag_r' = FALSE
        /\ reset_req_r' = IF reset_req_r THEN ~req ELSE reset_flag_r
        /\ halt_ack_r' = IF halt_ack_r THEN halt_req ELSE halt_req /\ (~out_flag_r \/ rsp_valid)
        /\ dly_flush_r' = IF flush # Nobody THEN ~req ELSE dly_flush_r /\ ~req
        /\ pc_newpend_r' = ((req \/ flush # Nobody)
                \/ (pc_newpend_r /\ ~(/\ pc_newpend_r /\ (~ir_valid_r \/ ir_valid_clr(flush, o_rdy))
                                      /\ flush = Nobody /\ ~dly_flush_r)))
        /\ out_flag_r' = (req \/ (out_flag_r /\ ~rsp))
        /\ ir_valid_r' = ((rsp /\ flush = Nobody /\ ~dly_flush_r)
                          \/ (ir_valid_r /\ ~ir_valid_clr(flush, o_rdy)))
        /\ ir_pc_vld_r' = ((/\ pc_newpend_r /\ (~ir_valid_r \/ ir_valid_clr(flush, o_rdy))
                            /\ flush = Nobody /\ ~dly_flush_r)
                           \/ (ir_pc_vld_r /\ ~ir_valid_clr(flush, o_rdy)))
        /\ icb_state_r' = state_nxt(req, ready)
        /\ icb_cmd2_r' = IF ~(valid /\ ready) THEN icb_cmd2_r
                         ELSE IF InItcm(addr) THEN "itcm" ELSE "biu"
    BY <2>1 DEF Registers, DlyFlush, IrSet
  <2>3. StateMoves(req, valid /\ ready, need_0uop(pc, req_seq(flush)))
    BY <1>3, <2>2, StateStep
  <2>4. ir_valid_clr(flush, o_rdy) <=> ir_valid_r /\ (o_rdy \/ flush # Nobody)
    BY DEF ir_valid_clr
  <2>5. /\ req => MayAsk(flush) /\ (~out_flag_r \/ rsp)
        /\ rsp => rsp_valid
        /\ valid /\ ready => req \/ AsksAgain
    BY <1>3 DEF Wires
  <2>6. reset_flag_r' \/ reset_req_r' =>
       /\ ~out_flag_r' /\ ~ir_valid_r' /\ ~ir_pc_vld_r' /\ ~dly_flush_r' /\ ~pc_newpend_r'
       /\ ~wfi_halt_req_r' /\ ~halt_ack_r' /\ ~status_mie'
       /\ icb_cmd2_r' = "none" /\ next_pc' = 0
    <3> SUFFICES ASSUME reset_flag_r' \/ reset_req_r'
                 PROVE  /\ ~out_flag_r' /\ ~ir_valid_r' /\ ~ir_pc_vld_r' /\ ~dly_flush_r' /\ ~pc_newpend_r'
                        /\ ~wfi_halt_req_r' /\ ~halt_ack_r' /\ ~status_mie'
                        /\ icb_cmd2_r' = "none" /\ next_pc' = 0
      OBVIOUS
    <3>1. reset_flag_r \/ (reset_req_r /\ ~req)
      BY <2>2
    <3>2. flush = Nobody /\ ~dly_flush_r /\ ~halt_req /\ ~ir_valid_r /\ ~out_flag_r
      BY <1>1, <1>2, <3>1 DEF halt_req
    <3>3. ~req
      BY <1>2, <2>5, <3>1, <3>2 DEF MayAsk, Flushed
    <3>4. ~rsp_valid /\ icb_state_r = "IDLE"
      BY <3>2, AnswersTaken DEF FetchShape, FetchAwaited, rsp_valid
    <3>5. ~AsksAgain
      BY <3>4 DEF AsksAgain
    <3>6. ~rsp /\ ~(valid /\ ready)
      BY <2>5, <3>3, <3>4, <3>5
    <3>7. QED BY <1>1, <1>2, <2>2, <2>4, <3>1, <3>2, <3>3, <3>6
  <2>7. ~(reset_flag_r' /\ reset_req_r')
    BY <2>2
  <2>8. ir_valid_r' \/ wfi_halt_req_r' => ~dly_flush_r'
    BY <1>1, <1>2, <2>2, <2>4
  <2>9. wfi_flag_r' => wfi_halt_req_r' /\ halt_ack_r'
    BY <1>1, <2>2 DEF halt_req
  <2>10. halt_ack_r' => icb_state_r' = "IDLE" /\ wfi_halt_req_r'
    <3> SUFFICES ASSUME halt_ack_r' PROVE icb_state_r' = "IDLE" /\ wfi_halt_req_r'
      OBVIOUS
    <3>1. halt_req /\ (halt_ack_r \/ ~out_flag_r \/ rsp_valid)
      BY <2>2
    <3>2. flush = Nobody /\ ~dly_flush_r /\ ~reset_req_r /\ wfi_halt_req_r'
      BY <1>1, <1>2, <3>1
    <3>3. ~req
      BY <2>5, <3>1, <3>2 DEF MayAsk, Flushed
    <3>4. icb_state_r = "IDLE" \/ i_rsp_valid
      <4>1. rsp_buf # <<>> \/ ~out_flag_r => icb_state_r = "IDLE"
        BY AnswersTaken
      <4>2. QED BY <1>2, <3>1, <4>1 DEF rsp_valid
    <3>5. QED BY <2>3, <3>2, <3>3, <3>4, AnswersTaken DEF StateMoves, Accessing
  <2>11. QED BY <2>6, <2>7, <2>8, <2>9, <2>10 DEF NothingAsked
<1>6. QED BY <1>4, <1>5


LEMMA SuccessorType ==
  ASSUME FetchTypeOk, NEW a \in Address
  PROVE  Successor(a) \in Address
<1>1. program[a] \in Kinds
  BY FetchAssumption DEF FetchTypeOk
<1>2. Length(program[a]) \in 0..3
  BY DEF Length
<1>3. QED BY <1>2, FetchAssumption, PlusIs DEF Successor

LEMMA TypeStep ==
  ASSUME FetchShape,
         NEW flush, NEW o_rdy, NEW oitf_empty, NEW lsu_cmd, NEW lsu_rdy, NEW answers,
         NEW pc, NEW addr, NEW ready, NEW rsp, NEW req, NEW valid,
         Edge(flush, o_rdy, oitf_empty, lsu_cmd, lsu_rdy, answers, pc, addr, ready, rsp, req, valid),
         Executes(flush, o_rdy, oitf_empty), UNCHANGED program, quiet_tick' \in {0, 1}
  PROVE  FetchTypeOk'
<1>1. /\ wfi_halt_req_r' \in BOOLEAN /\ wfi_flag_r' \in BOOLEAN
      /\ status_mie' \in BOOLEAN /\ irq' \in BOOLEAN
      /\ irqs' \in 0..MaxIrq /\ flushes' \in 0..MaxFlush
  BY ExecutionHolds
<1>2. MemTypeOk' /\ pc \in Address /\ addr \in Address
  BY MemoriesStep
<1>3. FetchTypeOk /\ flush \in Address \cup {Nobody}
  BY DEF FetchShape, Edge, Wires, Inputs
<1>4. next_pc' \in Address
  <2>1. next_pc' = IF flush # Nobody THEN flush
                   ELSE IF ir_valid_r /\ o_rdy THEN Successor(next_pc) ELSE next_pc
    BY DEF Executes, Execution
  <2>2. next_pc \in Address /\ Successor(next_pc) \in Address
    BY <1>3, SuccessorType DEF FetchTypeOk
  <2>3. QED BY <1>3, <2>1, <2>2
<1>5. CASE core_wfi
  <2>1. UNCHANGED clockVars
    BY <1>5, StoppedAwaited
  <2>2. QED BY <1>1, <1>2, <1>3, <1>4, <2>1, Flags DEF FetchTypeOk, clockVars, Address, Word
<1>6. CASE ~core_wfi
  <2>1. Registers(flush, o_rdy, oitf_empty, req, rsp, valid /\ ready, ready, pc, addr)
    BY <1>6 DEF Edge
  <2>2. req \in BOOLEAN /\ rsp \in BOOLEAN /\ valid \in BOOLEAN
    BY DEF Edge, Wires
  <2>3. /\ reset_flag_r' \in BOOLEAN /\ reset_req_r' \in BOOLEAN /\ halt_ack_r' \in BOOLEAN
        /\ dly_flush_r' \in BOOLEAN /\ pc_newpend_r' \in BOOLEAN /\ out_flag_r' \in BOOLEAN
        /\ ir_valid_r' \in BOOLEAN /\ ir_pc_vld_r' \in BOOLEAN /\ rs1xn_rdrf_r' \in BOOLEAN
    <3>1. reset_flag_r' \in BOOLEAN /\ reset_req_r' \in BOOLEAN /\ halt_ack_r' \in BOOLEAN
      BY <1>3, <2>1, <2>2, Flags DEF Registers, halt_req
    <3>2. dly_flush_r' \in BOOLEAN
      BY <2>1, <2>2 DEF Registers, DlyFlush
    <3>3. pc_newpend_r' \in BOOLEAN /\ out_flag_r' \in BOOLEAN
          /\ ir_valid_r' \in BOOLEAN /\ ir_pc_vld_r' \in BOOLEAN
      BY <2>1 DEF Registers
    <3>4. rs1xn_rdrf_r' \in BOOLEAN
      BY <2>1 DEF Registers, rdrf_set, may_read
    <3>5. QED BY <3>1, <3>2, <3>3, <3>4
  <2>4. /\ req_same_cross_holdup_r' \in BOOLEAN /\ req_need_2uop_r' \in BOOLEAN
        /\ req_need_0uop_r' \in BOOLEAN /\ req_lane_cross_r' \in BOOLEAN
    <3>1. RequestRegisters(req, rsp, valid /\ ready, ready, pc, req_seq(flush), addr)
      BY <2>1, RequestRegistersOf
    <3>2. QED BY <1>3, <3>1, Flags DEF RequestRegisters, same_cross_holdup, need_2uop, need_0uop, lane_cross
  <2>5. pc_r' \in Address /\ ifu_pc_r' \in Address
    <3>1. pc_r \in Address /\ ifu_pc_r \in Address
      BY <1>3 DEF FetchTypeOk
    <3>2. pc_r' \in {pc, pc_r} /\ ifu_pc_r' \in {pc_r, ifu_pc_r}
      BY <2>1 DEF Registers
    <3>3. QED BY <1>2, <3>1, <3>2
  <2>6. ifu_ir_r' \in Word \X Word
    <3>1. ifu_ir_r \in Word \X Word /\ ifu_ir_nxt \in Word \X Word
      BY <1>3, ResponseType DEF FetchTypeOk
    <3>2. \/ ifu_ir_r' = ifu_ir_r
          \/ ifu_ir_r' = <<ifu_ir_nxt[1], ifu_ir_nxt[2]>>
          \/ ifu_ir_r' = <<ifu_ir_nxt[1], ifu_ir_r[2]>>
      BY <2>1 DEF Registers
    <3>3. QED BY <3>1, <3>2
  <2>7. /\ icb_state_r' \in {"IDLE", "1ST", "WAIT2ND", "2ND"}
        /\ icb_cmd2_r' \in {"none", "itcm", "biu"}
        /\ icb_cmd_addr_2_1_r' \in 0..3
    <3>1. icb_state_r' \in {"IDLE", "1ST", "WAIT2ND", "2ND"}
      <4>1. icb_state_r' = state_nxt(req, ready)
        BY <2>1 DEF Registers
      <4>2. QED BY <1>3, <4>1 DEF state_nxt, FetchTypeOk
    <3>2. icb_cmd2_r' \in {"none", "itcm", "biu"}
      BY <1>3, <2>1 DEF Registers, FetchTypeOk
    <3>3. icb_cmd_addr_2_1_r' \in 0..3
      <4>1. addr % 4 \in 0..3
        BY <1>2, FetchMemAssumption DEF Address
      <4>2. icb_cmd_addr_2_1_r' = addr % 4 \/ icb_cmd_addr_2_1_r' = icb_cmd_addr_2_1_r
        BY <2>1 DEF Registers
      <4>3. QED BY <1>3, <4>1, <4>2 DEF FetchTypeOk
    <3>4. QED BY <3>1, <3>2, <3>3
  <2>8. leftover_r' \in Word
    <3> DEFINE i == IF icb_cmd2_r = "itcm" THEN 3 ELSE 1
               h == Half(rsp_lane, i)
    <3>1. leftover_r' = leftover_r \/ leftover_r' = h
      BY <2>1 DEF Registers
    <3>2. h \in Word
      <4>1. i \in 0..(IF icb_cmd2_r = "itcm" THEN 3 ELSE 1)
        OBVIOUS
      <4> HIDE DEF i
      <4>2. QED BY <4>1, ResponseType
    <3>3. leftover_r \in Word
      BY <1>3 DEF FetchTypeOk
    <3> HIDE DEF h
    <3>4. QED BY <3>1, <3>2, <3>3
  <2>9. rsp_buf' \in Seq(Word \X Word) /\ Len(rsp_buf') <= 1
    <3> DEFINE Answer == Word \X Word
    <3>1. rsp_buf' = rsp_buf \/ rsp_buf' = <<>> \/ rsp_buf' = <<i_rsp_instr>>
      BY <2>1 DEF Registers
    <3>2. i_rsp_instr \in Answer
      BY ResponseType
    <3>3. rsp_buf \in Seq(Answer) /\ Len(rsp_buf) <= 1
      BY <1>3 DEF FetchTypeOk
    <3> HIDE DEF Answer
    <3>4. <<i_rsp_instr>> \in Seq(Answer) /\ Len(<<i_rsp_instr>>) = 1
      BY <3>2
    <3>5. <<>> \in Seq(Answer) /\ Len(<<>>) = 0
      OBVIOUS
    <3>6. rsp_buf' \in Seq(Answer) /\ Len(rsp_buf') <= 1
      <4>1. CASE rsp_buf' = rsp_buf
        BY <3>3, <4>1
      <4>2. CASE rsp_buf' = <<>>
        BY <3>5, <4>2
      <4>3. CASE rsp_buf' = <<i_rsp_instr>>
        BY <3>4, <4>3
      <4>4. QED BY <3>1, <4>1, <4>2, <4>3
    <3>7. QED BY <3>6 DEF Answer
  <2>10. program' \in Programs /\ quiet_tick' \in {0, 1}
    BY <1>3 DEF FetchTypeOk
  <2> HIDE DEF FetchTypeOk
  <2>11. QED BY <1>1, <1>2, <1>4, <2>3, <2>4, <2>5, <2>6, <2>7, <2>8, <2>9, <2>10
            DEF FetchTypeOk, Address, Word
<1>7. QED BY <1>5, <1>6


-----------------------------------------------------------------------------
(* An access from the cycle it is taken in to its answer. *)
AskedNext(a) ==
  /\ icb_cmd2_r' = IF InItcm(a) THEN "itcm" ELSE "biu"
  /\ InItcm(a) => /\ icb_cmd_addr_2_1_r' = a % 4
                  /\ cmd_buf' = a \/ (itcm_stage' = Ifu /\ ram_dout' = Lane(a))
  /\ ~InItcm(a) => bus_lane' = Lane(a)

\* The lane held up next cycle, once a has been asked or is held.
HeldNext(a) ==
  /\ icb_cmd2_r' = IF InItcm(a) THEN "itcm" ELSE "biu"
  /\ ifu_holdup_r' /\ InItcm(a) => ram_dout' = Lane(a)

LEMMA AskedTaken ==
  ASSUME FetchShape, NEW addr \in Address, NEW lsu_cmd,
         ItcmMoves(TRUE /\ InItcm(addr), addr, lsu_cmd),
         BusMoves(TRUE /\ ~InItcm(addr), addr),
         icb_cmd2_r' = (IF InItcm(addr) THEN "itcm" ELSE "biu"),
         icb_cmd_addr_2_1_r' = addr % 4
  PROVE  AskedNext(addr) /\ HeldNext(addr)
<1>1. itcm_stage = Lsu => ~ifu_holdup_r
  BY DEF FetchShape, ItcmOrder
<1>2. InItcm(addr) => /\ cmd_buf' = addr \/ (itcm_stage' = Ifu /\ ram_dout' = Lane(addr))
                      /\ ifu_holdup_r' => ram_dout' = Lane(addr)
  BY <1>1 DEF ItcmMoves
<1>3. ~InItcm(addr) => bus_lane' = Lane(addr)
  BY DEF BusMoves
<1>4. QED BY <1>2, <1>3 DEF AskedNext, HeldNext

LEMMA HeldKeeps ==
  ASSUME FetchShape, NEW addr, NEW lsu_cmd, ItcmMoves(FALSE, addr, lsu_cmd)
  PROVE  ifu_holdup_r' => ifu_holdup_r /\ ram_dout' = ram_dout
BY DEF ItcmMoves

LEMMA AskedWaits ==
  ASSUME FetchShape, NEW addr, NEW lsu_cmd, NEW a \in Address, Asked(a), ~icb_rsp_valid,
         ItcmMoves(FALSE, addr, lsu_cmd), BusMoves(FALSE, addr),
         icb_cmd2_r' = icb_cmd2_r, icb_cmd_addr_2_1_r' = icb_cmd_addr_2_1_r
  PROVE  AskedNext(a)
<1>1. itcm_stage # Ifu /\ ~bus_rsp
  BY AnswersTaken
<1>2. bus_lane' = bus_lane
  BY <1>1 DEF BusMoves
<1>3. cmd_buf = a => cmd_buf' = a \/ (itcm_stage' = Ifu /\ ram_dout' = Lane(a))
  BY NobodyIsNoAddress DEF ItcmMoves
<1>4. QED BY <1>1, <1>2, <1>3 DEF Asked, AskedNext

LEMMA AskedAnswers ==
  ASSUME FetchShape, NEW a \in Address, Asked(a), icb_rsp_valid
  PROVE  rsp_lane = Lane(a) /\ icb_cmd2_r = (IF InItcm(a) THEN "itcm" ELSE "biu")
         /\ (InItcm(a) => icb_cmd_addr_2_1_r = a % 4)
<1>1. cmd_buf \notin Address
  BY AnswersTaken
<1>2. CASE InItcm(a)
  BY <1>1, <1>2 DEF Asked, rsp_lane
<1>3. CASE ~InItcm(a)
  BY <1>3 DEF Asked, rsp_lane, icb_rsp_valid
<1>4. QED BY <1>2, <1>3

\* The answer to the fetch of pc_r is its two halves.
LEMMA ResponseIsDue ==
  ASSUME FetchShape, ~Overtaken, i_rsp_valid
  PROVE  i_rsp_instr = <<pc_r, Plus(pc_r, 1)>>
<1>1. PcNoted /\ AccessIsDue /\ HalvesAreDue /\ pc_r \in Address
  BY DEF FetchShape, FetchIsPc, FetchTypeOk
<1>2. ASSUME ~lane_cross(pc_r), ~rsp_sel_leftover, rsp_lane = Lane(pc_r),
             icb_cmd2_r = (IF InItcm(pc_r) THEN "itcm" ELSE "biu"),
             InItcm(pc_r) => icb_cmd_addr_2_1_r = pc_r % 4
      PROVE  i_rsp_instr = <<pc_r, Plus(pc_r, 1)>>
  <2> DEFINE o == IF InItcm(pc_r) THEN pc_r % 4 ELSE 0
  <2>1. o # 3 /\ Half(Lane(pc_r), o) = pc_r /\ Half(Lane(pc_r), o + 1) = Plus(pc_r, 1)
    BY <1>1, <1>2, OneLane
  <2>2. (IF icb_cmd2_r = "itcm" THEN icb_cmd_addr_2_1_r ELSE 0) = o
    BY <1>2
  <2> HIDE DEF o
  <2>3. aligned = <<Half(Lane(pc_r), o), Half(Lane(pc_r), o + 1)>>
    BY <1>2, <2>1, <2>2 DEF aligned
  <2>4. QED BY <1>2, <2>1, <2>3 DEF i_rsp_instr
<1>3. ASSUME lane_cross(pc_r), rsp_sel_leftover, leftover_r = pc_r,
             Asked(Plus(pc_r, 1)), icb_rsp_valid
      PROVE  i_rsp_instr = <<pc_r, Plus(pc_r, 1)>>
  <2>1. Plus(pc_r, 1) \in Address /\ Half(Lane(Plus(pc_r, 1)), 0) = Plus(pc_r, 1)
    BY <1>1, <1>3, NextLane
  <2>2. rsp_lane = Lane(Plus(pc_r, 1))
    BY <1>3, <2>1, AskedAnswers
  <2>3. QED BY <1>3, <2>1, <2>2 DEF i_rsp_instr
<1>4. CASE icb_state_r = "1ST" /\ req_need_0uop_r
  <2>1. ~rsp_sel_leftover
    BY <1>4 DEF rsp_sel_leftover, FetchShape, RequestAgrees
  <2>2. /\ ~lane_cross(pc_r) /\ InItcm(pc_r) /\ icb_cmd2_r = "itcm"
        /\ icb_cmd_addr_2_1_r = pc_r % 4 /\ ram_dout = Lane(pc_r)
    BY <1>1, <1>4 DEF PcNoted, AccessIsDue
  <2>3. rsp_lane = Lane(pc_r)
    BY <2>2 DEF rsp_lane
  <2>4. QED BY <1>2, <2>1, <2>2, <2>3
<1>5. CASE icb_state_r = "1ST" /\ ~req_need_0uop_r
  <2>1. icb_rsp_valid /\ ~req_need_2uop_r
    BY <1>5 DEF i_rsp_valid, rsp2leftover
  <2>2. CASE req_same_cross_holdup_r
    <3>1. rsp_sel_leftover /\ lane_cross(pc_r) /\ leftover_r = pc_r /\ Asked(Plus(pc_r, 1))
      BY <1>1, <1>5, <2>2 DEF PcNoted, AccessIsDue, HalvesAreDue, rsp_sel_leftover
    <3>2. QED BY <1>3, <2>1, <3>1
  <2>3. CASE ~req_same_cross_holdup_r
    <3>1. ~rsp_sel_leftover /\ ~lane_cross(pc_r) /\ Asked(pc_r)
      BY <1>1, <1>5, <2>1, <2>3 DEF PcNoted, AccessIsDue, rsp_sel_leftover
    <3>2. /\ rsp_lane = Lane(pc_r) /\ icb_cmd2_r = (IF InItcm(pc_r) THEN "itcm" ELSE "biu")
          /\ InItcm(pc_r) => icb_cmd_addr_2_1_r = pc_r % 4
      BY <1>1, <2>1, <3>1, AskedAnswers
    <3>3. QED BY <1>2, <3>1, <3>2
  <2>4. QED BY <2>2, <2>3
<1>6. CASE icb_state_r = "2ND"
  <2>1. icb_rsp_valid /\ rsp_sel_leftover /\ req_need_2uop_r
    BY <1>6 DEF i_rsp_valid, rsp_sel_leftover, FetchShape, RequestAgrees
  <2>2. lane_cross(pc_r) /\ leftover_r = pc_r /\ Asked(Plus(pc_r, 1))
    BY <1>1, <1>6, <2>1 DEF PcNoted, AccessIsDue, HalvesAreDue
  <2>3. QED BY <1>3, <2>1, <2>2
<1>7. QED BY <1>4, <1>5, <1>6, AnswersTaken

\* A fetch served from the lane held up follows the last one in it.
LEMMA LaneStillHeld ==
  ASSUME FetchShape, NEW flush \in Address \cup {Nobody}, MayAsk(flush), ~second_uop,
         lane_same(pc_nxt(flush), req_seq(flush)), lane_holdup(pc_nxt(flush))
  PROVE  /\ ~Overtaken /\ pc_nxt(flush) = Plus(pc_r, Length(kind))
         /\ icb_cmd2_r = "itcm" /\ ram_dout = Lane(pc_nxt(flush)) /\ rsp_lane = ram_dout
<1> DEFINE pc == pc_nxt(flush)
           n == Length(kind)
<1>1. flush = Nobody /\ ~dly_flush_r /\ ~reset_req_r /\ ~bjp_req /\ ~reset_flag_r
  BY DEF lane_same, req_seq, MayAsk, Flushed
<1>2. ~Overtaken /\ pc = Plus(pc_r, n)
  BY <1>1 DEF Overtaken, pc_nxt
<1>3. /\ lane_begin(pc) => req_lane_cross_r
      /\ InItcm(pc) /\ ifu_holdup_r
  BY DEF lane_same, lane_holdup
<1>4. req_lane_cross_r = lane_cross(pc_r) /\ HeldLane /\ pc_r \in Address
  BY <1>2 DEF FetchShape, FetchIsPc, PcNoted, FetchTypeOk
<1>5. n \in {1, 2}
  BY DEF Length
<1> HIDE DEF n, pc
<1>6. InItcm(LastHalf) /\ Lane(LastHalf) = Lane(pc)
  <2>1. InItcm(Plus(pc_r, n)) /\ (lane_begin(Plus(pc_r, n)) => lane_cross(pc_r))
    BY <1>2, <1>3, <1>4
  <2>2. QED BY <1>2, <1>4, <1>5, <2>1, SameLane DEF LastHalf
<1>7. icb_cmd2_r = "itcm" /\ ram_dout = Lane(pc)
  BY <1>3, <1>4, <1>6 DEF HeldLane
<1>8. rsp_lane = ram_dout
  BY <1>7 DEF rsp_lane
<1>9. QED BY <1>2, <1>7, <1>8 DEF pc, n

LEMMA PlusPlus ==
  ASSUME NEW a \in Address, NEW n \in {1, 2}
  PROVE  Plus(a, n + 1) = Plus(Plus(a, n), 1)
<1>1. a \in Int /\ 0 <= a /\ a < PC_SIZE /\ n + 1 \in 0..3 /\ n \in 0..3
  BY FetchMemAssumption DEF Address
<1>2. /\ Plus(a, n + 1) = IF a + (n + 1) < PC_SIZE THEN a + (n + 1) ELSE a + (n + 1) - PC_SIZE
      /\ Plus(a, n) \in Address
      /\ Plus(a, n) = IF a + n < PC_SIZE THEN a + n ELSE a + n - PC_SIZE
  BY <1>1, PlusIs
<1> DEFINE b == Plus(a, n)
<1> HIDE DEF b
<1>3. b \in Address
  BY <1>2 DEF b
<1>4. Plus(b, 1) = IF b + 1 < PC_SIZE THEN b + 1 ELSE b + 1 - PC_SIZE
  BY <1>3, PlusIs
<1>5. b = IF a + n < PC_SIZE THEN a + n ELSE a + n - PC_SIZE
  BY <1>2 DEF b
<1>6. PC_SIZE >= 4 /\ PC_SIZE \in Nat
  BY <1>1, FetchMemAssumption
<1>7. Plus(a, n + 1) = Plus(b, 1)
  BY <1>1, <1>2, <1>4, <1>5, <1>6
<1>8. QED BY <1>7 DEF b

\* The fetch a request starts is that of the new pc_r: what it asks for now,
\* and what is held of it already.
FirstAccess(pc, same, two, zero) ==
  /\ same => InItcm(pc) /\ lane_cross(pc) /\ ~two /\ ~zero /\ leftover_r' = pc
  /\ two => lane_cross(pc) /\ ~zero
  /\ lane_cross(pc) => same \/ two
  /\ ~zero => LET a == IF same THEN Plus(pc, 1) ELSE pc IN AskedNext(a) /\ HeldNext(a)
  /\ zero => /\ InItcm(pc) /\ ~lane_cross(pc) /\ icb_cmd2_r' = "itcm"
             /\ icb_cmd_addr_2_1_r' = pc % 4 /\ ram_dout' = Lane(pc)

\* A request is handed over in this cycle.
Starts(req) == req

LEMMA RequestIsPc ==
  ASSUME FetchShape, ~core_wfi,
         NEW flush, NEW o_rdy, NEW oitf_empty, NEW lsu_cmd, NEW lsu_rdy, NEW answers,
         NEW pc, NEW addr, NEW ready, NEW rsp, NEW req, NEW valid,
         Edge(flush, o_rdy, oitf_empty, lsu_cmd, lsu_rdy, answers, pc, addr, ready, rsp, req, valid),
         Starts(req)
  PROVE  /\ FirstAccess(pc, same_cross_holdup(pc, req_seq(flush)), need_2uop(pc, req_seq(flush)),
                        need_0uop(pc, req_seq(flush)))
         /\ pc_r' = pc /\ icb_state_r' = "1ST" /\ rsp_buf' = <<>>
         /\ req_same_cross_holdup_r' = same_cross_holdup(pc, req_seq(flush))
         /\ req_need_2uop_r' = need_2uop(pc, req_seq(flush))
         /\ req_need_0uop_r' = need_0uop(pc, req_seq(flush))
         /\ req_lane_cross_r' = lane_cross(pc)
<1> DEFINE seq  == req_seq(flush)
           same == same_cross_holdup(pc, seq)
           two  == need_2uop(pc, seq)
           zero == need_0uop(pc, seq)
<1>1. /\ Wires(flush, o_rdy, lsu_cmd, lsu_rdy, pc, addr, ready, rsp, req, valid)
      /\ Registers(flush, o_rdy, oitf_empty, req, rsp, valid /\ ready, ready, pc, addr)
  BY DEF Edge
<1>2. /\ pc \in Address /\ addr \in Address
      /\ ItcmMoves((valid /\ ready) /\ InItcm(addr), addr, lsu_cmd)
      /\ BusMoves((valid /\ ready) /\ ~InItcm(addr), addr)
  BY MemoriesStep
<1>3. /\ flush \in Address \cup {Nobody} /\ ready /\ MayAsk(flush) /\ req_ready_condi
      /\ pc = pc_nxt(flush) /\ addr = cmd_addr(pc, seq) /\ (~out_flag_r \/ rsp)
      /\ InItcm(addr) => ready = ItcmReady(lsu_cmd)
      /\ valid <=> ~zero
  <2>1. req => (valid <=> ~need_0uop(pc, req_seq(flush)))
    <3>1. Wires(flush, o_rdy, lsu_cmd, lsu_rdy, pc, addr, ready, rsp, req, valid)
      BY <1>1
    <3>2. /\ req_ready_condi <=> \/ icb_state_r = "IDLE"
                                \/ i_rsp_valid
          /\ AsksAgain => ~req_ready_condi /\ ~req
          /\ req => (valid <=> ~need_0uop(pc, req_seq(flush)))
          /\ valid /\ ready /\ ~AsksAgain => req
      BY <3>1, AskedInTurn
    <3>3. QED BY <3>2
  <2>2. QED BY <1>1, <2>1 DEF Wires, Inputs, Starts
<1>4. ~second_uop
  BY <1>3 DEF second_uop, req_ready_condi, FetchShape, RequestAgrees
<1>5. addr = IF same THEN Plus(pc_r, Length(kind) + 1) ELSE pc
  BY <1>3, <1>4 DEF cmd_addr
<1>6. lane_same(pc, seq) /\ lane_holdup(pc) =>
         /\ ~Overtaken /\ pc = Plus(pc_r, Length(kind))
         /\ icb_cmd2_r = "itcm" /\ ram_dout = Lane(pc) /\ rsp_lane = ram_dout
  BY <1>3, <1>4, LaneStillHeld
<1>7. /\ same <=> lane_same(pc, seq) /\ lane_holdup(pc) /\ lane_cross(pc)
      /\ two <=> lane_cross(pc) /\ ~(lane_same(pc, seq) /\ lane_holdup(pc))
      /\ zero <=> lane_same(pc, seq) /\ lane_holdup(pc) /\ ~lane_cross(pc)
      /\ lane_holdup(pc) => InItcm(pc)
  BY DEF same_cross_holdup, need_2uop, need_0uop, lane_holdup
<1>8. /\ icb_cmd2_r' = IF ~(valid /\ ready) THEN icb_cmd2_r ELSE IF InItcm(addr) THEN "itcm" ELSE "biu"
      /\ icb_cmd_addr_2_1_r' = addr % 4
      /\ same => leftover_r' = Half(rsp_lane, IF icb_cmd2_r = "itcm" THEN 3 ELSE 1)
      /\ pc_r' = pc /\ req_same_cross_holdup_r' = same /\ req_need_2uop_r' = two
      /\ req_need_0uop_r' = zero /\ req_lane_cross_r' = lane_cross(pc)
  BY <1>1 DEF Registers, Starts
<1>9. rsp_buf' = <<>>
  <2>1. rsp_buf' = IF rsp_buf # <<>> THEN (IF rsp THEN <<>> ELSE rsp_buf)
                   ELSE IF i_rsp_valid /\ ~rsp THEN <<i_rsp_instr>> ELSE <<>>
    BY <1>1, RequestRegistersOf DEF RequestRegisters
  <2>2. rsp_buf # <<>> => out_flag_r
    BY DEF FetchShape, FetchAwaited
  <2>3. i_rsp_valid => out_flag_r
    BY AnswersTaken
  <2>4. QED BY <1>3, <2>1, <2>2, <2>3
<1>10. icb_state_r' = "1ST"
  <2>1. StateMoves(req, valid /\ ready, need_0uop(pc, req_seq(flush)))
    <3>1. icb_state_r' = state_nxt(req, ready)
      BY <1>1 DEF Registers
    <3>2. QED BY <1>1, <3>1, StateStep
  <2>2. QED BY <2>1 DEF StateMoves, Starts
<1> SUFFICES FirstAccess(pc, same, two, zero)
  BY <1>8, <1>9, <1>10
<1> HIDE DEF seq, same, two, zero
<1>11. CASE zero
  <2>1. /\ ~lane_cross(pc) /\ InItcm(pc) /\ ~same /\ ~two /\ ~valid /\ addr = pc
        /\ icb_cmd2_r = "itcm" /\ ram_dout = Lane(pc)
    BY <1>3, <1>5, <1>6, <1>7, <1>11
  <2>2. ~lsu_cmd /\ cmd_buf = Nobody
    BY <1>3, <2>1 DEF ItcmReady
  <2>3. ram_dout' = ram_dout
    BY <1>2, <2>1, <2>2, NobodyIsNoAddress DEF ItcmMoves
  <2>4. QED BY <1>8, <1>11, <2>1, <2>3 DEF FirstAccess
<1>12. CASE ~zero
  <2>1. AskedNext(addr) /\ HeldNext(addr)
    <3>1. (valid /\ ready) = TRUE
      BY <1>1, <1>3, <1>12 DEF Wires
    <3>2. /\ ItcmMoves(TRUE /\ InItcm(addr), addr, lsu_cmd)
          /\ BusMoves(TRUE /\ ~InItcm(addr), addr)
          /\ icb_cmd2_r' = (IF InItcm(addr) THEN "itcm" ELSE "biu")
      BY <1>2, <1>8, <3>1
    <3>3. QED BY <1>2, <1>8, <3>2, AskedTaken
  <2>2. addr = IF same THEN Plus(pc, 1) ELSE pc
    <3>1. CASE same
      <4>1. pc = Plus(pc_r, Length(kind)) /\ pc_r \in Address /\ Length(kind) \in {1, 2}
        BY <1>6, <1>7, <3>1 DEF FetchShape, FetchTypeOk, Length
      <4>2. QED BY <1>5, <3>1, <4>1, PlusPlus
    <3>2. QED BY <3>1, <1>5
  <2>3. same => leftover_r' = pc
    <3>1. ASSUME same PROVE leftover_r' = pc
      <4>1. lane_cross(pc) /\ InItcm(pc) /\ leftover_r' = Half(Lane(pc), 3)
        BY <1>6, <1>7, <1>8, <3>1
      <4>2. QED BY <1>2, <4>1, NextLane
    <3>2. QED BY <3>1
  <2>4. QED BY <1>7, <1>12, <2>1, <2>2, <2>3 DEF FirstAccess
<1>13. QED BY <1>11, <1>12

\* A fetch that waits, is answered or goes on to its second lane stays that of
\* pc_r, or is overtaken by a flush.
LEMMA WaitingIsPc ==
  ASSUME FetchShape, ~core_wfi,
         NEW flush, NEW o_rdy, NEW oitf_empty, NEW lsu_cmd, NEW lsu_rdy, NEW answers,
         NEW pc, NEW addr, NEW ready, NEW rsp, NEW req, NEW valid,
         Edge(flush, o_rdy, oitf_empty, lsu_cmd, lsu_rdy, answers, pc, addr, ready, rsp, req, valid),
         ~Starts(req), ~Overtaken'
  PROVE  (PcNoted /\ AccessIsDue /\ HalvesAreDue /\ HeldLane)'
<1> DEFINE asked == valid /\ ready
<1>1. /\ Wires(flush, o_rdy, lsu_cmd, lsu_rdy, pc, addr, ready, rsp, req, valid)
      /\ Registers(flush, o_rdy, oitf_empty, req, rsp, asked, ready, pc, addr)
  BY DEF Edge
<1>2. /\ pc \in Address /\ addr \in Address /\ pc_r \in Address
      /\ ItcmMoves(asked /\ InItcm(addr), addr, lsu_cmd)
      /\ BusMoves(asked /\ ~InItcm(addr), addr)
  <2>1. pc_r \in Address
    BY DEF FetchShape, FetchTypeOk
  <2>2. QED BY <2>1, MemoriesStep
<1>3. ~Overtaken /\ pc_r' = pc_r
  <2>1. /\ dly_flush_r' = IF flush # Nobody THEN ~req ELSE dly_flush_r /\ ~req
        /\ reset_req_r' = IF reset_req_r THEN ~req ELSE reset_flag_r
        /\ pc_r' = IF req \/ flush # Nobody THEN pc ELSE pc_r
    BY <1>1 DEF Registers, DlyFlush
  <2>2. QED BY <2>1 DEF Starts, Overtaken
<1>4. /\ UNCHANGED <<req_same_cross_holdup_r, req_need_2uop_r, req_need_0uop_r, req_lane_cross_r>>
      /\ icb_cmd2_r' = IF ~asked THEN icb_cmd2_r ELSE IF InItcm(addr) THEN "itcm" ELSE "biu"
      /\ icb_cmd_addr_2_1_r' = IF asked THEN addr % 4 ELSE icb_cmd_addr_2_1_r
      /\ leftover_r' = IF icb_rsp_hsked /\ rsp2leftover
                       THEN Half(rsp_lane, IF icb_cmd2_r = "itcm" THEN 3 ELSE 1) ELSE leftover_r
      /\ rsp_buf' = IF rsp_buf # <<>> THEN (IF rsp THEN <<>> ELSE rsp_buf)
                    ELSE IF i_rsp_valid /\ ~rsp THEN <<i_rsp_instr>> ELSE <<>>
      /\ icb_state_r' = state_nxt(req, ready)
  <2>1. rsp_buf' = IF rsp_buf # <<>> THEN (IF rsp THEN <<>> ELSE rsp_buf)
                   ELSE IF i_rsp_valid /\ ~rsp THEN <<i_rsp_instr>> ELSE <<>>
    BY <1>1, RequestRegistersOf DEF RequestRegisters
  <2>2. QED BY <1>1, <2>1 DEF Registers, Starts
<1>5. StateMoves(req, asked, need_0uop(pc, req_seq(flush)))
  BY <1>1, <1>4, StateStep
<1>6. PcNoted /\ AccessIsDue /\ HalvesAreDue /\ HeldLane
  BY <1>3 DEF FetchShape, FetchIsPc
<1>7. PcNoted'
  BY <1>3, <1>4, <1>6 DEF PcNoted, lane_cross, InItcm, LaneWidth
<1>8. LastHalf' = LastHalf
  BY <1>3 DEF LastHalf, lane_cross, LaneWidth, InItcm, Plus
<1>9. addr = cmd_addr(pc, req_seq(flush)) /\ asked \in BOOLEAN
  BY <1>1 DEF Wires
<1> SUFFICES (AccessIsDue /\ HalvesAreDue /\ HeldLane)'
  BY <1>7
<1> HIDE DEF asked
<1>10. ~asked => HeldNext(LastHalf) \/ second_uop
  <2>1. ASSUME ~asked, ~second_uop PROVE HeldNext(LastHalf)
    <3>1. ItcmMoves(FALSE, addr, lsu_cmd)
      <4>1. (asked /\ InItcm(addr)) = FALSE
        BY <2>1
      <4>2. QED BY <1>2, <4>1
    <3>2. ifu_holdup_r' => ifu_holdup_r /\ ram_dout' = ram_dout
      BY <3>1, HeldKeeps
    <3>3. icb_cmd2_r' = icb_cmd2_r
      BY <1>4, <2>1
    <3>4. QED BY <1>6, <2>1, <3>2, <3>3 DEF HeldLane, HeldNext
  <2>2. QED BY <2>1
<1>11. HeldNext(LastHalf) => HeldLane'
  BY <1>8 DEF HeldNext, HeldLane, InItcm, Lane, LaneWidth
<1>12. CASE icb_state_r = "IDLE" \/ i_rsp_valid
  <2>1. icb_state_r' = "IDLE" /\ ~asked
    BY <1>5, <1>12, AnswersTaken DEF StateMoves, Starts, Accessing
  <2>2. ~second_uop
    BY <1>12, AnswersTaken DEF second_uop, i_rsp_valid, rsp2leftover, FetchShape, RequestAgrees
  <2>3. AccessIsDue'
    BY <2>1 DEF AccessIsDue
  <2>4. HalvesAreDue'
    <3>1. rsp_buf' # <<>> => rsp_buf'[1] = <<pc_r, Plus(pc_r, 1)>>
      <4>1. \/ rsp_buf' = <<>>
            \/ rsp_buf # <<>> /\ rsp_buf' = rsp_buf
            \/ i_rsp_valid /\ rsp_buf' = <<i_rsp_instr>>
        BY <1>4
      <4>2. i_rsp_valid => i_rsp_instr = <<pc_r, Plus(pc_r, 1)>>
        BY <1>3, ResponseIsDue
      <4>3. QED BY <1>6, <4>1, <4>2 DEF HalvesAreDue
    <3>2. QED BY <1>3, <2>1, <3>1 DEF HalvesAreDue, Plus
  <2>5. QED BY <1>10, <1>11, <2>1, <2>2, <2>3, <2>4
<1>13. CASE ((icb_state_r = "1ST" /\ icb_rsp_valid) \/ icb_state_r = "WAIT2ND")
            /\ req_need_2uop_r /\ ~i_rsp_valid
  <2>1. icb_state_r' = IF asked THEN "2ND" ELSE "WAIT2ND"
    BY <1>5, <1>13 DEF StateMoves, Accessing
  <2>2. lane_cross(pc_r) /\ ~req_same_cross_holdup_r /\ ~req_need_0uop_r /\ second_uop
    BY <1>6, <1>13 DEF PcNoted, FetchShape, RequestAgrees, second_uop
  <2>3. addr = Plus(pc_r, 1)
    BY <1>9, <2>2 DEF cmd_addr
  <2>4. leftover_r' = pc_r
    <3>1. CASE icb_state_r = "WAIT2ND"
      <4>1. leftover_r' = leftover_r
        BY <1>4, <3>1 DEF rsp2leftover
      <4>2. QED BY <1>6, <3>1, <4>1 DEF HalvesAreDue
    <3>2. CASE icb_state_r = "1ST" /\ icb_rsp_valid
      <4>1. icb_rsp_hsked /\ rsp2leftover
        BY <1>13, <3>2, AnswersTaken DEF rsp2leftover
      <4>2. Asked(pc_r)
        BY <1>6, <2>2, <3>2 DEF AccessIsDue
      <4>3. rsp_lane = Lane(pc_r) /\ icb_cmd2_r = (IF InItcm(pc_r) THEN "itcm" ELSE "biu")
        BY <1>2, <3>2, <4>2, AskedAnswers
      <4>4. Half(Lane(pc_r), IF InItcm(pc_r) THEN 3 ELSE 1) = pc_r
        BY <1>2, <2>2, NextLane
      <4>5. QED BY <1>4, <4>1, <4>3, <4>4
    <3>3. QED BY <1>13, <3>1, <3>2
  <2>5. HalvesAreDue'
    <3>1. rsp_buf' = <<>>
      BY <1>4, <1>13, AnswersTaken
    <3>2. QED BY <1>3, <2>1, <2>4, <3>1 DEF HalvesAreDue
  <2>6. CASE asked
    <3>1. AskedNext(addr) /\ HeldNext(addr)
      <4>1. asked = TRUE
        BY <1>9, <2>6
      <4>2. /\ ItcmMoves(TRUE /\ InItcm(addr), addr, lsu_cmd)
            /\ BusMoves(TRUE /\ ~InItcm(addr), addr)
            /\ icb_cmd2_r' = (IF InItcm(addr) THEN "itcm" ELSE "biu")
            /\ icb_cmd_addr_2_1_r' = addr % 4
        BY <1>2, <1>4, <4>1
      <4>3. QED BY <1>2, <4>2, AskedTaken
    <3>2. LastHalf = addr /\ icb_state_r' = "2ND"
      BY <2>1, <2>2, <2>3, <2>6 DEF LastHalf
    <3>3. AccessIsDue'
      BY <1>3, <2>3, <3>1, <3>2 DEF AccessIsDue, Asked, AskedNext, Plus, InItcm, Lane, LaneWidth
    <3>4. QED BY <1>11, <2>5, <3>1, <3>2, <3>3
  <2>7. CASE ~asked
    <3>1. icb_state_r' = "WAIT2ND" /\ req_need_2uop_r'
      BY <1>4, <1>13, <2>1, <2>7
    <3>2. QED BY <2>5, <3>1 DEF AccessIsDue, HeldLane, second_uop
  <2>8. QED BY <2>6, <2>7
<1>14. CASE Accessing /\ ~icb_rsp_valid /\ ~i_rsp_valid /\ ~asked /\ icb_state_r' = icb_state_r
  <2>1. /\ ItcmMoves(FALSE, addr, lsu_cmd) /\ BusMoves(FALSE, addr)
        /\ icb_cmd2_r' = icb_cmd2_r /\ icb_cmd_addr_2_1_r' = icb_cmd_addr_2_1_r
    <3>1. (asked /\ InItcm(addr)) = FALSE /\ (asked /\ ~InItcm(addr)) = FALSE
      BY <1>14
    <3>2. QED BY <1>2, <1>4, <1>14, <3>1
  <2>2. leftover_r' = leftover_r /\ rsp_buf' = <<>>
    BY <1>4, <1>14, AnswersTaken DEF icb_rsp_hsked, Accessing
  <2>3. \A a \in Address : Asked(a) => AskedNext(a)
    <3>1. ASSUME NEW a \in Address, Asked(a) PROVE AskedNext(a)
      BY <1>14, <2>1, <3>1, AskedWaits
    <3>2. QED BY <3>1
  <2>4. AccessIsDue'
    <3> DEFINE a == IF req_same_cross_holdup_r THEN Plus(pc_r, 1) ELSE pc_r
    <3>1. Plus(pc_r, 1) \in Address
      BY <1>2, PlusIs
    <3>2. icb_state_r = "1ST" => AskedNext(a) /\ ~req_need_0uop_r
      BY <1>2, <1>6, <1>14, <2>3, <3>1 DEF AccessIsDue, Accessing
    <3>3. icb_state_r = "2ND" => AskedNext(Plus(pc_r, 1))
      BY <1>6, <2>3, <3>1 DEF AccessIsDue
    <3>4. QED BY <1>3, <1>4, <1>14, <3>2, <3>3
                DEF AccessIsDue, Asked, AskedNext, Plus, InItcm, Lane, LaneWidth
  <2>5. HalvesAreDue'
    BY <1>3, <1>4, <1>6, <1>14, <2>2 DEF HalvesAreDue
  <2>6. HeldLane'
    <3>1. second_uop' = second_uop
      BY <1>4, <1>14 DEF second_uop
    <3>2. CASE second_uop
      BY <3>1, <3>2 DEF HeldLane
    <3>3. CASE ~second_uop
      BY <1>10, <1>11, <1>14, <3>3
    <3>4. QED BY <3>2, <3>3
  <2>7. QED BY <2>4, <2>5, <2>6
<1>15. QED BY <1>5, <1>12, <1>13, <1>14 DEF StateMoves

LEMMA FetchIsPcStep ==
  ASSUME FetchShape,
         NEW flush, NEW o_rdy, NEW oitf_empty, NEW lsu_cmd, NEW lsu_rdy, NEW answers,
         NEW pc, NEW addr, NEW ready, NEW rsp, NEW req, NEW valid,
         Edge(flush, o_rdy, oitf_empty, lsu_cmd, lsu_rdy, answers, pc, addr, ready, rsp, req, valid),
         Executes(flush, o_rdy, oitf_empty)
  PROVE  FetchIsPc'
<1>1. CASE core_wfi
  <2>1. UNCHANGED clockVars
    BY <1>1, StoppedAwaited
  <2>2. icb_state_r = "IDLE" /\ ~valid
    BY <1>1, StoppedIsQuiet DEF Edge
  <2>3. ifu_holdup_r' => ifu_holdup_r /\ ram_dout' = ram_dout
    <3>1. ItcmMoves((valid /\ ready) /\ InItcm(addr), addr, lsu_cmd)
      BY MemoriesStep
    <3>2. ((valid /\ ready) /\ InItcm(addr)) = FALSE
      BY <2>2
    <3>3. ItcmMoves(FALSE, addr, lsu_cmd)
      BY <3>1, <3>2
    <3>4. QED BY <3>3, HeldKeeps
  <2>4. LastHalf' = LastHalf /\ pc_r' = pc_r /\ (second_uop' <=> second_uop)
    BY <2>1 DEF LastHalf, lane_cross, LaneWidth, InItcm, Plus, clockVars, second_uop
  <2>5. FetchIsPc
    BY DEF FetchShape
  <2>6. (Overtaken' <=> Overtaken) /\ (PcNoted' <=> PcNoted)
    BY <2>1, <2>4 DEF Overtaken, PcNoted, clockVars, lane_cross, InItcm, LaneWidth
  <2>7. AccessIsDue'
    BY <2>1, <2>2 DEF AccessIsDue, clockVars
  <2>8. HalvesAreDue => HalvesAreDue'
    BY <2>1, <2>2 DEF HalvesAreDue, clockVars, Plus
  <2>9. HeldLane => HeldLane'
    <3>1. icb_cmd2_r' = icb_cmd2_r
      BY <2>1 DEF clockVars
    <3>2. QED BY <2>3, <2>4, <3>1 DEF HeldLane, Lane, LaneWidth, InItcm
  <2>10. QED BY <2>5, <2>6, <2>7, <2>8, <2>9 DEF FetchIsPc
<1>2. CASE ~core_wfi /\ Starts(req)
  <2> DEFINE same == same_cross_holdup(pc, req_seq(flush))
             two  == need_2uop(pc, req_seq(flush))
             zero == need_0uop(pc, req_seq(flush))
  <2>1. /\ FirstAccess(pc, same, two, zero)
        /\ pc_r' = pc /\ icb_state_r' = "1ST" /\ rsp_buf' = <<>>
        /\ req_same_cross_holdup_r' = same /\ req_need_2uop_r' = two
        /\ req_need_0uop_r' = zero /\ req_lane_cross_r' = lane_cross(pc)
    BY <1>2, RequestIsPc
  <2> HIDE DEF same, two, zero
  <2>2. PcNoted'
    BY <2>1 DEF PcNoted, FirstAccess, lane_cross, InItcm, LaneWidth
  <2>3. AccessIsDue'
    <3>1. CASE zero
      BY <2>1, <3>1 DEF FirstAccess, AccessIsDue, Lane, LaneWidth, InItcm
    <3>2. CASE ~zero
      <4>1. AskedNext(IF same THEN Plus(pc, 1) ELSE pc)
        BY <2>1, <3>2 DEF FirstAccess
      <4>2. QED BY <2>1, <3>2, <4>1 DEF AccessIsDue, Asked, AskedNext, Plus, InItcm, Lane, LaneWidth
    <3>3. QED BY <3>1, <3>2
  <2>4. HalvesAreDue'
    BY <2>1 DEF HalvesAreDue, FirstAccess
  <2>5. HeldLane'
    <3>1. CASE two
      BY <2>1, <3>1 DEF HeldLane, second_uop
    <3>2. CASE zero
      <4>1. LastHalf' = pc /\ InItcm(pc) /\ icb_cmd2_r' = "itcm" /\ ram_dout' = Lane(pc)
        BY <2>1, <3>2 DEF FirstAccess, LastHalf, lane_cross, InItcm, LaneWidth
      <4>2. QED BY <4>1 DEF HeldLane, InItcm, Lane, LaneWidth
    <3>3. CASE ~two /\ ~zero
      <4>1. HeldNext(IF same THEN Plus(pc, 1) ELSE pc)
        BY <2>1, <3>3 DEF FirstAccess
      <4>2. LastHalf' = IF same THEN Plus(pc, 1) ELSE pc
        BY <2>1, <3>3 DEF FirstAccess, LastHalf, lane_cross, InItcm, LaneWidth, Plus
      <4>3. QED BY <4>1, <4>2 DEF HeldNext, HeldLane, InItcm, Lane, LaneWidth
    <3>4. QED BY <3>1, <3>2, <3>3
  <2>6. QED BY <2>2, <2>3, <2>4, <2>5 DEF FetchIsPc
<1>3. CASE ~core_wfi /\ ~Starts(req) /\ ~Overtaken'
  <2>1. (PcNoted /\ AccessIsDue /\ HalvesAreDue /\ HeldLane)'
    BY <1>3, WaitingIsPc
  <2>2. QED BY <2>1 DEF FetchIsPc
<1>4. CASE Overtaken'
  BY <1>4 DEF FetchIsPc
<1>5. QED BY <1>1, <1>2, <1>3, <1>4


-----------------------------------------------------------------------------
(* FetchShape is an invariant. *)
LEMMA FetchShapeInit == FetchInit => FetchShape
<1> SUFFICES ASSUME FetchInit PROVE FetchShape
  OBVIOUS
<1>1. 0 \in Address
  BY FetchMemAssumption DEF Address
<1>2. FetchTypeOk
  <2>1. MemTypeOk
    BY DEF FetchInit, MemInit, MemTypeOk
  <2>2. rsp_buf \in Seq(Word \X Word) /\ Len(rsp_buf) <= 1
    <3> DEFINE Answer == Word \X Word
    <3> SUFFICES rsp_buf \in Seq(Answer) /\ Len(rsp_buf) <= 1
      OBVIOUS
    <3> HIDE DEF Answer
    <3>1. rsp_buf = <<>>
      BY DEF FetchInit
    <3>2. QED BY <3>1
  <2>3. ifu_ir_r \in Word \X Word /\ leftover_r \in Word
    BY DEF FetchInit, Word
  <2>4. flushes \in 0..MaxFlush /\ irqs \in 0..MaxIrq
    BY FetchAssumption DEF FetchInit
  <2>5. FetchTypeOk
    <3>1. program \in Programs /\ {pc_r, ifu_pc_r, next_pc} \subseteq Address
      BY <1>1 DEF FetchInit
    <3>2. \A flag \in {reset_flag_r, reset_req_r, halt_ack_r, dly_flush_r, pc_newpend_r, out_flag_r,
                  ir_valid_r, ir_pc_vld_r, rs1xn_rdrf_r, req_same_cross_holdup_r,
                  req_need_2uop_r, req_need_0uop_r, req_lane_cross_r, wfi_halt_req_r,
                  wfi_flag_r, status_mie, irq} : flag \in BOOLEAN
      BY DEF FetchInit
    <3>3. /\ icb_state_r = "IDLE" /\ icb_cmd2_r = "none" /\ icb_cmd_addr_2_1_r \in 0..3
          /\ quiet_tick \in {0, 1}
      BY DEF FetchInit
    <3>4. QED BY <2>1, <2>2, <2>3, <2>4, <3>1, <3>2, <3>3 DEF FetchTypeOk
  <2>6. QED BY <2>5
<1>3. FetchAwaited
  BY NobodyIsNoAddress DEF FetchInit, MemInit, FetchAwaited
<1>4. ItcmOrder
  BY NobodyIsNoAddress DEF FetchInit, MemInit, ItcmOrder
<1>5. RequestAgrees /\ NothingAsked
  BY DEF FetchInit, RequestAgrees, NothingAsked
<1>6. FetchIsPc
  BY DEF FetchInit, FetchIsPc, Overtaken
<1>7. QED BY <1>2, <1>3, <1>4, <1>5, <1>6 DEF FetchShape

LEMMA FetchShapeStep == FetchShape /\ [FetchNext]_fetchVars => FetchShape'
<1>1. CASE UNCHANGED fetchVars
  <2> SUFFICES ASSUME FetchShape PROVE FetchShape'
    OBVIOUS
  <2>1. UNCHANGED <<program, memVars, clockVars, exuVars, quiet_tick>>
    BY <1>1 DEF fetchVars
  <2>2. /\ UNCHANGED <<cmd_buf, itcm_stage, ram_dout, ifu_holdup_r, bus_lane, bus_rsp>>
        /\ UNCHANGED <<reset_flag_r, reset_req_r, halt_ack_r, dly_flush_r, pc_r, pc_newpend_r,
               out_flag_r, ir_valid_r, ir_pc_vld_r, ifu_pc_r, ifu_ir_r, rs1xn_rdrf_r,
               icb_state_r, req_same_cross_holdup_r, req_need_2uop_r, req_need_0uop_r,
               req_lane_cross_r, icb_cmd2_r, icb_cmd_addr_2_1_r, leftover_r, rsp_buf>>
        /\ UNCHANGED <<wfi_halt_req_r, wfi_flag_r, status_mie, irq, next_pc, flushes, irqs>>
        /\ UNCHANGED <<program, quiet_tick>>
    BY <2>1 DEF memVars, clockVars, exuVars
  <2>3. FetchTypeOk'
    BY <2>2 DEF FetchShape, FetchTypeOk, MemTypeOk, Address, Word
  <2>4. FetchAwaited' /\ ItcmOrder'
    BY <2>2 DEF FetchShape, FetchAwaited, ItcmOrder, Address, InItcm, Lane, LaneWidth
  <2>5. RequestAgrees' /\ NothingAsked'
    BY <2>2 DEF FetchShape, RequestAgrees, NothingAsked
  <2>6. FetchIsPc'
    <3>1. FetchIsPc
      BY DEF FetchShape
    <3>2. (Overtaken' <=> Overtaken) /\ (second_uop' <=> second_uop)
      BY <2>2 DEF Overtaken, second_uop
    <3>3. PcNoted => PcNoted'
      BY <2>2 DEF PcNoted, lane_cross, InItcm, LaneWidth
    <3>4. AccessIsDue => AccessIsDue'
      BY <2>2 DEF AccessIsDue, Asked, Plus, InItcm, Lane, LaneWidth
    <3>5. HalvesAreDue => HalvesAreDue'
      BY <2>2 DEF HalvesAreDue, Plus
    <3>6. HeldLane => HeldLane'
      BY <2>2, <3>2 DEF HeldLane, LastHalf, lane_cross, Plus, InItcm, Lane, LaneWidth
    <3>7. QED BY <3>1, <3>2, <3>3, <3>4, <3>5, <3>6 DEF FetchIsPc
  <2>7. QED BY <2>3, <2>4, <2>5, <2>6 DEF FetchShape
<1>2. CASE FetchNext
  <2> SUFFICES ASSUME FetchShape PROVE FetchShape'
    OBVIOUS
  <2>1. FetchTypeOk
    BY DEF FetchShape
  <2>2. PICK flush, o_rdy, oitf_empty, lsu_cmd, lsu_rdy, answers,
             pc, addr, ready, rsp, req, valid :
          /\ Edge(flush, o_rdy, oitf_empty, lsu_cmd, lsu_rdy, answers,
                  pc, addr, ready, rsp, req, valid)
          /\ Executes(flush, o_rdy, oitf_empty)
    BY <1>2, <2>1, CycleOf
  <2>3. UNCHANGED program /\ quiet_tick' \in {0, 1}
    BY <1>2, <2>1, CycleOf
  <2>4. FetchTypeOk'
    BY <2>2, <2>3, TypeStep
  <2>5. FetchAwaited' /\ RequestAgrees'
    <3>1. CASE core_wfi
      BY <2>2, <3>1, StoppedAwaited
    <3>2. CASE ~core_wfi
      BY <2>2, <3>2, RunningAwaited
    <3>3. QED BY <3>1, <3>2
  <2>6. ItcmOrder'
    BY <2>2, MemoriesStep
  <2>7. NothingAsked'
    BY <2>2, NothingAskedStep
  <2>8. FetchIsPc'
    BY <2>2, FetchIsPcStep
  <2>9. QED BY <2>4, <2>5, <2>6, <2>7, <2>8 DEF FetchShape
<1>3. QED BY <1>1, <1>2

\* In every reachable state each register and memory holds what it may, a
\* fetch that no flush has overtaken is that of pc_r, its access goes where
\* pc_r says, and the lane held up and the leftover are the halves it needs.
THEOREM FetchHoldsTogether == FetchSpec => []FetchShape
<1>1. QED BY FetchShapeInit, FetchShapeStep, PTL DEF FetchSpec

\* For every program and pattern of stalls and flushes, a WFI with interrupts
\* disabled included: ifetch waits for exactly the answers the memories owe
\* it (out_flag_r, icb_state_r against the ITCM's and the memory's stage).
THEOREM FetchesAnswered == FetchSpec => []FetchAwaited
<1>1. FetchShape => FetchAwaited
  BY DEF FetchShape
<1>2. QED BY <1>1, FetchHoldsTogether, PTL

-----------------------------------------------------------------------------
(* FetchOrder, from one fetch to the next. *)

\* What an answer to a fetch in order is: the two halves of the instruction at
\* pc_r, and so pc_nxt goes to its successor.
LEMMA AnswerIsDue ==
  ASSUME FetchShape, rsp_valid
  PROVE  /\ out_flag_r /\ ~reset_flag_r /\ ~reset_req_r
         /\ ~dly_flush_r => /\ ifu_ir_nxt = <<pc_r, Plus(pc_r, 1)>>
                            /\ kind = program[pc_r] /\ pc_nxt(Nobody) = Successor(pc_r)
<1>1. out_flag_r
  BY AnswersTaken DEF rsp_valid, FetchShape, FetchAwaited
<1>2. ~reset_flag_r /\ ~reset_req_r
  BY <1>1 DEF FetchShape, NothingAsked
<1>3. ASSUME ~dly_flush_r
      PROVE  /\ ifu_ir_nxt = <<pc_r, Plus(pc_r, 1)>>
             /\ kind = program[pc_r] /\ pc_nxt(Nobody) = Successor(pc_r)
  <2>1. ~Overtaken
    BY <1>2, <1>3 DEF Overtaken
  <2>2. HalvesAreDue /\ pc_r \in Address
    BY <2>1 DEF FetchShape, FetchIsPc, FetchTypeOk
  <2>3. ifu_ir_nxt = <<pc_r, Plus(pc_r, 1)>>
    <3>1. CASE rsp_buf # <<>>
      <4>1. rsp_buf[1] = <<pc_r, Plus(pc_r, 1)>>
        BY <2>2, <3>1 DEF HalvesAreDue
      <4>2. QED BY <3>1, <4>1 DEF ifu_ir_nxt
    <3>2. CASE rsp_buf = <<>>
      <4>1. i_rsp_instr = <<pc_r, Plus(pc_r, 1)>>
        BY <2>1, <3>2, ResponseIsDue DEF rsp_valid
      <4>2. QED BY <3>2, <4>1 DEF ifu_ir_nxt
    <3>3. QED BY <3>1, <3>2
  <2>4. kind = program[pc_r] /\ ifu_ir_nxt[1] = pc_r
    BY <2>2, <2>3 DEF kind
  <2>5. pc_nxt(Nobody) = Successor(pc_r)
    BY <1>2, <1>3, <2>4 DEF pc_nxt, Successor, bjp_req, jump_base
  <2>6. QED BY <2>3, <2>4, <2>5
<1>4. QED BY <1>1, <1>2, <1>3

\* Out of reset nothing is on the response data, and the first fetch is at 0.
LEMMA ResetAtZero ==
  ASSUME FetchShape, reset_req_r
  PROVE  pc_nxt(Nobody) = 0
<1>1. ~out_flag_r /\ ~dly_flush_r /\ icb_cmd2_r = "none"
  BY DEF FetchShape, NothingAsked
<1>2. icb_state_r = "IDLE" /\ rsp_buf = <<>>
  BY <1>1 DEF FetchShape, FetchAwaited
<1>3. ifu_ir_nxt = <<Half(Lsu, 0), Half(Lsu, 1)>>
  <2>1. rsp_lane = Lsu /\ ~rsp_sel_leftover
    BY <1>1, <1>2 DEF rsp_lane, rsp_sel_leftover
  <2>2. aligned = <<Half(Lsu, 0), Half(Lsu, 1)>>
    BY <1>1, <2>1 DEF aligned
  <2>3. QED BY <1>2, <2>1, <2>2 DEF ifu_ir_nxt, i_rsp_instr
<1>4. ifu_ir_nxt[1] \notin Address
  BY <1>3, NobodyIsNoAddress DEF Half
<1>5. ~bjp_req
  BY <1>4 DEF bjp_req, kind
<1>6. QED BY <1>1, <1>5 DEF pc_nxt

\* What the execution stage may do to the order of fetches.
LEMMA ExecutionOrder ==
  ASSUME FetchShape, FetchOrder, ~WfiMasked, NEW flush, NEW o_rdy, NEW oitf_empty,
         Executes(flush, o_rdy, oitf_empty)
  PROVE  /\ o_rdy => ir_valid_r /\ ~Waking
         /\ Waking /\ flush = Nobody => Waking'
         /\ wfi_halt_req_r' => status_mie'
         /\ flush # Nobody => o_rdy \/ ~status_mie'
         /\ flush = Nobody /\ ~o_rdy => status_mie' = status_mie
         /\ halt_req => wfi_halt_req_r'
         /\ next_pc' = IF flush # Nobody THEN flush
                       ELSE IF o_rdy THEN Successor(next_pc) ELSE next_pc
<1>1. PICK cause \in {"none", "branch", "trap", "mret"}, commits \in {"other", "disable", "enable", "wfi"},
           raise \in BOOLEAN, drop \in BOOLEAN :
        /\ Execution(flush, cause, o_rdy, commits, wfi_halt_req_r /\ oitf_empty, raise, drop)
        /\ cause = "none" <=> flush = Nobody
        /\ drop => ~status_mie
        /\ o_rdy => MayAccept
        /\ cause = "trap" => ~o_rdy
        /\ cause \in {"branch", "mret"} => o_rdy
        /\ commits # "other" => o_rdy /\ cause = "none"
        /\ commits = "wfi" => WfiMasked \/ status_mie
  BY DEF Executes
<1>2. /\ wfi_halt_req_r' = ((wfi_halt_req_r \/ commits = "wfi") /\ ~irq)
      /\ status_mie' = (\/ cause = "mret" \/ commits = "enable"
                        \/ status_mie /\ cause # "trap" /\ commits # "disable")
      /\ irq' = (raise \/ (irq /\ ~drop))
      /\ next_pc' = IF flush # Nobody THEN flush
                    ELSE IF ir_valid_r /\ o_rdy THEN Successor(next_pc) ELSE next_pc
  BY <1>1 DEF Execution
<1>3. wfi_halt_req_r => status_mie
  BY DEF FetchOrder, FetchIsDue
<1>4. status_mie \in BOOLEAN /\ wfi_halt_req_r \in BOOLEAN /\ irq \in BOOLEAN
  BY Flags DEF FetchShape
<1>5. o_rdy => ir_valid_r /\ ~wfi_halt_req_r /\ ~(irq /\ status_mie)
  BY <1>1 DEF MayAccept
<1>6. o_rdy => ir_valid_r /\ ~Waking
  BY <1>5 DEF Waking
<1>7. flush = Nobody /\ ~o_rdy => status_mie' = status_mie
  BY <1>1, <1>2, <1>4
<1>8. Waking /\ flush = Nobody => Waking'
  <2>1. ASSUME Waking, flush = Nobody PROVE Waking'
    <3>1. status_mie /\ (wfi_halt_req_r \/ irq) /\ ~o_rdy
      BY <1>6, <2>1 DEF Waking
    <3>2. status_mie'
      BY <1>7, <2>1, <3>1
    <3>3. irq => irq'
      BY <1>1, <1>2, <3>1
    <3>4. ~irq => wfi_halt_req_r'
      BY <1>2, <3>1
    <3>5. QED BY <3>2, <3>3, <3>4 DEF Waking
  <2>2. QED BY <2>1
<1>9. wfi_halt_req_r' => status_mie'
  BY <1>1, <1>2, <1>3, <1>5, ExecutionHolds
<1>10. flush # Nobody => o_rdy \/ ~status_mie'
  BY <1>1, <1>2
<1>11. halt_req => wfi_halt_req_r'
  BY <1>2 DEF halt_req
<1>12. QED BY <1>2, <1>6, <1>7, <1>8, <1>9, <1>10, <1>11

LEMMA FetchOrderRunning ==
  ASSUME FetchShape, FetchOrder, ~WfiMasked, ~core_wfi,
         NEW flush, NEW o_rdy, NEW oitf_empty, NEW lsu_cmd, NEW lsu_rdy, NEW answers,
         NEW pc, NEW addr, NEW ready, NEW rsp, NEW req, NEW valid,
         Edge(flush, o_rdy, oitf_empty, lsu_cmd, lsu_rdy, answers, pc, addr, ready, rsp, req, valid),
         Executes(flush, o_rdy, oitf_empty), UNCHANGED program
  PROVE  FetchOrder'
<1> DEFINE set == rsp /\ flush = Nobody /\ ~dly_flush_r
           clr == ir_valid_r /\ (o_rdy \/ flush # Nobody)
           ena == req \/ flush # Nobody
           pcset == pc_newpend_r /\ (~ir_valid_r \/ clr) /\ flush = Nobody /\ ~dly_flush_r
<1>1. /\ o_rdy => ir_valid_r /\ ~Waking
      /\ Waking /\ flush = Nobody => Waking'
      /\ wfi_halt_req_r' => status_mie'
      /\ flush # Nobody => o_rdy \/ ~status_mie'
      /\ flush = Nobody /\ ~o_rdy => status_mie' = status_mie
      /\ halt_req => wfi_halt_req_r'
      /\ next_pc' = IF flush # Nobody THEN flush
                    ELSE IF o_rdy THEN Successor(next_pc) ELSE next_pc
  BY ExecutionOrder
<1>2. /\ reset_flag_r' = FALSE
      /\ reset_req_r' = IF reset_req_r THEN ~req ELSE reset_flag_r
      /\ dly_flush_r' = IF flush # Nobody THEN ~req ELSE dly_flush_r /\ ~req
      /\ pc_r' = IF ena THEN pc ELSE pc_r
      /\ pc_newpend_r' = (ena \/ (pc_newpend_r /\ ~pcset))
      /\ out_flag_r' = (req \/ (out_flag_r /\ ~rsp))
      /\ ir_valid_r' = (set \/ (ir_valid_r /\ ~clr))
      /\ ir_pc_vld_r' = (pcset \/ (ir_pc_vld_r /\ ~clr))
      /\ ifu_pc_r' = IF pcset THEN pc_r ELSE ifu_pc_r
      /\ ifu_ir_r' = IF set THEN <<ifu_ir_nxt[1], IF rv32 THEN ifu_ir_nxt[2] ELSE ifu_ir_r[2]>>
                     ELSE ifu_ir_r
  <2>1. Registers(flush, o_rdy, oitf_empty, req, rsp, valid /\ ready, ready, pc, addr)
    BY DEF Edge
  <2>2. QED BY <2>1 DEF Registers, DlyFlush, IrSet, ir_valid_clr
<1>3. /\ flush \in Address \cup {Nobody} /\ o_rdy \in BOOLEAN /\ req \in BOOLEAN /\ rsp \in BOOLEAN
      /\ pc = pc_nxt(flush)
      /\ rsp => rsp_valid
      /\ rsp /\ flush = Nobody /\ ~dly_flush_r =>
           /\ ~ir_valid_r \/ clr
           /\ ~halt_req /\ ~reset_flag_r => req
      /\ req => (~out_flag_r \/ rsp) /\ MayAsk(flush)
  BY DEF Edge, Wires, Inputs, Flushed, ir_valid_clr
<1>4. /\ reset_flag_r \/ reset_req_r =>
           ~out_flag_r /\ ~ir_valid_r /\ ~ir_pc_vld_r /\ ~dly_flush_r /\ ~pc_newpend_r /\ next_pc = 0
      /\ ir_valid_r \/ wfi_halt_req_r => ~dly_flush_r
  BY DEF FetchShape, NothingAsked
<1>5. FetchIsDue /\ IrInProgramOrder /\ PcIsDue
  BY DEF FetchOrder
<1>6. /\ ir_valid_r \in BOOLEAN /\ ir_pc_vld_r \in BOOLEAN /\ pc_newpend_r \in BOOLEAN
      /\ out_flag_r \in BOOLEAN /\ dly_flush_r \in BOOLEAN
  BY Flags DEF FetchShape
<1>7. rsp => /\ out_flag_r /\ ~reset_flag_r /\ ~reset_req_r
             /\ ~dly_flush_r => /\ ifu_ir_nxt = <<pc_r, Plus(pc_r, 1)>>
                                /\ kind = program[pc_r] /\ pc_nxt(Nobody) = Successor(pc_r)
  BY <1>3, AnswerIsDue
<1>8. Due' = IF ir_valid_r' THEN Successor(next_pc') ELSE next_pc'
  BY DEF Due, Successor, Plus, Length
<1>9. reset_req_r => pc_nxt(Nobody) = 0
  BY ResetAtZero
<1>10. Waking => status_mie
  BY DEF Waking
<1>11. Waking' <=> status_mie' /\ (wfi_halt_req_r' \/ irq')
  BY DEF Waking
<1>12. halt_req => Waking'
  BY <1>1, <1>11
<1>13. FetchIsDue => (~dly_flush_r /\ ~reset_flag_r /\ ~reset_req_r =>
          \/ out_flag_r /\ pc_r = IF ir_valid_r THEN Successor(next_pc) ELSE next_pc
          \/ Waking /\ ir_valid_r)
  BY DEF FetchIsDue, Overtaken, Due
<1>14. set => pc_r = next_pc' /\ ir_valid_r' /\ ~reset_flag_r /\ ~reset_req_r
  BY <1>1, <1>2, <1>3, <1>5, <1>7, <1>13
<1> HIDE DEF set, clr, ena, pcset
<1>15. FetchIsDue'
  <2>1. dly_flush_r' => pc_r' = next_pc'
    <3>1. CASE flush # Nobody
      <4>1. pc = flush
        BY <1>3, <3>1 DEF pc_nxt
      <4>2. QED BY <1>1, <1>2, <3>1, <4>1 DEF ena
    <3>2. CASE flush = Nobody
      BY <1>1, <1>2, <1>4, <1>5, <3>2 DEF ena, FetchIsDue
    <3>3. QED BY <3>1, <3>2
  <2>2. ASSUME ~Overtaken' PROVE (out_flag_r' /\ pc_r' = Due') \/ (Waking' /\ ir_valid_r')
    <3>1. ~dly_flush_r' /\ ~reset_flag_r' /\ ~reset_req_r'
      BY <2>2 DEF Overtaken
    <3>2. CASE req /\ flush # Nobody
      <4>1. pc = flush
        BY <1>3, <3>2 DEF pc_nxt
      <4>2. ~ir_valid_r'
        BY <1>2, <3>2 DEF set, clr
      <4>3. QED BY <1>1, <1>2, <1>8, <3>2, <4>1, <4>2 DEF ena
    <3>3. CASE req /\ flush = Nobody /\ dly_flush_r
      <4>1. pc = pc_r /\ pc_r = next_pc
        BY <1>3, <1>5, <3>3 DEF pc_nxt, FetchIsDue
      <4>2. ~ir_valid_r' /\ next_pc' = next_pc
        BY <1>1, <1>2, <1>4, <3>3 DEF set
      <4>3. QED BY <1>2, <1>8, <3>3, <4>1, <4>2 DEF ena
    <3>4. CASE req /\ flush = Nobody /\ ~dly_flush_r /\ (reset_flag_r \/ reset_req_r)
      <4>1. reset_req_r
        BY <1>3, <3>4 DEF MayAsk, Flushed
      <4>2. ~rsp /\ ~ir_valid_r'
        BY <1>2, <1>4, <1>7, <3>4 DEF set
      <4>3. pc = 0 /\ next_pc' = 0
        BY <1>1, <1>3, <1>4, <1>9, <3>4, <4>1
      <4>4. QED BY <1>2, <1>8, <3>4, <4>2, <4>3 DEF ena
    <3>5. CASE req /\ flush = Nobody /\ ~dly_flush_r /\ ~reset_flag_r /\ ~reset_req_r /\ rsp
      <4>1. set /\ pc_r = next_pc' /\ ir_valid_r'
        BY <1>14, <3>5 DEF set
      <4>2. pc = Successor(pc_r)
        BY <1>3, <1>7, <3>5
      <4>3. QED BY <1>2, <1>8, <3>5, <4>1, <4>2 DEF ena
    <3>6. CASE req /\ flush = Nobody /\ ~dly_flush_r /\ ~reset_flag_r /\ ~reset_req_r /\ ~rsp
      <4>1. Waking /\ ir_valid_r /\ ~o_rdy
        BY <1>1, <1>3, <1>5, <1>13, <3>6
      <4>2. QED BY <1>1, <1>2, <3>6, <4>1 DEF clr
    <3>7. CASE ~req
      <4>1. flush = Nobody /\ ~dly_flush_r /\ ~reset_flag_r /\ ~reset_req_r /\ pc_r' = pc_r
        BY <1>2, <3>1, <3>7 DEF ena
      <4>2. CASE Waking /\ ir_valid_r
        BY <1>1, <1>2, <4>1, <4>2 DEF clr
      <4>3. CASE out_flag_r /\ pc_r = (IF ir_valid_r THEN Successor(next_pc) ELSE next_pc) /\ rsp
        BY <1>2, <1>3, <1>12, <3>7, <4>1, <4>3 DEF set
      <4>4. CASE out_flag_r /\ pc_r = (IF ir_valid_r THEN Successor(next_pc) ELSE next_pc) /\ ~rsp
        <5>1. ir_valid_r' = (ir_valid_r /\ ~o_rdy) /\ out_flag_r'
          BY <1>2, <1>6, <4>1, <4>4 DEF set, clr
        <5>2. QED BY <1>1, <1>8, <4>1, <4>4, <5>1
      <4>5. QED BY <1>5, <1>13, <4>1, <4>2, <4>3, <4>4
    <3>8. QED BY <3>2, <3>3, <3>4, <3>5, <3>6, <3>7
  <2>3. QED BY <1>1, <2>1, <2>2 DEF FetchIsDue
<1>16. IrInProgramOrder'
  <2>1. CASE set
    <3>1. ifu_ir_r' = <<pc_r, IF rv32 THEN Plus(pc_r, 1) ELSE ifu_ir_r[2]>>
          /\ kind = program[pc_r]
      BY <1>2, <1>7, <2>1 DEF set
    <3>2. QED BY <1>14, <2>1, <3>1 DEF IrInProgramOrder, rv32, Plus
  <2>2. CASE ~set
    <3>1. ifu_ir_r' = ifu_ir_r /\ (ir_valid_r' => ir_valid_r /\ next_pc' = next_pc)
      BY <1>1, <1>2, <2>2 DEF clr
    <3>2. QED BY <1>5, <3>1 DEF IrInProgramOrder, Plus
  <2>3. QED BY <2>1, <2>2
<1>17. PcIsDue'
  <2>1. ir_valid_r' => pc_newpend_r' \/ Waking'
    <3>1. CASE set
      BY <1>2, <1>3, <1>12, <1>14, <3>1 DEF set, ena
    <3>2. CASE ir_valid_r /\ ~clr
      BY <1>1, <1>2, <1>5, <3>2 DEF clr, pcset, PcIsDue
    <3>3. QED BY <1>2, <3>1, <3>2
  <2>2. ir_pc_vld_r' /\ ir_valid_r' => ifu_pc_r' = next_pc'
    <3>1. CASE pcset /\ ir_valid_r'
      BY <1>2, <1>14, <3>1 DEF pcset
    <3>2. CASE ~pcset /\ ir_pc_vld_r /\ ir_valid_r /\ ~clr
      BY <1>1, <1>2, <1>5, <3>2 DEF clr, PcIsDue
    <3>3. CASE ~pcset /\ ~ir_valid_r /\ set
      <4>1. ~pc_newpend_r
        BY <3>3 DEF set, pcset
      <4>2. ifu_pc_r = pc_r
        BY <1>5, <1>14, <3>3, <4>1 DEF PcIsDue
      <4>3. QED BY <1>2, <1>14, <3>3, <4>2
    <3>4. QED BY <1>2, <3>1, <3>2, <3>3 DEF clr
  <2>3. ir_pc_vld_r' /\ ~ir_valid_r' /\ pc_newpend_r' => ~status_mie'
    <3>1. CASE pcset /\ ~ir_valid_r' /\ pc_newpend_r'
      <4>1. req /\ ~rsp /\ ~out_flag_r /\ flush = Nobody /\ ~dly_flush_r
        BY <1>2, <1>3, <1>6, <3>1 DEF pcset, set, ena
      <4>2. ~reset_flag_r /\ ~reset_req_r
        BY <1>4, <3>1 DEF pcset
      <4>3. Waking /\ ir_valid_r /\ ~o_rdy
        BY <1>1, <1>5, <1>13, <4>1, <4>2
      <4>4. QED BY <3>1, <4>1, <4>3 DEF pcset, clr
    <3>2. CASE ~pcset /\ ir_pc_vld_r /\ ~ir_valid_r /\ ~set /\ pc_newpend_r'
      <4>1. ~o_rdy /\ ~reset_flag_r /\ ~reset_req_r
        BY <1>1, <1>4, <3>2
      <4>2. CASE flush # Nobody
        BY <1>1, <4>1, <4>2
      <4>3. CASE flush = Nobody /\ pc_newpend_r
        BY <1>1, <1>5, <3>2, <4>1, <4>3 DEF PcIsDue
      <4>4. CASE flush = Nobody /\ ~pc_newpend_r
        <5>1. req /\ ~dly_flush_r
          BY <1>2, <1>5, <3>2, <4>1, <4>4 DEF ena, PcIsDue
        <5>2. ~rsp /\ ~out_flag_r
          BY <1>3, <3>2, <4>4, <5>1 DEF set
        <5>3. QED BY <1>5, <1>13, <3>2, <4>1, <5>1, <5>2
      <4>5. QED BY <4>2, <4>3, <4>4
    <3>3. QED BY <1>2, <3>1, <3>2
  <2>4. ~ir_valid_r' /\ ~pc_newpend_r' /\ ~reset_flag_r' /\ ~reset_req_r' =>
          ir_pc_vld_r' /\ ifu_pc_r' = pc_r' /\ ~dly_flush_r'
    <3> SUFFICES ASSUME ~ir_valid_r', ~pc_newpend_r', ~reset_flag_r', ~reset_req_r'
                 PROVE  ir_pc_vld_r' /\ ifu_pc_r' = pc_r' /\ ~dly_flush_r'
      OBVIOUS
    <3>1. /\ ~req /\ flush = Nobody /\ (pc_newpend_r => pcset) /\ pc_r' = pc_r
          /\ ~reset_flag_r /\ ~reset_req_r /\ ~set /\ (ir_valid_r => clr)
      BY <1>2 DEF ena
    <3>2. CASE pc_newpend_r
      BY <1>2, <3>1, <3>2 DEF pcset
    <3>3. CASE ~pc_newpend_r
      <4>1. ~ir_valid_r
        BY <1>1, <1>5, <3>1, <3>3 DEF clr, PcIsDue
      <4>2. ir_pc_vld_r /\ ifu_pc_r = pc_r /\ ~dly_flush_r /\ ~pcset /\ ~clr
        BY <1>5, <3>1, <3>3, <4>1 DEF PcIsDue, pcset, clr
      <4>3. QED BY <1>2, <3>1, <4>2
    <3>4. QED BY <3>2, <3>3
  <2>5. QED BY <2>1, <2>2, <2>3, <2>4 DEF PcIsDue
<1>18. QED BY <1>15, <1>16, <1>17 DEF FetchOrder

\* A clock a WFI stopped keeps the order: the interrupt that starts it again
\* redirects, so the WFI was executed with interrupts enabled.
LEMMA FetchOrderStopped ==
  ASSUME FetchShape, FetchOrder, ~WfiMasked, core_wfi,
         NEW flush, NEW o_rdy, NEW oitf_empty, NEW lsu_cmd, NEW lsu_rdy, NEW answers,
         NEW pc, NEW addr, NEW ready, NEW rsp, NEW req, NEW valid,
         Edge(flush, o_rdy, oitf_empty, lsu_cmd, lsu_rdy, answers, pc, addr, ready, rsp, req, valid),
         Executes(flush, o_rdy, oitf_empty), UNCHANGED program
  PROVE  FetchOrder'
<1>1. /\ Waking /\ flush = Nobody => Waking'
      /\ wfi_halt_req_r' => status_mie'
      /\ flush = Nobody /\ ~o_rdy => status_mie' = status_mie
      /\ next_pc' = IF flush # Nobody THEN flush
                    ELSE IF o_rdy THEN Successor(next_pc) ELSE next_pc
  BY ExecutionOrder
<1>2. flush = Nobody /\ ~o_rdy
  BY StoppedIsQuiet DEF Edge
<1>3. UNCHANGED <<ir_valid_r, ir_pc_vld_r, pc_newpend_r, out_flag_r, dly_flush_r, reset_flag_r,
                  reset_req_r, pc_r, ifu_pc_r, ifu_ir_r>>
  BY DEF Edge, clockVars
<1>4. next_pc' = next_pc /\ status_mie' = status_mie /\ (Waking => Waking')
  BY <1>1, <1>2
<1>5. Due' = Due
  BY <1>3, <1>4 DEF Due, Successor, Plus, Length
<1>6. FetchIsDue /\ IrInProgramOrder /\ PcIsDue
  BY DEF FetchOrder
<1>7. FetchIsDue'
  BY <1>1, <1>3, <1>4, <1>5, <1>6 DEF FetchIsDue, Overtaken
<1>8. IrInProgramOrder'
  BY <1>3, <1>4, <1>6 DEF IrInProgramOrder, Plus
<1>9. PcIsDue'
  BY <1>3, <1>4, <1>6 DEF PcIsDue
<1>10. QED BY <1>7, <1>8, <1>9 DEF FetchOrder

LEMMA FetchOrderInit == FetchInit => FetchOrder
BY DEF FetchInit, FetchOrder, FetchIsDue, IrInProgramOrder, PcIsDue, Overtaken

LEMMA FetchOrderStep ==
  ASSUME ~WfiMasked, FetchShape, FetchOrder, [FetchNext]_fetchVars
  PROVE  FetchOrder'
<1>1. CASE UNCHANGED fetchVars
  <2>1. /\ UNCHANGED <<program, wfi_halt_req_r, status_mie, irq, next_pc>>
        /\ UNCHANGED <<ir_valid_r, ir_pc_vld_r, pc_newpend_r, out_flag_r, dly_flush_r, reset_flag_r,
                       reset_req_r, pc_r, ifu_pc_r, ifu_ir_r>>
    BY <1>1 DEF fetchVars, clockVars, exuVars
  <2>2. Due' = Due /\ (Waking' <=> Waking)
    BY <2>1 DEF Due, Successor, Plus, Length, Waking
  <2>3. FetchIsDue /\ IrInProgramOrder /\ PcIsDue
    BY DEF FetchOrder
  <2>4. FetchIsDue'
    BY <2>1, <2>2, <2>3 DEF FetchIsDue, Overtaken
  <2>5. IrInProgramOrder'
    BY <2>1, <2>3 DEF IrInProgramOrder, Plus
  <2>6. PcIsDue'
    BY <2>1, <2>2, <2>3 DEF PcIsDue
  <2>7. QED BY <2>4, <2>5, <2>6 DEF FetchOrder
<1>2. CASE FetchNext
  <2>1. FetchTypeOk
    BY DEF FetchShape
  <2>2. PICK flush, o_rdy, oitf_empty, lsu_cmd, lsu_rdy, answers,
             pc, addr, ready, rsp, req, valid :
          /\ Edge(flush, o_rdy, oitf_empty, lsu_cmd, lsu_rdy, answers,
                  pc, addr, ready, rsp, req, valid)
          /\ Executes(flush, o_rdy, oitf_empty)
    BY <1>2, <2>1, CycleOf
  <2>3. UNCHANGED program
    BY <1>2, <2>1, CycleOf
  <2>4. CASE core_wfi
    BY <2>2, <2>3, <2>4, FetchOrderStopped
  <2>5. CASE ~core_wfi
    BY <2>2, <2>3, <2>5, FetchOrderRunning
  <2>6. QED BY <2>4, <2>5
<1>3. QED BY <1>1, <1>2

LEMMA FetchesInOrder == ASSUME ~WfiMasked PROVE FetchSpec => []FetchOrder
<1>1. FetchShape /\ FetchOrder /\ [FetchNext]_fetchVars => FetchOrder'
  BY FetchOrderStep
<1>2. QED BY <1>1, FetchOrderInit, FetchHoldsTogether, PTL DEF FetchSpec

\* For every program, memory size, redirection and stall: an instruction the
\* fetch unit hands over is whole and is the one that is due, when a WFI is
\* only executed with interrupts enabled (ir_valid_set, dly_flush_r,
\* leftover_r, req_need_0uop_r).
THEOREM InstructionsInOrder == ASSUME ~WfiMasked PROVE FetchSpec => []IrInProgramOrder
<1>1. FetchOrder => IrInProgramOrder
  BY DEF FetchOrder
<1>2. QED BY <1>1, FetchesInOrder, PTL

\* Under the same condition the PC offered for mepc is the one that is due
\* whenever an interrupt may be taken or the IR holds an instruction
\* (ir_pc_vld_set, pc_newpend_r).
THEOREM PcsInOrder == ASSUME ~WfiMasked PROVE FetchSpec => []PcInProgramOrder
<1>1. FetchShape /\ FetchOrder => PcInProgramOrder
  <2> SUFFICES ASSUME FetchShape, FetchOrder, ir_pc_vld_r, status_mie \/ ir_valid_r
               PROVE  ifu_pc_r = next_pc
    BY DEF PcInProgramOrder
  <2>1. FetchIsDue /\ PcIsDue
    BY DEF FetchOrder
  <2>2. CASE ir_valid_r
    BY <2>1, <2>2 DEF PcIsDue
  <2>3. CASE ~ir_valid_r
    <3>1. ~reset_flag_r /\ ~reset_req_r
      BY DEF FetchShape, NothingAsked
    <3>2. ifu_pc_r = pc_r /\ ~dly_flush_r
      BY <2>1, <2>3, <3>1 DEF PcIsDue
    <3>3. QED BY <2>1, <2>3, <3>1, <3>2 DEF FetchIsDue, Overtaken, Due
  <2>4. QED BY <2>2, <2>3
<1>2. QED BY <1>1, FetchHoldsTogether, FetchesInOrder, PTL
=============================================================================
