------------------------------ MODULE FetchMem ------------------------------
(***************************************************************************)
(* What the instruction fetch unit reads from: the ITCM behind its          *)
(* controller (e203_itcm_ctrl over sirv_sram_icb_ctrl), which it shares     *)
(* with the load-store unit, and the system memory behind the BIU.          *)
(* Addresses count half-words; a lane is what one access reads: four        *)
(* half-words of the ITCM, two of the memory.  A data word is represented   *)
(* by its address.                                                          *)
(***************************************************************************)
EXTENDS Integers

CONSTANTS ITCM_SIZE,   \* half-words of ITCM: 0 .. ITCM_SIZE-1
          PC_SIZE      \* half-words in all; program counters wrap here

ASSUME FetchMemAssumption ==
  /\ ITCM_SIZE \in Nat /\ ITCM_SIZE % 4 = 0
  /\ PC_SIZE \in Nat \ {0} /\ PC_SIZE % 4 = 0 /\ ITCM_SIZE <= PC_SIZE

\* Who owns an access, where it is not an address.
Nobody == -1
Lsu    == -2
Ifu    == -3

VARIABLES cmd_buf,        \* the bypass buffer before the SRAM: an address, Lsu or Nobody
          itcm_stage,       \* whose answer stands at the SRAM's output
          ram_dout,       \* the lane the SRAM last read, Lsu when not for the IFU
          ifu_holdup_r,   \* claimed: ram_dout is still what the IFU read last
          bus_lane,       \* the lane asked of the system memory, or Nobody
          bus_rsp         \* the memory offers it

memVars == <<cmd_buf, itcm_stage, ram_dout, ifu_holdup_r, bus_lane, bus_rsp>>

Address  == 0..(PC_SIZE - 1)
InItcm(a) == a < ITCM_SIZE
\* A slip: the program counter does not wrap.
PlusNoWrap(a, n) == a + n
Plus(a, n) == (a + n) % PC_SIZE
LaneWidth(a) == IF InItcm(a) THEN 4 ELSE 2
Lane(a)  == a - (a % LaneWidth(a))
\* Half-word i of a lane; what another master left there is no address.
Half(lane, i) == IF lane \in Address THEN lane + i ELSE Lsu

MemTypeOk == /\ cmd_buf \in Address \cup {Lsu, Nobody}
             /\ itcm_stage \in {Lsu, Ifu, Nobody}
             /\ ram_dout \in Address \cup {Lsu}
             /\ ifu_holdup_r \in BOOLEAN
             /\ bus_lane \in Address \cup {Nobody}
             /\ bus_rsp \in BOOLEAN

MemInit == /\ cmd_buf = Nobody /\ itcm_stage = Nobody /\ ram_dout = Lsu
           /\ ifu_holdup_r = FALSE
           /\ bus_lane = Nobody /\ bus_rsp = FALSE

-----------------------------------------------------------------------------
\* The load-store unit has one access under way: it asks again at the
\* earliest when its answer is taken.
LsuMayAsk(lsu_rdy) == /\ cmd_buf # Lsu
                      /\ itcm_stage = Lsu => lsu_rdy

\* The load-store unit goes before the fetch unit.
ItcmReady(lsu_cmd) == ~lsu_cmd /\ cmd_buf = Nobody
BusReady(mem_rdy, ifu_rdy) ==
  mem_rdy /\ (bus_lane = Nobody \/ (bus_rsp /\ ifu_rdy))

\* A slip: the flag is not cleared by the load-store unit's accesses.
HoldsStill(cs, lsu_cmd, ask) == IF cs THEN ifu_holdup_r \/ ask # Nobody
                                      ELSE ifu_holdup_r
\* ifu_holdup_set and _clr look at who is selected in this cycle.
HoldUp(cs, lsu_cmd, ask) == IF cs THEN ~lsu_cmd /\ ask # Nobody
                                  ELSE ifu_holdup_r

\* One cycle of the ITCM: ask is the fetch unit's address or Nobody.
ItcmCycle(ask, ifu_rdy, lsu_cmd, lsu_rdy) ==
  LET rsp_rdy == IF itcm_stage = Lsu THEN lsu_rdy ELSE ifu_rdy
      uop_rdy == itcm_stage = Nobody \/ rsp_rdy
      sel == IF lsu_cmd THEN Lsu ELSE ask
      uop == IF cmd_buf # Nobody THEN cmd_buf ELSE sel
      ram_cs == uop # Nobody /\ uop_rdy
  IN /\ cmd_buf' = IF uop_rdy THEN Nobody ELSE uop
     /\ itcm_stage' = IF ~uop_rdy THEN itcm_stage
                    ELSE IF uop \in Address THEN Ifu ELSE uop
     /\ ram_dout' = IF ~ram_cs THEN ram_dout
                    ELSE IF uop = Lsu THEN Lsu ELSE Lane(uop)
     /\ ifu_holdup_r' = HoldUp(ram_cs, lsu_cmd, ask)

\* One cycle of the memory: an answer, once offered, stays until taken.
BusCycle(ask, ifu_rdy, answers) ==
  LET taken == bus_rsp /\ ifu_rdy
      still == IF taken THEN Nobody ELSE bus_lane
  IN /\ bus_lane' = IF ask # Nobody THEN Lane(ask) ELSE still
     /\ bus_rsp' = \/ bus_rsp /\ ~taken
                   \/ bus_lane' # Nobody /\ answers
=============================================================================
