-------------------------------- MODULE Exu --------------------------------
(***************************************************************************)
(* The execution stage of the core, one step per clock edge: dispatch, the *)
(* ALU handshakes, the AGU with its AMO sequence, the one outstanding LSU  *)
(* access, the co-processor interface, the two write-backs and the commit  *)
(* stage with traps and WFI.  The fetch unit presents any instruction, the *)
(* memory answers when it likes, an interrupt comes at any time.           *)
(*                                                                         *)
(* Operands and results are abstract: an instruction has at most one       *)
(* source, and the result it will write is chosen when it leaves dispatch. *)
(***************************************************************************)
EXTENDS Oitf, Sequences

CONSTANTS Program,             \* the instructions that may come: [op, rs, rd]
          NoInstr, NoAccess, NiceAccess,
          Values, NoValue,
          MoreAccesses         \* bound: accesses of the co-processor after its first

Ops == {"alu", "csr", "fencei", "bjp", "mret", "wfi", "excp",
        "load", "store", "unalgn", "amo", "nice", "nicemem"}
ASSUME ProgramAssumption ==
  /\ MoreAccesses \in Nat
  /\ NoInstr \notin Program /\ Values # {}
  /\ \A i \in Program : /\ i.op \in Ops /\ i.rs \in Destinations /\ i.rd \in Destinations
                        /\ i.op = "store" => i.rd = NoRegister    \* the decoder's rdwen

VARIABLES ir, pc_vld,          \* the instruction register, and its PC is known
          mem_rdy,             \* the memory takes a command in this cycle
          regs,                \* the register file
          lsu, rsp_vld,        \* the outstanding access; its response is there
          itag_fifo,           \* tags of the co-processor's instructions
          nice_busy, nice_left, nice_rsp, \* the co-processor: FSM not idle; accesses
                               \* it still has to make; its result is offered
          icb_state, leftover_err, \* the AGU's AMO sequence; an access of it failed
          irq, mie, mpie,      \* an enabled source asks; mstatus
          halt_req, wfi_flag,  \* WFI: the halt requests; asleep
          operand              \* history: what the last instruction read
unitVars == <<mem_rdy, lsu, rsp_vld, itag_fifo, nice_busy, nice_left, nice_rsp>>
exuVars == <<oitfVars, ir, pc_vld, regs, unitVars, icb_state, leftover_err, irq, mie, mpie,
             halt_req, wfi_flag, operand>>

-----------------------------------------------------------------------------
(* e203_exu_longpwbck, e203_exu_wbck: the two units, at the head of the OITF *)

\* A slip: the tags are not compared.
AnyHead(tag) == ~oitf_empty

IsHead(tag) == tag = ret_ptr /\ ~oitf_empty

lsu_o_valid == lsu # NoAccess /\ rsp_vld /\ lsu # NiceAccess /\ ~lsu.back2agu
sel_lsu  == lsu_o_valid /\ IsHead(lsu.itag)
sel_nice == nice_rsp /\ itag_fifo # <<>> /\ IsHead(Head(itag_fifo).itag)

wbck_err == sel_lsu /\ lsu.err                      \* longp_excp_o_valid
oitf_ret_ena == sel_lsu \/ sel_nice
longp_wbck == oitf_ret_ena /\ rd[ret_ptr] # NoRegister /\ ~wbck_err
longp_data == IF sel_lsu THEN lsu.data ELSE Head(itag_fifo).data

-----------------------------------------------------------------------------
(* e203_exu_excp, e203_exu_branchslv: who may commit, who traps            *)

amo_wait == icb_state # "IDLE"
irq_req == irq /\ mie /\ ~amo_wait
irq_flush_req == irq_req /\ oitf_empty /\ pc_vld /\ ~wbck_err

\* alu_need_flush; leftover_err is the last AMO's until the next one reads.
NeedsFlush(i) == i.op \in {"excp", "unalgn"} \/ (i.op = "amo" /\ leftover_err)
IsBranch(i) == i.op \in {"bjp", "mret", "fencei"}   \* the mispredicted ones
IsAgu(i) == i.op \in {"load", "store", "unalgn", "amo"}
IsNice(i) == i.op \in {"nice", "nicemem"}
IsLongPipe(i) == i.op \in {"load", "store"} \/ IsNice(i)

\* A slip: an instruction may still commit while an interrupt asks.
CommitsOverIrq(i) == /\ ~wbck_err
                     /\ NeedsFlush(i) => oitf_empty
\* A slip: the unmasked interrupt blocks the commit, of an AMO too.
CommitsMasked(i) == /\ ~(irq /\ mie) /\ ~wbck_err
                    /\ NeedsFlush(i) => oitf_empty

CommitReady(i) == /\ ~irq_req /\ ~wbck_err
                  /\ NeedsFlush(i) => oitf_empty

\* The ALU's own write-back waits for the port while a long-pipe one uses it.
NeedsWriteBack(i) == i.rd # NoRegister /\ ~IsLongPipe(i) /\ ~NeedsFlush(i)
OutReady(i) == CommitReady(i) /\ (NeedsWriteBack(i) => ~longp_wbck)

-----------------------------------------------------------------------------
(* e203_exu_disp                                                           *)

\* A slip: only the destination is compared.
DependentRd(i) == Match(i.rd)

Dependent(i) == Match(i.rs) \/ Match(i.rd)          \* raw_dep, waw_dep

DispCondition(i) == /\ i.op \in {"csr", "fencei"} => oitf_empty
                    /\ ~halt_req                    \* wfi_halt_exu_req
                    /\ ~Dependent(i)
                    /\ IsAgu(i) => dis_ready
Dispatched == ir # NoInstr /\ DispCondition(ir)     \* disp_i_valid_pos

-----------------------------------------------------------------------------
(* e203_exu_alu_lsuagu, e203_lsu_ctrl, e203_exu_nice.  The co-processor is *)
(* one that takes an instruction and makes an access at a time.            *)

AccessDone == /\ lsu # NoAccess /\ rsp_vld
              /\ (lsu # NiceAccess /\ ~lsu.back2agu) => IsHead(lsu.itag)
LsuReady == mem_rdy /\ (lsu = NoAccess \/ AccessDone)

\* A slip: the co-processor does not keep the LSU between two accesses.
no_holdup == FALSE

nice_mem_holdup == nice_busy
NiceRequest == Dispatched /\ IsNice(ir) /\ OutReady(ir)
NiceTakes == /\ NiceRequest /\ ~nice_busy
             /\ ir.op = "nicemem" => LsuReady
NiceCmdValid == IF nice_busy THEN nice_left > 0 /\ lsu # NiceAccess
                ELSE NiceRequest /\ ir.op = "nicemem"

AguCmdValid == \/ Dispatched /\ ir.op \in {"load", "store"} /\ OutReady(ir)
               \/ Dispatched /\ ir.op = "amo" /\ icb_state = "IDLE" /\ OutReady(ir)
               \/ icb_state = "WAIT2ND"
AguCmdReady == LsuReady /\ ~NiceCmdValid /\ ~nice_mem_holdup
AguSends == ir # NoInstr /\ AguCmdValid /\ AguCmdReady

\* A slip: it ends without waiting for its write to be answered.
AmoEndsEarly == icb_state \in {"2ND", "WBCK"} /\ OutReady(ir)

AmoEnds == icb_state = "WBCK" /\ OutReady(ir)

\* The instruction leaves dispatch, is committed and, if it has one, gets its
\* OITF entry in one cycle (disp_i_ready, cmt_ena, disp_oitf_ena).
Issues ==
  /\ Dispatched
  /\ CASE ir.op \in {"load", "store"} -> AguSends
       [] ir.op = "unalgn"            -> OutReady(ir) /\ AguCmdReady
       [] ir.op = "amo"               -> AmoEnds
       [] IsNice(ir)                  -> NiceTakes
       [] OTHER                       -> OutReady(ir)

-----------------------------------------------------------------------------
(* One clock edge.                                                         *)

AluTrap == Issues /\ NeedsFlush(ir)
Trap == wbck_err \/ irq_flush_req \/ AluTrap
Flush == Trap \/ (Issues /\ IsBranch(ir))

Fetch ==
  IF Flush THEN ir' = NoInstr /\ pc_vld' = FALSE
  ELSE IF ir # NoInstr /\ ~Issues THEN UNCHANGED <<ir, pc_vld>>
  ELSE \E next \in Program \cup {NoInstr} :
         /\ ir' = next
         /\ pc_vld' \in IF next # NoInstr THEN {TRUE}
                        ELSE IF pc_vld /\ ir = NoInstr THEN {TRUE} ELSE BOOLEAN

Track ==
  OitfClock(Issues /\ IsLongPipe(ir), oitf_ret_ena, ir.rd)

\* The result is the ALU's: any value.
WriteBack ==
  /\ regs' \in IF longp_wbck THEN {[regs EXCEPT ![rd[ret_ptr]] = longp_data]}
              ELSE IF Issues /\ NeedsWriteBack(ir)
              THEN {[regs EXCEPT ![ir.rd] = v] : v \in Values}
              ELSE {regs}
  /\ operand' = IF ~Issues THEN operand
                ELSE IF ir.rs = NoRegister THEN NoValue ELSE regs[ir.rs]

\* What an access will bring back is settled when it is sent.
AccessType == [back2agu : BOOLEAN, itag : Tags, data : Values \cup {NoValue}, err : BOOLEAN]
ASSUME AccessAssumption == NoAccess # NiceAccess /\ {NoAccess, NiceAccess} \cap AccessType = {}

AguAccesses == [back2agu : {ir.op = "amo"}, itag : {alc_ptr}, err : BOOLEAN,
                data : IF ir.op = "load" THEN Values ELSE {NoValue}]

LsuAccess ==
  /\ lsu' \in IF AguSends THEN AguAccesses
             ELSE IF NiceCmdValid /\ LsuReady THEN {NiceAccess}
             ELSE IF AccessDone THEN {NoAccess} ELSE {lsu}
  /\ mem_rdy' \in BOOLEAN
  /\ rsp_vld' \in IF lsu' = NoAccess THEN {FALSE}
                 ELSE IF rsp_vld /\ ~AccessDone THEN {TRUE} ELSE BOOLEAN

CoProcessor ==
  LET kept == IF sel_nice THEN Tail(itag_fifo) ELSE itag_fifo IN
  /\ itag_fifo' \in IF NiceTakes
                   THEN {Append(kept, [itag |-> alc_ptr, data |-> v]) : v \in Values}
                   ELSE {kept}
  /\ nice_busy' = (NiceTakes \/ (nice_busy /\ ~sel_nice))
  /\ nice_left' \in IF NiceTakes THEN 0..MoreAccesses
                   ELSE IF nice_busy /\ NiceCmdValid /\ LsuReady THEN {nice_left - 1}
                   ELSE {nice_left}
  /\ nice_rsp' \in IF nice_rsp /\ ~sel_nice THEN {TRUE}
                  ELSE IF nice_busy' /\ nice_left' = 0 /\ lsu' # NiceAccess THEN BOOLEAN
                  ELSE {FALSE}

StartsAmo == AguSends /\ ir.op = "amo" /\ oitf_empty

AmoSequence ==
  LET got == AccessDone /\ lsu # NiceAccess /\ lsu.back2agu
  IN
  /\ icb_state' =
       IF Flush THEN "IDLE"
       ELSE CASE icb_state = "IDLE"    -> IF StartsAmo THEN "1ST" ELSE "IDLE"
              [] icb_state = "1ST"     -> IF got THEN "AMOALU" ELSE "1ST"
              [] icb_state = "AMOALU"  -> "AMORDY"
              [] icb_state = "AMORDY"  -> "WAIT2ND"
              [] icb_state = "WAIT2ND" -> IF AguCmdReady THEN "2ND" ELSE "WAIT2ND"
              [] icb_state = "2ND"     -> IF got THEN "WBCK" ELSE "2ND"
              [] icb_state = "WBCK"    -> IF AmoEnds THEN "IDLE" ELSE "WBCK"
  /\ leftover_err' = IF got /\ icb_state = "1ST" THEN lsu.err
                     ELSE IF got /\ icb_state = "2ND" THEN lsu.err \/ leftover_err
                     ELSE leftover_err

\* Software quiets the source: it writes mie or the device.
Quiets == Issues /\ ir.op \in {"csr", "store"}

Status ==
  /\ mie' \in IF Trap THEN {FALSE}
              ELSE IF ~Issues THEN {mie}
              ELSE CASE ir.op = "mret" -> {mpie}
                     [] ir.op = "csr"  -> BOOLEAN     \* it may write mstatus
                     [] OTHER         -> {mie}
  /\ mpie' \in IF Trap THEN {mie}
              ELSE IF ~Issues THEN {mpie}
              ELSE CASE ir.op = "mret" -> {TRUE}
                     [] ir.op = "csr"  -> BOOLEAN
                     [] OTHER         -> {mpie}
  /\ irq' \in IF irq /\ ~irq_flush_req /\ ~Quiets THEN {TRUE} ELSE BOOLEAN

\* In sleep and on the way to it any enabled source wakes, whatever mie.  The
\* fetch unit acknowledges the halt when it likes.
wfi_halt_ifu_req == halt_req /\ ~irq
Sleep ==
  /\ halt_req' = (~irq /\ (halt_req \/ (Issues /\ ir.op = "wfi")))
  /\ wfi_flag' \in IF irq THEN {FALSE}
                  ELSE IF wfi_flag THEN {TRUE}
                  ELSE IF halt_req /\ oitf_empty /\ ~amo_wait THEN BOOLEAN ELSE {FALSE}

ExuNext ==
  /\ Fetch
  /\ Track
  /\ WriteBack
  /\ LsuAccess
  /\ CoProcessor
  /\ AmoSequence
  /\ Status
  /\ Sleep

ExuInit == /\ OitfInit
           /\ ir = NoInstr /\ pc_vld = FALSE
           /\ regs \in [Registers -> Values] /\ operand = NoValue
           /\ mem_rdy = FALSE /\ lsu = NoAccess /\ rsp_vld = FALSE
           /\ itag_fifo = <<>> /\ nice_busy = FALSE /\ nice_left = 0 /\ nice_rsp = FALSE
           /\ icb_state = "IDLE" /\ leftover_err = FALSE
           /\ irq = FALSE /\ mie = FALSE /\ mpie = FALSE
           /\ halt_req = FALSE /\ wfi_flag = FALSE

ExuSpec == ExuInit /\ [][ExuNext]_exuVars

AsksMemory == NiceCmdValid \/ (ir # NoInstr /\ AguCmdValid) \/ (Dispatched /\ ir.op = "unalgn")

\* The clock runs; the memory takes a command that waits for it, and answers
\* it; the co-processor that has made its accesses offers its result; the fetch
\* unit knows the next PC unless it is halted.
ExuFairness == /\ WF_exuVars(ExuNext)
               /\ []<>(mem_rdy \/ ~AsksMemory)
               /\ []<>(rsp_vld \/ lsu = NoAccess)
               /\ []<>(nice_rsp \/ ~nice_busy \/ nice_left > 0 \/ lsu = NiceAccess)
               /\ []<>(pc_vld \/ halt_req)

ExuFairSpec == ExuSpec /\ ExuFairness

-----------------------------------------------------------------------------
(* Correctness.                                                            *)

ItagFifoSlots == 4

ExuTypeOk ==
  /\ OitfTypeOk
  /\ ir \in Program \cup {NoInstr} /\ pc_vld \in BOOLEAN
  /\ regs \in [Registers -> Values] /\ operand \in Values \cup {NoValue}
  /\ lsu \in AccessType \cup {NoAccess, NiceAccess} /\ rsp_vld \in BOOLEAN
  /\ itag_fifo \in Seq([itag : Tags, data : Values]) /\ Len(itag_fifo) <= ItagFifoSlots
  /\ nice_busy \in BOOLEAN /\ nice_left \in 0..MoreAccesses /\ nice_rsp \in BOOLEAN
  /\ icb_state \in {"IDLE", "1ST", "AMOALU", "AMORDY", "WAIT2ND", "2ND", "WBCK"}
  /\ {mem_rdy, leftover_err, irq, mie, mpie, halt_req, wfi_flag} \subseteq BOOLEAN

LsuTags  == IF lsu # NoAccess /\ lsu # NiceAccess /\ ~lsu.back2agu THEN {lsu.itag} ELSE {}
NiceTags == {itag_fifo[k].itag : k \in DOMAIN itag_fifo}

\* Each entry of the OITF is the tag of exactly one instruction under way in
\* the LSU or the co-processor, although a co-processor instruction enters
\* without asking whether the OITF has room: the write-back is decided by tags
\* alone, so an entry overwritten, freed early or owned twice would write some
\* other instruction's register.
EveryEntryOwned ==
  /\ {t \in Tags : vld[t]} = LsuTags \cup NiceTags
  /\ LsuTags \cap NiceTags = {}
  /\ \A j, k \in DOMAIN itag_fifo : itag_fifo[j].itag = itag_fifo[k].itag => j = k
  /\ OitfAgrees

\* From the read of an AMO to its last step the instruction has the memory to
\* itself: nothing outstanding, no other access, and no trap resets the
\* sequence with its second access under way (interrupts wait for amo_wait).
AmoAlone ==
  icb_state # "IDLE" =>
    /\ oitf_empty /\ ~nice_busy
    /\ ir # NoInstr /\ ir.op = "amo"
    /\ lsu # NoAccess <=> icb_state \in {"1ST", "2ND"}
    /\ lsu # NoAccess => lsu # NiceAccess /\ lsu.back2agu

\* In the cycle of a trap that is not the instruction's own (an interrupt, an
\* access fault of an older load) nothing of that instruction happens: no
\* register is written, no access sent, no entry allocated, no co-processor
\* started.  An interrupt's handler returns to it and runs it in full.  A load's
\* fault has the load's own PC, and what has left dispatch since stays done: in
\* that sense e203_exu_excp calls it imprecise.
TrapsArePrecise ==
  [][wbck_err \/ irq_flush_req =>
       /\ regs' = regs /\ alc_ptr' = alc_ptr
       /\ lsu' # lsu => lsu' \in {NoAccess, NiceAccess}
       /\ nice_busy' => nice_busy
       /\ icb_state = "IDLE" /\ icb_state' = "IDLE"
       /\ ir' = NoInstr]_exuVars

\* The assertion in e203_exu_commit: the fetch unit is never asked to halt and
\* to flush in one cycle.  It fails: WFI commits with a load still outstanding,
\* and the load's bus error flushes the pipeline.
CHECK_1HOT_FLUSH_HALT == ~(wfi_halt_ifu_req /\ Flush)

\* The comment in e203_exu_alu_lsuagu: once the command is taken the AMO is in
\* state 1ST, so an access of an AMO is always one its sequence waits for.  It
\* fails: with an older access still in the OITF the read is sent, and the
\* sequence does not start; it reads again later.
AmoAccessExpected ==
  lsu \notin {NoAccess, NiceAccess} /\ lsu.back2agu => icb_state \in {"1ST", "2ND"}

\* Whatever leaves the ALU for the LSU or the co-processor writes back: no
\* access waits at the memory for its turn in the OITF while the instruction
\* before it waits for the memory.
HeadRetires == \A t \in Tags : (~oitf_empty /\ ret_ptr = t) ~> (ret_ptr # t)

\* An enabled interrupt is taken, although it must wait for outstanding
\* instructions, for a PC and for an AMO that itself waits to commit.
InterruptTaken == (irq /\ mie) ~> ~mie

\* The instruction in the instruction register leaves it, unless the core goes
\* to sleep: no wait of dispatch, AGU, commit and write-back closes a circle.
ProgramRuns == <>[](ir # NoInstr /\ ~halt_req) => []<>(Issues \/ Flush)

\* The result an outstanding instruction will write, by tag.
Result(t) == IF t \in LsuTags THEN lsu.data
             ELSE itag_fifo[CHOOSE k \in DOMAIN itag_fifo : itag_fifo[k].itag = t].data
WillWrite(t, r) == vld[t] /\ rd[t] = r /\ ~(t \in LsuTags /\ lsu.err)

\* The registers once the instructions under way have written: at most one of
\* them writes a given register (waw_dep).
Settled == [r \in Registers |-> IF \E t \in Tags : WillWrite(t, r)
                                THEN Result(CHOOSE t \in Tags : WillWrite(t, r))
                                ELSE regs[r]]

\* The pipeline with its two write-backs runs the program in order.
Program_ == INSTANCE InOrder WITH regs <- Settled
RunsInOrder == Program_!Spec
=============================================================================
