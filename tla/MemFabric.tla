----------------------------- MODULE MemFabric -----------------------------
(***************************************************************************)
(* The memory side of e203_subsys_mems.v as two masters see it: the        *)
(* priority arbiter (sirv_gnrl_icb_arbt), the two-deep command and         *)
(* response FIFOs and the one-outstanding splitter of sirv_icb1to8_bus,    *)
(* and one controlled SRAM (sirv_sram_icb_ctrl, sirv_1cyc_sram_ctrl,       *)
(* sirv_sim_ram) per region the accelerator uses.  The other slaves of the *)
(* bus (boot ROM, QSPI flash, system memory) are the region "slow": they   *)
(* take one command and answer in some later cycle, or, as the boot ROM    *)
(* and the bus's default slave do, in the cycle that brings the command.   *)
(*                                                                         *)
(* A FIFO is the queue BoundedQueue, which module GnrlFifo shows           *)
(* sirv_gnrl_fifo to implement.  One step is one clock in which every      *)
(* stage moves at once, on the values before the edge.                     *)
(***************************************************************************)
EXTENDS Integers, Sequences

CONSTANTS Rams,        \* the regions with an SRAM
          RamWords,    \* words of an SRAM that the model keeps
          ArbOuts,     \* FIFO_OUTS_NUM of the arbiter, 8
          FifoDP,      \* ICB_FIFO_DP of the bus, 2
          NoCmd, NoTarget, NoRsp

ASSUME FabricAssumption == /\ RamWords \in Nat \ {0}
                           /\ ArbOuts \in Nat \ {0} /\ FifoDP \in Nat \ {0}
                           /\ "slow" \notin Rams

VARIABLES rspid_fifo,  \* arbiter: masters of the outstanding commands
          cmd_fifo,    \* bus buffer: commands on their way to the splitter
          splt_id,     \* splitter: the target of the outstanding command
          byp_buf,     \* per SRAM: the bypass buffer in front of it
          e1_stage,    \* per SRAM: is a response waiting?
          addr_r,      \* per SRAM: the word of the last read
          mem_r,       \* per SRAM: its contents
          slow_busy,   \* is a slow slave working?
          rsp_fifo     \* bus buffer: responses on their way to the arbiter

fabricVars == <<rspid_fifo, cmd_fifo, splt_id, byp_buf, e1_stage, addr_r, mem_r,
                slow_busy, rsp_fifo>>

Masters == {"cpu", "cnn"}        \* port 0, port 1
Targets == Rams \cup {"slow"}

\* The 12-bit controllers drop the two low address bits.
WordOf(addr) == addr.off \div 4

-----------------------------------------------------------------------------
(* The arbiter: port 0 has priority, a command needs room in the response   *)
(* order FIFO and in the command FIFO of the bus.                           *)

\* A slip: the order FIFO records the other priority.
GrantedReversed(cpu, cnn)  == IF cnn # NoCmd THEN "cnn" ELSE "cpu"

Granted(cpu, cnn) == IF cpu # NoCmd THEN "cpu" ELSE "cnn"
Offered(cpu, cnn) == IF cpu # NoCmd THEN cpu ELSE cnn
ArbReady          == Len(rspid_fifo) < ArbOuts /\ Len(cmd_fifo) < FifoDP
CpuReady          == ArbReady
CnnReady(cpu)     == ArbReady /\ cpu = NoCmd
Accepted(cpu, cnn) == ArbReady /\ Offered(cpu, cnn) # NoCmd

\* The response at the head of the bus goes to the master at the head of the
\* order FIFO; both masters keep rsp_ready high.
\* Slips: an order FIFO of one entry counts as empty; responses are broadcast.
DeliversOfTwo == rsp_fifo # <<>> /\ Len(rspid_fifo) > 1
Broadcast(m)  == IF rsp_fifo # <<>> /\ rspid_fifo # <<>> THEN Head(rsp_fifo) ELSE NoRsp

Delivers == rsp_fifo # <<>> /\ rspid_fifo # <<>>
RspTo(m) == IF Delivers /\ Head(rspid_fifo) = m THEN Head(rsp_fifo) ELSE NoRsp

-----------------------------------------------------------------------------
(* The splitter: one outstanding command over all targets, its ready cut.   *)

TargetReady(t) == IF t \in Rams THEN byp_buf[t] = <<>> ELSE ~slow_busy
\* A slip: the splitter does not wait for the outstanding command.
IssuesAnyTime == cmd_fifo # <<>> /\ TargetReady(Head(cmd_fifo).addr.region)

Issues    == /\ cmd_fifo # <<>>
             /\ splt_id = NoTarget
             /\ TargetReady(Head(cmd_fifo).addr.region)
IssuedTo(t) == Issues /\ Head(cmd_fifo).addr.region = t

\* slow is the environment's choice: a slow slave answers in this cycle, which
\* may be the one that brings it the command (ALLOW_0CYCL_RSP).
Answers(t, slow) == IF t \in Rams THEN e1_stage[t] ELSE slow_busy /\ slow
AtOnce(slow)     == IssuedTo("slow") /\ slow
Returns(slow)    == /\ \/ splt_id # NoTarget /\ Answers(splt_id, slow)
                       \/ AtOnce(slow)
                    /\ Len(rsp_fifo) < FifoDP
ReturnedBy(t, slow) == Returns(slow) /\ (splt_id = t \/ IssuedTo(t))
ReadData(t) == IF t \in Rams THEN mem_r[t][addr_r[t]] ELSE <<"slow", 0>>

-----------------------------------------------------------------------------
(* An SRAM controller: the bypass buffer, then the one-cycle stage.         *)

StageFree(t, slow) == ~e1_stage[t] \/ ReturnedBy(t, slow)
Waiting(t)         == byp_buf[t] \o (IF IssuedTo(t) THEN <<Head(cmd_fifo)>> ELSE <<>>)
Accesses(t, slow)  == Waiting(t) # <<>> /\ StageFree(t, slow)

RamWrites(t, slow) == Accesses(t, slow) /\ ~Head(Waiting(t)).read
RamReads(t, slow)  == Accesses(t, slow) /\ Head(Waiting(t)).read

Sram(slow) ==
  /\ byp_buf' = [t \in Rams |-> IF Accesses(t, slow) THEN Tail(Waiting(t)) ELSE Waiting(t)]
  /\ e1_stage' = [t \in Rams |-> Accesses(t, slow) \/ (e1_stage[t] /\ ~ReturnedBy(t, slow))]
  /\ addr_r' = [t \in Rams |-> IF RamReads(t, slow) THEN WordOf(Head(Waiting(t)).addr)
                                                    ELSE addr_r[t]]
  /\ mem_r' = [t \in Rams |-> [w \in 0..(RamWords - 1) |->
       IF RamWrites(t, slow) /\ WordOf(Head(Waiting(t)).addr) = w
       THEN Head(Waiting(t)).wdata ELSE mem_r[t][w]]]

Slow(slow) == slow_busy' = ((IssuedTo("slow") \/ slow_busy) /\ ~ReturnedBy("slow", slow))

-----------------------------------------------------------------------------
FabricInit(contents) ==
  /\ rspid_fifo = <<>> /\ cmd_fifo = <<>> /\ rsp_fifo = <<>>
  /\ splt_id = NoTarget
  /\ byp_buf = [t \in Rams |-> <<>>] /\ e1_stage = [t \in Rams |-> FALSE]
  /\ addr_r = [t \in Rams |-> 0]
  /\ mem_r = contents
  /\ slow_busy = FALSE

\* What a FIFO holds after a cycle that may pop it and may push v.
Moved(fifo, pop, push, v) == (IF pop THEN Tail(fifo) ELSE fifo)
                             \o (IF push THEN <<v>> ELSE <<>>)

FabricClock(cpu, cnn, slow) ==
  /\ rspid_fifo' = Moved(rspid_fifo, Delivers, Accepted(cpu, cnn), Granted(cpu, cnn))
  /\ cmd_fifo' = Moved(cmd_fifo, Issues, Accepted(cpu, cnn), Offered(cpu, cnn))
  /\ rsp_fifo' = Moved(rsp_fifo, Delivers, Returns(slow), ReadData(splt_id))
  /\ splt_id' = CASE Returns(slow) -> NoTarget
                  [] Issues /\ ~Returns(slow) -> Head(cmd_fifo).addr.region
                  [] OTHER -> splt_id
  /\ Sram(slow)
  /\ Slow(slow)

-----------------------------------------------------------------------------
FabricTypeOk ==
  /\ rspid_fifo \in Seq(Masters) /\ Len(rspid_fifo) <= ArbOuts
  /\ Len(cmd_fifo) <= FifoDP /\ Len(rsp_fifo) <= FifoDP
  /\ splt_id \in Targets \cup {NoTarget}
  /\ \A t \in Rams : Len(byp_buf[t]) <= 1
  /\ e1_stage \in [Rams -> BOOLEAN]
  /\ addr_r \in [Rams -> 0..(RamWords - 1)]
  /\ slow_busy \in BOOLEAN

\* What is in flight, in order from the masters to the memories and back.
InFlight == Len(rsp_fifo) + Len(cmd_fifo) + (IF splt_id = NoTarget THEN 0 ELSE 1)

\* Every accepted command has exactly one place in the pipeline and exactly
\* one entry in the arbiter's order FIFO, so a response can never reach the
\* master that did not ask for it; the arbiter, the bus buffer and the
\* splitter of sirv_icb1to8_bus keep these three records separately.
OneOwnerPerCommand == Len(rspid_fifo) = InFlight
=============================================================================
