----------------------------- MODULE CnnSystem -----------------------------
(***************************************************************************)
(* The accelerator in the SoC: the core's bus master port and the CPU's    *)
(* memory port meet in the arbiter of e203_subsys_mems.v; the software     *)
(* enables the core through CNNCTR and disables it once it has seen        *)
(* CNNSTATUS.  One step is one clock of the whole system.                  *)
(***************************************************************************)
EXTENDS CnnCore, MemFabric

CONSTANTS CpuCmds,    \* the commands the CPU may send to the memory port
          MaxJobs     \* bound: how often the software enables the core

ASSUME SystemAssumption == /\ NoRsp = NoWord
                           /\ MaxJobs \in Nat
                           /\ Rams = Regions

\* The memories hold more than a matrix; the bus buffer is shallow against a
\* matrix, and the arbiter can own more commands than the bus holds.
ASSUME DepthAssumption == /\ Words < RamWords
                          /\ 2 * FifoDP <= Words
                          /\ FifoDP + 1 < ArbOuts

\* While the accelerator works the software leaves its memories as they are.
ASSUME CpuAssumption ==
  \A cmd \in CpuCmds : /\ cmd.addr.region \in {"weight", "image", "slow"}
                       /\ WordOf(cmd.addr) \in 0..(RamWords - 1)
                       /\ cmd.read \/ cmd.addr.region = "slow"

\* What the memories return, and the tokens that are none of it.
ASSUME WordAssumption ==
  /\ <<"slow", 0>> \in Word
  /\ \A w \in 0..(RamWords - 1) : {<<"weight", w>>, <<"image", w>>} \subseteq Word \ {Zero}
  /\ NoRsp \notin Seq(Word \X Word) /\ NoTarget \notin Targets /\ NoCmd \notin CpuCmds
  /\ NoCmd \notin [read : BOOLEAN, addr : [region : Regions, off : Nat],
                   wdata : Seq(Word \X Word)]

VARIABLES enable,      \* CNNCTR[0]
          cpu_cmd,     \* what the CPU holds on its memory port
          cpu_wait,    \* the command the BIU waits for the response of
          jobs,        \* how often enable has risen
          delivered,   \* history: values the bus took from the core in this job
          reads        \* history: read commands of this job the bus took

swVars  == <<enable, jobs>>
cpuVars == <<cpu_cmd, cpu_wait>>
vars    == <<coreVars, fabricVars, swVars, cpuVars, delivered, reads>>

\* The contents the software (or the testbench) put into the SRAMs.
Contents == [t \in Rams |-> [w \in 0..(RamWords - 1) |->
              IF t = "out" THEN <<>> ELSE <<t, w>>]]

CnnCmd == IF cnn_icb_cmd_valid
          THEN [read |-> cnn_icb_cmd_read, addr |-> cnn_icb_cmd_addr,
                wdata |-> cnn_icb_cmd_wdata]
          ELSE NoCmd

ready == CnnReady(cpu_cmd)

-----------------------------------------------------------------------------
\* The CPU: the BIU has one command outstanding, holds it until it is taken
\* and always has room for the response.
Cpu == /\ \/ cpu_cmd # NoCmd /\ ~CpuReady /\ UNCHANGED cpu_cmd
          \/ cpu_cmd # NoCmd /\ CpuReady /\ cpu_cmd' = NoCmd
          \/ cpu_cmd = NoCmd /\ cpu_wait # NoCmd /\ UNCHANGED cpu_cmd
          \/ cpu_cmd = NoCmd /\ cpu_wait = NoCmd /\ cpu_cmd' \in CpuCmds \cup {NoCmd}
       /\ cpu_wait' = CASE cpu_cmd # NoCmd -> cpu_cmd
                        [] cpu_cmd = NoCmd /\ RspTo("cpu") # NoRsp -> NoCmd
                        [] OTHER -> cpu_wait

\* The software: CNNCTR is set in order to start a job and cleared when
\* CNNSTATUS reads 1.
Software == \/ UNCHANGED swVars
            \/ ~enable /\ jobs < MaxJobs /\ enable' = TRUE /\ jobs' = jobs + 1
            \/ enable /\ done /\ enable' = FALSE /\ UNCHANGED jobs

History ==
  /\ delivered' = IF current_state = "IDLE" /\ enable THEN <<>>
                  ELSE IF WrHsk(ready) THEN Append(delivered, cnn_icb_cmd_wdata)
                  ELSE delivered
  /\ reads' = IF current_state = "IDLE" /\ enable THEN [t \in {"weight", "image"} |-> 0]
              ELSE IF RdHsk(ready)
                   THEN [reads EXCEPT ![cnn_icb_cmd_addr.region] = @ + 1]
                   ELSE reads

Init == /\ CoreInit
        /\ FabricInit(Contents)
        /\ enable = FALSE /\ jobs = 0
        /\ cpu_cmd = NoCmd /\ cpu_wait = NoCmd
        /\ delivered = <<>> /\ reads = [t \in {"weight", "image"} |-> 0]

Clock(slow) == /\ CoreClock(enable, ready, RspTo("cnn"))
               /\ FabricClock(cpu_cmd, CnnCmd, slow)
               /\ Cpu
               /\ Software
               /\ History

Next == \E slow \in BOOLEAN : Clock(slow)

Spec == Init /\ [][Next]_vars

\* The clock never stops, and a slow slave answers in the end; neither the
\* CPU nor the software is made to do anything.
Liveness == WF_<<coreVars, fabricVars>>(Clock(TRUE))
FairSpec == Spec /\ Liveness

-----------------------------------------------------------------------------
ExpectedResult == Product(Contents["image"], Contents["weight"])
Expected == [k \in 1..Words |-> ExpectedResult[(k - 1) \div Side][(k - 1) % Side]]

Phase == CASE current_state = "IDLE" -> "idle"
           [] current_state = "DONE" -> "finished"
           [] OTHER                  -> "busy"

Accel == INSTANCE MatMulAccel WITH phase <- Phase

-----------------------------------------------------------------------------
\* A job delivers the matrix product: every value the bus takes is the
\* finished result of its place, in order, although the store starts while
\* the array still computes and each write waits for the arbiter; and DONE
\* comes after the last of them.
ImplementsAccel == Accel!Spec

\* Once the accelerator computes, its buffers hold the words of the SRAMs,
\* each at its own place: responses are counted, not tagged, so a missing or
\* surplus read would shift them.
BuffersHoldMemory ==
  current_state \in {"COMPUTE", "STORE"} =>
    \A k \in 0..LastWord : /\ cur_weight[k] = Contents["weight"][k]
                           /\ image_data[k] = Contents["image"][k]

\* The core never sends more reads than it has buffer words, although
\* send_done is registered and so lags the last handshake by a cycle.
NoSurplusRead == \A t \in {"weight", "image"} : reads[t] <= Words

\* A response reaches the master whose command it answers: the CPU never
\* receives a word the accelerator asked for, however the two interleave.
CpuGetsItsAnswer ==
  RspTo("cpu") # NoRsp =>
    /\ cpu_wait # NoCmd
    /\ RspTo("cpu") = IF cpu_wait.addr.region = "slow" THEN <<"slow", 0>>
                      ELSE Contents[cpu_wait.addr.region][WordOf(cpu_wait.addr)]

\* The accelerator cannot starve the CPU: a CPU command is always answered.
CpuServed == cpu_cmd # NoCmd ~> (cpu_cmd = NoCmd /\ cpu_wait = NoCmd)

\* What the software waits for happens: an enabled core reports done.
JobCompletes == enable ~> done

\* The first job does when the CPU stays off the bus: the core loses neither
\* a response nor a write of its own.
FirstJobCompletes == [](cpu_cmd = NoCmd /\ jobs <= 1) => JobCompletes

\* When the job is done the output SRAM holds each of its results somewhere.
OutRamHoldsResults ==
  current_state = "DONE" => \A k \in 1..Words : \E w \in 0..(RamWords - 1) :
                               mem_r["out"][w] = Expected[k]
=============================================================================
