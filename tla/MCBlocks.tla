------------------------------ MODULE MCBlocks ------------------------------
(***************************************************************************)
(* The building blocks of the SoC, one per behaviour: unit says which one   *)
(* runs; the others rest in one initial state.                              *)
(***************************************************************************)
EXTENDS GnrlFifo, FabricOrder, MulDiv, CdcCrossing, NiceCore, MCFetch

CONSTANTS dat1, dat2       \* payloads of the FIFO and of the crossing

VARIABLE unit
blockVars == <<unit, fifoVars, vars, mdVars, cdcVars, niceVars, fetchVars>>

-----------------------------------------------------------------------------
(* The memory fabric: one SRAM of two words and the slow slaves. *)
Cell(off) == [region |-> "weight", off |-> off]
Data(n)        == <<"weight", n>>
Read(addr)     == [read |-> TRUE, addr |-> addr, wdata |-> Data(0)]
Write(addr, v) == [read |-> FALSE, addr |-> addr, wdata |-> v]

McRams == {"weight"}
McCmds == {Read(Cell(0)), Read(Cell(4)), Write(Cell(0), Data(1)),
           Read([region |-> "slow", off |-> 0])}
McContents == [t \in McRams |-> [w \in 0..(RamWords - 1) |-> Data(0)]]

(* The demo co-processor: memory of four words. *)
McMemAtStart == [w \in 0..3 |-> w + 1]

-----------------------------------------------------------------------------
BlocksInit ==
  /\ unit \in {"fifo", "fabric", "muldiv", "cdc", "nice", "fetch"}
  /\ FifoInit /\ Init /\ MulDivInit /\ CdcInit /\ NiceInit /\ FetchInit
  /\ unit # "fifo" => fifo_rf_r = [n \in 0..(DP - 1) |-> dat1]
  /\ unit # "muldiv" => rs1 = 0 /\ rs2 = 0
  /\ unit # "cdc" => dat_r = dat1 /\ buf_dat_r = dat1

BlocksNext ==
  /\ UNCHANGED unit
  /\ \/ unit = "fifo" /\ UNCHANGED <<vars, mdVars, cdcVars, niceVars, fetchVars>> /\ FifoNext
     \/ unit = "fabric" /\ UNCHANGED <<fifoVars, mdVars, cdcVars, niceVars, fetchVars>> /\ Next
     \/ unit = "muldiv" /\ UNCHANGED <<fifoVars, vars, cdcVars, niceVars, fetchVars>> /\ MulDivNext
     \/ unit = "cdc" /\ UNCHANGED <<fifoVars, vars, mdVars, niceVars, fetchVars>> /\ CdcNext
     \/ unit = "nice" /\ UNCHANGED <<fifoVars, vars, mdVars, cdcVars, fetchVars>> /\ NiceNext
     \/ unit = "fetch" /\ UNCHANGED <<fifoVars, vars, mdVars, cdcVars, niceVars>> /\ FetchNext

\* The fairness of the block that runs: FairSpec, CdcFairness, FetchFairness.
BlocksFairness ==
  /\ WF_fabricVars(unit = "fabric" /\ Clock(TRUE))
  /\ WF_txVars(unit = "cdc" /\ \E dat \in Payloads : TxEdge(FALSE, dat))
  /\ WF_rxVars(unit = "cdc" /\ RxEdge(TRUE))
  /\ WF_quiet_tick(unit = "fetch" /\ QuietCycle)
  /\ SF_quiet_tick(unit = "fetch" /\ QuietCycle /\ rs1xn_rdrf_r)

BlocksSpec == BlocksInit /\ [][BlocksNext]_blockVars /\ BlocksFairness

-----------------------------------------------------------------------------
\* Every register keeps its width and no buffer overflows, in every block.
BlocksTypeOk == /\ FifoTypeOk /\ FabricTypeOk /\ MulDivTypeOk /\ CdcTypeOk
                /\ NiceTypeOk /\ FetchTypeOk

\* ReadyAgain and InstructionArrives, for the behaviours of their block:
\* cdc_tx gets ready again and again, and ifetch gets an instruction.
CrossingReadyAgain == unit = "cdc" => ReadyAgain
FetchArrives == unit = "fetch" => InstructionArrives
=============================================================================
