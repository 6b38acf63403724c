# Formal models of the HBird E203 SoC with a systolic-array accelerator

The repository holds a RISC-V SoC (the two-stage E203 core and its peripherals,
`src/e203_hbirdv2-master/rtl/e203`) to which a 4 x 4 matrix-multiplication
accelerator (`rtl/cnn`) and an adder (`rtl/adder`) have been added, together
with test benches, software (the RISC-V tools and benchmarks among it) and a
high-level-synthesis experiment. This directory holds TLA+ models of the parts whose correctness depends on the order
of events, and of the multi-threaded benchmarks in the same repository, the TLC
configurations that check them and TLAPS proofs about them.

Paths below are relative to `src/e203_hbirdv2-master`. One step of a hardware model
is one rising edge of the clock (of one clock or of both, in the clock crossing): the unprimed variables are the registers and
inputs before the edge, the primed ones after it, and a combinational signal is
an operator.

## 1. Inventory

### 1.1 The accelerator

| Part | State | Operations | Hard behaviour | Correct when |
|---|---|---|---|---|
| `CNN_core` sequencer (`rtl/cnn/CNN_core.v`) | `current_state`, `mode` | IDLE, LOAD_WEIGHT, LOAD_IMAGE, COMPUTE, STORE, DONE | each phase ends on a count of responses, not of requests | a job ends, with the right results |
| ... transfers | send and receive counters, done flags, address, command | pipelined reads of 16 weights and 16 image words, 16 writes | requests and answers run apart; flags lag the handshake by a cycle; nothing is tagged; some counters survive a job | no word is skipped, repeated or misplaced |
| ... feeds | `compute_cnt` | 11 skewed feed cycles | the store starts while the array still adds | a result is final when it is read; the array is empty for the next job |
| ... GELU | none (combinational) | table look-up on each result | - | agrees with its table |
| `pe_array`, `PE` | forwarded operand, accumulator of each PE | SINGLE, DISABLE, CLEAR | skew | accumulates the product |
| `CNN_control`, `CNN_top` | enable, done, one response register | register write, register read | a response lasts one cycle; done races a write of enable | software sees done once a job |
| adder (`rtl/adder`) | operands, result, control | four registers | same response scheme | sum of the two operands |

The core reads and writes the SRAMs `WEIGHT_RAM`, `IMAGE_RAM` and `OUT_RAM`
through the memory fabric of `e203_subsys_mems.v`, whose other master is the CPU.

### 1.2 The memory fabric and the generic blocks

| Part | State | Hard behaviour | Correct when |
|---|---|---|---|
| `sirv_gnrl_icb_arbt` (`general/sirv_gnrl_icbs.v`) | FIFO of the owners of outstanding commands | priority grant, responses carry no owner | an answer reaches the master that asked |
| `sirv_gnrl_icb_buffer` | command and response FIFOs | full queues, back-pressure | nothing is lost or overtakes |
| `sirv_gnrl_icb_splt`, `sirv_icb1to8_bus` | target of the outstanding command | fast and slow targets | answers come back in order |
| `sirv_sram_icb_ctrl`, `sirv_sim_ram` | bypass buffer, one-cycle stage, address register | the word is looked up when the answer leaves | an answer is the word at the time of its command |
| `sirv_gnrl_fifo`, `pipe_stage`, `bypbuf` (`general/sirv_gnrl_bufs.v`) | occupancy code, one-hot pointers | pointers and occupancy are updated separately | a bounded queue |
| `cdc_rx`, `cdc_tx` | synchronisers, payload | two clocks, four phases | each item crosses once |
| `n2w`, `icb2axi`, `icb2apb`, `icb2ahbl`, `icb2wishbone` | counters, one outstanding command | protocol conversion | answers pair with commands |

### 1.3 The core

| Part | State | Hard behaviour | Correct when |
|---|---|---|---|
| Fetch (`e203_ifu_*`) | PC, instruction register, outstanding request, half-word leftover | a flush with a fetch outstanding; halt; misaligned 32-bit instructions | the instructions of the program arrive, each once |
| Dispatch (`e203_exu_disp.v`) | none | stalls on dependencies, CSR, fence, WFI | no hazard is missed, no circular wait |
| OITF (`e203_exu_oitf.v`) | two entries, two pointers with wrap flags | allocation and retirement in one cycle | entries and pointers agree |
| AGU (`e203_exu_alu_lsuagu.v`) | AMO state machine | interrupts, older accesses | an AMO is one read and one write with nothing between |
| Write-back (`e203_exu_longpwbck.v`, `e203_exu_wbck.v`) | none | two long pipes answer in any order | program order of registers |
| Commit (`e203_exu_commit.v`, `_excp.v`, `_branchslv.v`) | `wfi_halt`, `wfi_flag` | interrupts, ALU exceptions and late bus errors compete | a trap stops the instruction in dispatch whole, interrupts are taken |
| NICE (`e203_exu_nice.v`) | tag FIFO | its memory accesses share the LSU | each instruction answers once |
| NICE demo (`subsys/e203_subsys_nice_core.v`) | state machine, row buffer, address, answer counters | commands are not counted, only answers are | each instruction makes its three accesses, once |
| LSU (`e203_lsu_ctrl.v`) | one outstanding access, lr/sc flag | two users | answers pair with accesses; reservation |
| Multiplier and divider (`e203_exu_alu_muldiv.v`) | state machine, two shared result registers | a second instruction of a pair reuses what the first left; flushes in between | the result the ISA defines |
| CSRs, decoder, ALU, register file | data | - | arithmetic |
| BIU, ITCM, DTCM | FIFOs of the generic blocks | as in 1.2 | as in 1.2 |

### 1.4 The rest

Peripherals (CLINT, PLIC, UART, I2C, SPI, GPIO, timers, flash controllers), the
always-on domain, the debug module, clock generation, tops and buses. Much of it is
third-party or generated. `PROJECT.json` lists each part with its files and the
reason why it is not modelled. `rtl/acc` and `src/hls` are a tool-generated
convolution that the SoC does not instantiate.

### 1.5 How the parts interact

The core sends ICB commands through LSU and BIU to the fabric, where it has
priority over the accelerator. Software writes `enable`, polls `done` and reads
`OUT_RAM`. The execution stage asks the fetch unit to flush or halt; the co-processor
shares the LSU with it. An ICB command and its response are handshakes of
their own (`cmd_valid`/`cmd_ready`, `rsp_valid`/`rsp_ready`): no identifiers, so order is
everything. That is why most hazards of this code are orders of events.

### 1.6 The multi-threaded benchmarks

`riscv-tools/riscv-tests/mt` has 44 hand-optimised matrix products and five vector sums. Each is linked
with a harness (`benchmarks/mt-matmul`, `mt-vvadd`) that runs it in every
hardware thread and verifies the result, and with the barrier of `benchmarks/common/util.h`.
State: the matrices, the static copies some kernels make of one operand, the barrier's
count and senses. Hard: the barrier is used again while threads are still leaving it;
which thread owns which elements between two barriers; loops that are unrolled past the
number of rows; sizes that are literals in the kernel and parameters in the build. Correct when
no two threads touch the same element between two barriers, the result has every product once,
no access leaves a matrix, and every thread exits.

## 2. Modules

| Module | Models | State and actions |
|---|---|---|
| `BoundedQueue` | abstract | a queue of at most `DP` items |
| `GnrlFifo` | `sirv_gnrl_fifo` | `vec`, pointers and data as in the code, one action per combination of handshakes |
| `PeArray` | `pe_array.v`, `PE.v` | the array as a function of mode and feeds; a product is the pair of its operands, a sum a sequence of pairs, so a result shows which operands met and in which order |
| `CnnCore` | `CNN_core.v` but the GELU | `CoreClock` is one edge: conjuncts `Sequencer`, `LoadWeight`, `LoadImage`, `Compute`, `Store`, `Command`, the always blocks of the file |
| `MatMulAccel` | abstract | idle, busy while delivering the matrix product word by word, finished |
| `MemFabric` | arbiter, buffer, splitter, SRAM controllers as in `e203_subsys_mems.v` | `FabricClock`, operators for every valid and ready |
| `FabricOrder` | `MemFabric` with two arbitrary masters | adds the two command ports and, as history, what each command should be answered |
| `CnnSystem` | `CnnCore` with `MemFabric`, the CPU's reads, and the software's enable and done | `Clock`: core, fabric, CPU and software step together |
| `Oitf` | `e203_exu_oitf.v` | allocation and retirement, together or apart |
| `InOrder` | abstract | a register file, one instruction after the other |
| `Exu` | dispatch, AGU, LSU handshakes, write-back, commit, NICE interface | `ExuNext` is one edge: `Fetch`, `Track` (OITF), `WriteBack`, `LsuAccess`, `CoProcessor`, `AmoSequence`, `Status`, `Sleep` |
| `CdcCrossing` | `sirv_gnrl_cdc_tx`, `cdc_rx`, `sirv_gnrl_sync` | a step is an edge of the sender's clock (`TxEdge`), of the receiver's (`RxEdge`) or of both; a synchroniser that samples a level on its change may see the old or the new value |
| `MulDiv` | `e203_exu_alu_muldiv.v` | the five states, both shared registers and the partial bits, at a word of `W` bits; the instruction stream and flushes are inputs |
| `NiceCore` | `e203_subsys_nice_core.v` | the three state machines' registers, the row buffer; `Edge` is one clock edge, memory and LSU are inputs |
| `FetchMem` | ITCM controller and BIU, as the fetch unit meets them | bypass buffer, SRAM stage, the SRAM's output and the claim that it is still the fetch unit's; the LSU may take any free cycle |
| `FetchUnit` | `ifetch`, `litebpu`, `minidec`, `ift2icb` | `FetchCycle` is one edge with a flush, a halt or neither; `next_pc` is the history of what the program should execute |
| `MtBarrier` | the barrier of `util.h` | one action per access to `count` and `sense` |
| `MtKernels` | the kernels of `mt/` | each kernel as phases between barriers, a phase as the rectangles of C, A and B it reads and writes |
| `MtRun` | `thread_entry` of the two harnesses | `Step`, `Exit`, `InBarrier`: every thread runs its kernel's phases over the barrier and verifies |
| `*_proofs` | theorems about the module of that name | `Blocks_proofs` is about `GnrlFifo`, `CdcCrossing` and `NiceCore`, `Exu_proofs` also `Oitf` |
| `MCBlocks` | values for TLC | `unit` says which of the blocks (FIFO, fabric, multiplier, crossing, co-processor, fetch unit) a behaviour runs; the others rest |
| `MC*` | values for TLC | |

Components compose by sharing variables: the system's step is the conjunction
of its parts' steps, as it is in synchronous hardware, and a module's inputs are
parameters of its step. A component checked on its own (`CnnCore`, `Oitf`,
`FabricOrder`) has a step with any input; what is proved of it there holds in
every composition.

Definitions such as `SendUpdateAlways`, `AnyHead` or `CommitsMasked` are plausible
slips in the code. They stand before the right definition and are used by nothing; substituting one for the definition it
stands next to makes the named property fail, which shows that the property
depends on that line of the code.

### What is abstracted

- `PeArray`, `CnnCore`: numbers are symbols, so results are checked as expressions
  and overflow is not seen; GELU, which maps each result on its own, is left out.
- `CnnSystem`: the CPU issues reads, one at a time, and holds a command until it is
  taken; masters always take responses, as the BIU's response path does here.
- `MemFabric`: byte masks and error responses are left out; the targets besides
  the SRAMs are one slave that answers when it likes: in the cycle that brings it the command, as
  the boot ROM and the default slave do (`ALLOW_0CYCL_RSP`), or in any later one.
- `Exu`: an instruction has at most one source; its result is any value; a branch
  is a mispredicted one; debug mode, cause and `tval` values are left out. The
  co-processor takes one instruction at a time and has one access under way. The
  fetch unit presents any instruction of the program after any delay.
- `CdcCrossing`: metastability is the choice between the old and the new level; a
  payload is sampled as it stands, and `NothingLost` shows that it stands still.
- `MulDiv`: the configuration bit that forbids to reuse results is left out;
  a flush may come in any cycle.
- `NiceCore`: a request that is none of its instructions leaves no trace and is left out, and so is the error
  bit of an answer.
- `FetchUnit`: an instruction is the pair of addresses its halves come from, so
  that a half-word in the wrong place shows. Prediction is reduced to what it does: jumps are
  predicted taken, `ret` and `jalr` read a register and may have to wait for it, a branch is what the
  execution stage redirects. Of the registers of the instruction in the IR, two facts are kept, as
  constants: which instructions write `x1` (`WritesX1`), for which a `ret` waits, and which need the read port
  (`ReadsRs1`), for which a `jalr` does. That stage, LSU and system memory are the
  environment. Bus errors of fetches are left out.
- `MtKernels`: which elements are read and written, and which products are added to which
  element; not values, rounding or the order of additions. Indices are integers, except where a `size_t` wraps
  (`vvadd3`). Blocks that make no product are there when they touch memory: `load` is a read of B for a transpose of the
  thread's own or ahead of its use, `keep` a read and write of C with products that are zero. A phase is one
  step, which `NoRace` justifies.
- `MtBarrier`: `count` and `sense` are static in a header, so a kernel and its harness each have their own. There
  is one of each here: all threads go through the barriers of both in the same order, and one barrier that is
  used again at once is the harder case.
- `InOrder` says what the registers hold, not which instructions ran: that an
  instruction which a trap stopped runs again is the fetch unit's promise.

## 3. Runs

| Run | Question | Instance |
|---|---|---|
| `blocks` | FIFO: is it a queue; do code and pointers agree? | depth 4, two data values |
| | Fabric: is an answer the word at the time of its command; is each command answered? | two free masters, one SRAM of two words, one slow slave |
| | Multiplier and divider: is a result what the ISA says, alone, in a pair, after a flush? | 4 bits, six operands |
| | Crossing: does each item cross once; is the sender ready again? | synchronisers of two stages, any order of the two clocks |
| | Co-processor: does each instruction do its accesses, exactly? | three instructions, four words |
| | Fetch: do the instructions arrive in program order, each once and whole; do they go on to arrive? | 12 half-words, two redirections, one interrupt |
| `cnn_traffic` | Are the delivered results the product, do buffers hold memory, do answers reach their master is the CPU served, do the core's transfers leave in order, is the array drained between jobs, does the first job end when the CPU leaves it the bus, with CPU reads at any cycle? | 4 x 4, two jobs |
| `exu_data` | Does the pipeline run the program in order? | OITF of 2, one register and `x0`, two values |
| `exu_control` | Do OITF, tags, AMO sequence and traps behave under interrupts, exceptions, bus errors and WFI? | all operations, one value |
| `exu_live` | Do outstanding instructions retire, interrupts get taken, and does the program go on? | the five operations that wait for each other |
| `mt` | Does every kernel compute its product or sum, without races, inside its matrices (but for one element that `af` loads ahead), and do all threads exit? | 49 kernels, one and two threads, four of them with four |
| `cnn_hang` | *fails*: does a job end with CPU traffic? | 4 x 4, one job |
| `cnn_out_ram` | *fails*: does `OUT_RAM` hold all results? | 4 x 4, one job |
| `exu_halt` | *fails*: the assertion `CHECK_1HOT_FLUSH_HALT` | as `exu_control` |
| `exu_amo` | *fails*: is an AMO's access always one its sequence waits for? | as `exu_control` |
| `mt_dataset` | *fails*: does `verify` succeed on the data set the kernels are built with? | 22 kernels, one thread, 16 rows |
| `fetch_wfi` | *fails*: is the IR in program order if WFI is executed with interrupts disabled? | as the fetch unit of `blocks` |

### Bounds, and why they are enough

- FIFO depth 4: the smallest with pointers that differ from full, empty and one
  another; the proof covers the rest.
- The system runs of the accelerator have the 4 x 4 array of the SoC, because there the counters' widths and the depth
  of the fabric's queues interact (a job is longer than all queues together); the
  proofs about the core cover every `Side > 1`.
- `RamWords = 18`: the 16 words of a matrix, and the two that a surplus read could reach.
- `FifoDP = 2`, `ArbOuts = 8`: the instance parameters of `e203_subsys_mems.v` and of the arbiter.
- `MaxJobs`: `cnn_traffic` has two, to start a second job in what the first leaves
  behind. The second job of this core never ends (end of section 4), so a third never starts.
- Fabric in `blocks`: two words in one SRAM suffice to tell the right word from a wrong one, and a
  write in between; the slow slave gives the splitter its waits.
- Multiplier and divider in `blocks`: `W = 4` is two Booth steps and four divider steps, so first, middle
  and last differ; the operands have zero, one, both extremes of each
  sign, and a divisor that leaves a remainder, so that correction, division by zero and
  overflow of the quotient happen.
- Crossing in `blocks`: `SYNC_DP = 2` is the depth the SoC uses.
- Co-processor in `blocks`: `MaxNice = 3` lets an instruction start in what two others
  left; `Bases = {0, 1}` gives rows that overlap without being equal.
  `SlowMem = FALSE`: item 6 of section 4 says why.
- Fetch unit in `blocks`: two lanes of the ITCM and two of the system memory, 32-bit instructions that cross a
  lane inside each and from one to the other, each kind of jump, `MaxFlush = 2` so that a flush
  meets one whose request is still delayed, one interrupt. A larger instance, with
  redirections to two addresses and another handler, was checked as well.
- `mt`: the kernels that index with `lda` are run with 8 rows, at which each
  unrolled loop has a first and a last body; those with 32 in their loops need 32 rows. One and two
  threads; four for the kernels that are written for any number, at 16 rows, and the vector
  sums at 16 elements. `cf` and `cm` have one thread only: two of them update the same
  elements of C without a barrier and may lose an addition. The start-up code lets one core through
  (`crt.S:124-126`, "for now, assume only 1 core"), while `mt/Makefile:84` starts its simulations with two. `dm` stops at two: with
  four, threads write overlapping parts of the copy, with the same values.
- `exu_*`: `Depth = 2` is the default configuration. Dependencies compare one destination
  at a time, so a register and `x0` give every match and mismatch; two values tell
  a right result from a wrong one. They are only copied, and `RunsInOrder` is a safety
  property that treats them alike, so the run takes them as symmetric. `MoreAccesses = 1` lets the
  co-processor come back to memory after giving it up; the data run has 0, as its
  question is the order of write-backs. In the control runs no instruction has a source,
  since a match with a destination stalls dispatch in the same way.

### Fairness

- The clock never stops: weak fairness of the step.
- In `CnnSystem` and `FabricOrder` fairness is of `Clock(TRUE)`: the slow slave
  answers in the end. Masters, CPU and software are forced to nothing.
- `CdcFairness`: both clocks run, and the reader takes an item in the end. Nothing says how
  often one clock ticks for each tick of the other.
- `FetchFairness`: cycles in which the memory answers and the LSU leaves the ITCM come again and
  again, also among those just after a jump has read its register. A flush is never forced.
- `WF_at(BarrierNext)`: some thread that can go on does. More is not
  needed, since a waiting thread only reads.
- `ExuFairness`: the memory takes a command that is offered again and again, answers
  each access, the co-processor offers its result once its accesses are done, and the
  fetch unit knows the next PC unless halted. Each is a promise of a slave
  that the ICB or NICE protocol demands. Instructions, interrupts and bus errors
  are not forced.

Deadlock is checked in every run of the hardware: a clock edge is always possible. It is
not in `mt` and `mt_dataset`, whose programs end; there `EveryThreadExits` says that they
end in the right place.

## 4. What the runs show

1. The transfers of the core are in order for every pattern of `ready`, and no surplus
   read leaves it. The second fact holds only in the system: the send flag lags
   by a cycle, and it is the back-pressure of the fabric that keeps the 17th
   read from being taken.
2. A result is final when the bus takes it, although the store starts before the
   array has finished: `ImplementsAccel` compares every word taken with the complete
   product, whatever the delays between the writes.
3. The fabric returns every answer to its master and an answer is the word at the
   time of the command, although the SRAM looks it up later.
4. The execution stage is in order for registers, a trap leaves nothing of the instruction in dispatch done, AMOs are alone
   on the bus once their sequence has started, and no wait closes a circle.
5. The multiplier and divider give the ISA's result also for the second instruction of a pair,
   and a flush in any cycle leaves nothing that a later instruction could take for the
   first half's result.
6. The co-processor makes each instruction's accesses exactly once, given that the
   memory takes the commands of a started instruction at once and answers in the next cycle. Two things in its code are
   not covered by that: after a `rowsum` it adds whatever is on the response bus to word 0 of its row
   buffer (`nice_core.v:324`; `NiceInstructionsExact` leaves this word out),
   and with a memory that delays commands or answers (`SlowMem = TRUE`) it withdraws a load's command, or
   sends one read more (`nice_core.v:239`, `363`).
7. The fetch unit delivers the program's instructions, whole and in order, over any
   flush, halt, interrupt and any competition of the LSU for the ITCM.
8. The barrier separates phases for any number of threads; the benchmark kernels own disjoint parts of C
   between barriers, and each product is added once. They stay inside their matrices at the sizes they are
   written for, but for `af`, which in its last turn loads the element after the end of B and drops it.
9. Six statements of the repository do not hold (`findings` in `PROJECT.json`):
   - `cnn_hang`: the 16th read of a load is withdrawn if the CPU takes the port in
     the two cycles after the 15th; the core then waits for ever.
   - `cnn_out_ram`: the store address moves by one byte a word, so four results share a
     word of `OUT_RAM` and three of them are lost.
   - `exu_halt`: WFI commits while a load is outstanding; its bus error flushes the
     fetch unit while it is asked to halt, and the handler waits for an interrupt.
   - `exu_amo`: the AMO's command does not wait for the OITF to be empty, its sequence
     does. Behind an outstanding access that it does not depend on, it sends its
     read, drops the answer, and reads again.
   - `fetch_wfi`: a halt takes the answer of the outstanding fetch into the IR. If WFI
     runs with interrupts disabled it wakes up without a trap, and the next PC
     is computed from the response bus, on which there is no answer any more (`ifetch.v:465`).
     With interrupts enabled the trap replaces that PC; that is the case `blocks` checks.
   - `mt_dataset`: 22 of the 44 kernels have 32 written into their loops, and
     `mt/Makefile` builds them with the data set of 16 rows; `verify` fails.

   Two further observations, not runs. `af_matmul.c:53-56` loads B for the next turn of a loop in its last turn
   too, and so reads the element after the last one of B, at any size. Nothing uses the value. `StaysInside` says
   that it is this one element and no other (`Prefetched`); without that allowance it is violated.
   `image_addr_send_done` (`CNN_core.v:450`) is never
   cleared while `image_data_rcpt_cnt` starts again at 0 (line 504), so a second job sends
   no image reads and does not end. `FirstJobCompletes` of `cnn_traffic` therefore asks about the first job.

## 5. Proofs

All are for every value of the constants under the named assumptions, which TLC
evaluates in the runs.

- `Blocks_proofs`, the FIFO (`FifoAssumption`: `DP` is a positive number). `FifoPointersAgree`:
  the occupancy code is a thermometer whose length is the distance of the pointers. Lemmas:
  the pointer wraps as a remainder; shifting a thermometer gives one. `FifoTypeCorrect`
  gives the widths. `FifoImplementsQueue`: with the entries between the pointers as its
  queue, every step is a step of `BoundedQueue` or leaves it as it is.
- `Blocks_proofs`, the crossing (`CdcAssumption`: synchronisers have at least one stage). The registers of both
  sides form a loop of levels. `OneOnWay` says that at most one place of it differs from the
  one before, `TxMoves` and `RxMoves` that an edge of either clock moves that place on and makes a new
  one only when there is none, `ReadyMeansLow` that all levels are low when the sender is
  ready. `CrossingPhases` is that. With it, a payload is sampled once (`Sampled`), while the sender
  holds it, and withdrawn only after that (`Withdrawn`), from which `CrossingNothingLost` follows.
- `Blocks_proofs`, the co-processor (`NiceAssumption`: among others, the memory has more than two words, so that a row does
  not overlap itself). `NiceTypeCorrect` holds for every memory. `NiceExact` has the condition `~SlowMem`,
  without which it is false (item 6 of section 4). `Exactly` says what each of the
  three instructions has done by the number of its answers: `lbuf` and `sbuf` are one access ahead of their
  counter, `rowsum` takes five steps (`SumStep`) because a word is added a cycle after it was sampled; and
  `Rests` what an ended one leaves: nothing but, after a sum, a word still to be added to place 0. `RowCells` is the
  arithmetic of addresses that wrap, `SumOfThree` that of sums that do.
- `CnnCore_proofs` (`CoreAssumption`: `Side > 1`). `CtrlInv` is inductive: it ties each
  send counter to the address, the done flags and the command, the multiplexer index to
  the store counter, and `compute_cnt` to the number of writes. `FeedsAligned` is not
  inductive on its own: it follows because a job's store needs `Words` handshakes and
  `3*Side - 2 < Words + Side + 1`, so the array has run out before STORE can end. From
  `CtrlInv` follow `FeedsAligned`, `WeightReadsInOrder` and `StoreInOrder`;
  `CoreTypeCorrect` is proved with it. `CoreStoresProduct`, for any bus and any responses: a write of the store
  carries the finished sum of its place, all `Side` products, unless a buffer holds a 0 (a
  product with it adds nothing, and `PeArray` leaves it out). `ProductInv` follows the skew of the array: when
  `compute_cnt` is `x`, the operands in flight and the partial sums of row `r` and column `c` are those of
  `x` less `r + c` (`Flowing`, `Summed`), and the multiplexer, which starts
  before the array is done, trails it (`Trails`).
- `MemFabric_proofs`: lemmas on one clock of the memory fabric, whatever its masters offer: no queue
  overflows, the order FIFO keeps one entry per command, a command behind the
  splitter is at its SRAM at once, and each queue moves by at most one place. The next two rest on them.
- `FabricOrder_proofs` (`FabricAssumption`, `CmdsAssumption`). `FabricInv`: the order FIFO has one
  entry for each command in the pipeline, counted over command FIFO, splitter,
  SRAM stages and response FIFO. `FabricTypeCorrect` (no queue overflows) and
  `FabricOneOwner` follow. `FabricAnswersAtomic` needs two things more. `OneAtATime`: with one
  command outstanding behind the splitter the bypass buffers stay empty, so a command is at its SRAM in
  the cycle it is issued in. And the answers owed, position by position: those in the response FIFO, the
  one in the memory, and what each command still in the command FIFO will find (`Finds`: the
  last write to its word before it, or the memory as it is now), while the atomic memory is
  what those commands will leave. The two assumptions say in addition that a command's word and the initial
  contents are inside the RAM it goes to, as the address decoding makes sure.
- `CnnSystem_proofs`: the accelerator and the CPU on the shared memories. Assumed, next to the above:
  `DepthAssumption` (a RAM has more words than a matrix, `2 * FifoDP <= Words`, the arbiter may own more commands than the bus
  holds; the SoC has `Words = 16`, `FifoDP = 2`), `CpuAssumption` (the CPU writes no matrix while the accelerator
  works; it may read them and read or write the slow slaves), `WordAssumption` (the memories hold words other than 0, and the
  tokens for "none" are no words). `2 * FifoDP <= Words` is needed: with `FifoDP = 3` and
  `Side = 2` a read too many leaves.
  The hardware keeps no record of which response belongs to which command, so `SysInv` has it:
  there is a sequence `asked`, one command for each entry of the order FIFO, that says what every queue holds
  (`InPlace`), whose entries of the CPU are the one it waits for (`OfCpu`), and whose entries of the core
  carry consecutive numbers from what the core has received to what it has sent (`OfCore`). A second part
  is about the lag of `send_done`: it comes up a cycle after the last handshake but one, and
  a read too many would leave if the bus took the last one in that cycle. `Pressure` says it does not: by then the
  command FIFO is full and the last read waits; or, if a command of the CPU went through at once, for which a slave that answers in
  the same cycle is enough, the last read fills the FIFO (`FilledByCore`), and the one after it, which the core then offers for a
  cycle, is refused. `Level` is the measure: the commands that wait count two, as each holds the splitter for two cycles, but the
  CPU's only one. `Undone` says that no word can have come for the read that fills the FIFO, so that the state does not end before
  the offer is withdrawn. `Counted` and `Untouched` follow the counters and one lemma per state (`InLoadWeight`, ...) the
  rest. `SysNoSurplusRead`, `SysBuffersHoldMemory`, `SysCpuGetsItsAnswer`,
  `SysCoreInvariants` and `SysOneOwnerPerCommand` follow from `SysInvariant`. `SysImplementsAccel` is the
  refinement of `MatMulAccel`: with `ProductInv` and `Taken` (the bus has taken the first
  results of the job) a write that is accepted delivers the next word of the product (`WritesExpected`), and
  every other step leaves the abstract state alone.
- `Exu_proofs`, the OITF (`OitfAssumption`: depth above 1). `OitfAgrees` relates the valid bits to
  the interval between the pointers; `Allocated` and `Retired` say how an entry
  enters and leaves the interval, `ClockAgrees` puts the two together.
- `Exu_proofs`, the unit (`ProgramAssumption`: the instructions of the program are decoded ones, a store has no
  destination; `AccessAssumption`: the names for no access are no accesses). `ExuInv` is
  inductive: next to the types, `EveryEntryOwned` and `AmoAlone` it says that the
  co-processor's FSM and its tag FIFO agree (`NiceAgrees`), that at most one outstanding instruction
  writes a register (`OneWriter`, what `waw_dep` is for; without it the last value
  of a register is not determined by who is outstanding), and that an access which will write
  a register brings a value (`LoadsBringValues`). `EntriesOwned`, `TableAgrees`, `AmoIsAlone` and
  `ExuTypeCorrect` follow, and, for every step, `TrapsPrecise`. `PipelineRunsInOrder` is the refinement
  of `InOrder`: its registers are `Settled`, what each register holds once the outstanding answers are
  in. `Settles` reads that off the units, write-back of a long instruction leaves it as it is, and
  the instruction that leaves dispatch changes it as `InOrder` does.
- `MtRun_proofs` (`CoreCountsAssumption`: a program has at least one thread; `JobsAssumption`: a data set has at
  least one row). The barrier's invariant says that
  there is a generation R: every thread is released from the barrier before it, outside, or has entered
  barrier R; the sense is R's parity; the count is the number of threads that wait, or 0
  once the last one has cleared it. `BarrierSeparates` alone is not inductive: it does not say what
  the count means. One lemma per action follows the generation; the one that opens the
  barrier moves it to R + 1. `BarrierSeparatesPhases` and `BarrierTypeCorrect` follow for any number
  of threads and of barriers, whatever the threads do in between, and `RunSeparatesPhases` says that the programs of
  `MtRun` do not disturb it. Threads that work are then all in generation R, that is, in the same phase: of all the
  interleavings only blocks of equal phases can meet (`RunRaceFree`, for any kernel that ends every thread's
  phases properly). That such blocks are apart is a fact about the kernel's index sets, proved for any number of cores
  and any `lda` by what the kernel shares out: rows of its own in one phase or one at a time (`OwnRows`,
  `OwnRowsInTurn`), two halves (`HalfKernels`, `QuarterKernels`), every `ncores`-th row, column or
  element (`StridedKernels`), an interval of the vector (`OwnVector`). Elements are compared by their place in memory, because a column too many is
  an element of the next row. `SharedOutRaceFree` puts the twenty kernels
  together, for the sizes of `SizesOf`: the ones with 32 in their loops need 32 rows, those unrolled over the columns a
  multiple of their step, `ar` a B that fits its local array, and `vvadd3` an element for each thread, since its Duff's
  device enters the loop body before it looks at the count and, with none, counts below 0. It does not say that such a kernel computes the whole product: with three cores and 32 rows
  `lda/ncores` leaves rows over, and nobody writes those. `InsideForAnySize` says of the five kernels that take every bound
  from `lda` and `ncores` that they index inside the arrays (`IntervalInside`), with the last two of those conditions. Many of the others unroll
  their loops or have the literal 32 in them, and index outside arrays of a size they are not written for.
- `FetchUnit_proofs` (`FetchMemAssumption`: lanes divide both memories; `FetchAssumption`: jumps and
  redirections go to addresses). A cycle is first put into a form with its wires named (`CycleOf`). The
  invariant has two parts. `FetchShape` is about one fetch: ifetch, ift2icb and the
  memories agree on what is outstanding (`FetchAwaited`, `ItcmOrder`, `RequestAgrees`), nothing is asked
  out of reset and in a WFI (`NothingAsked`), and unless a flush has overtaken it the fetch is that of
  `pc_r`: its access goes to the right lane, the leftover is its first half, and the lane held
  up is the one it ends in (`FetchIsPc`), which is what lets its successor do without an access. The
  lemmas `LaneIs`, `NextLane`, `OneLane` and `SameLane` are the arithmetic of lanes. `FetchesAnswered` follows,
  and with `ResponseIsDue` each answer is the instruction at `pc_r`. `FetchOrder` says which fetch that is:
  the one due after what the IR holds, unless the interrupt that ends a WFI, or may be taken, is
  about to redirect (`Waking`), and what the PC offered for `mepc` is in between.
  `InstructionsInOrder` and `PcsInOrder` follow, under `~WfiMasked`: with a WFI executed
  while interrupts are disabled they are false, as the run `fetch_wfi` shows. `FetchHoldsTogether` and
  `FetchesAnswered` need no such condition.

Only model-checked: every liveness property, `JobCompletes` and `FirstJobCompletes` of the accelerator
included (the prover has no `ENABLED`); the multiplier and divider, whose result is an
induction over the bits; `NoRace` of the other kernels, which overshoot their rows, race with more than one core or
share a copy of B; `StaysInside` of those written for certain sizes; `ResultVerified`, where the sum of each
element is data; and `BlocksTypeOk`, which is the conjunction of the blocks' types
(those of the FIFO, the fabric and the co-processor are proved, each by itself).

## 6. Not modelled

- GELU (`CNN_core`), the adder's and the ALU's arithmetic, the decoder, the branch unit's comparison, the register file:
  functions of their inputs or plain storage. Nothing in them depends on an order of events.
- `CNN_control` beyond `enable` and `done` as software sees them in `CnnSystem`, and the adder's bus registers: register slaves that
  answer for one cycle. Their masters hold `rsp_ready`, so the case in which an answer could be lost does not occur.
- The LSU's address decoding and its lr/sc reservation: `Exu` has the handshakes and treats
  the value that comes back as arbitrary. The reservation compares addresses, which
  `Exu` does not have.
- CSRs other than the interrupt enable; causes and `tval`; debug mode, the debug module and JTAG (the crossing
  it uses is modelled).
- DTCM controller and the inside of the BIU: they are instances of the generic buffer, arbiter and
  splitter of `MemFabric`, with other parameters.
- Bus bridges (`n2w`, AXI, APB, AHB-Lite, Wishbone), `pipe_stage` with other
  parameters than those that occur inside modelled parts.
- Peripherals, PLIC, CLINT, always-on domain, flash controllers: generated or third-party
  register blocks behind the same bus.
- Clock generation, tops, wrappers: wiring and vendor cells.
- The remaining software: single-threaded tests and benchmarks, whose results are data of
  one program; the debugger tests; `rtl/acc` and `src/hls`, which the SoC does not instantiate.
