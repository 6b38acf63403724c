------------------------------ MODULE NiceCore ------------------------------
(***************************************************************************)
(* e203_subsys_nice_core, the demo co-processor behind the NICE interface:  *)
(* lbuf loads three words into a row buffer, sbuf stores them, rowsum adds  *)
(* three words up and onto the row buffer.  It never counts the commands of *)
(* a load: whether to send another is read off the answers so far, and the  *)
(* first is sent by the request itself.  One step is one clock edge; the    *)
(* load-store unit has one access of it under way.  A request that is no    *)
(* instruction of its leaves no trace and is left out; bus errors only       *)
(* change the error bit of the answer.                                      *)
(***************************************************************************)
EXTENDS Integers

CONSTANTS MemWords,     \* words of memory; addresses count words and wrap
          NiceMod,      \* values of a word are 0 .. NiceMod-1
          MemAtStart,   \* contents of the memory
          Bases,        \* rs1 of the instructions
          MaxNice,      \* bound: instructions in a behaviour
          SlowMem       \* may the memory delay commands and answers?

\* The memory holds a row of three words without wrapping around.
ASSUME NiceAssumption ==
  /\ MemWords \in Nat \ 0..2 /\ NiceMod \in Nat \ {0} /\ MaxNice \in Nat
  /\ MemAtStart \in [0..(MemWords - 1) -> 0..(NiceMod - 1)]
  /\ Bases \subseteq 0..(MemWords - 1) /\ SlowMem \in BOOLEAN

clonum == 2
NiceOps == {"lbuf", "sbuf", "rowsum"}

VARIABLES
  nice_req,                        \* instruction on the request port, or "none"
  nice_req_rs1,
  nice_state_r,                    \* IDLE or the instruction under way
  lbuf_cnt_r, sbuf_cnt_r, sbuf_cmd_cnt_r, rowbuf_cnt_r,
  rcv_data_buf_valid, rcv_data_buf, rcv_data_buf_idx,
  rowsum_acc_r, rowbuf_r, maddr_acc_r,
  nice_mem,                        \* the memory
  nice_out,                        \* word the access under way reads, or -1
  nice_done,                       \* bound: instructions so far
  accesses, start                  \* history: of the last instruction

niceVars == <<nice_req, nice_req_rs1, nice_state_r, lbuf_cnt_r, sbuf_cnt_r, sbuf_cmd_cnt_r,
              rowbuf_cnt_r, rcv_data_buf_valid, rcv_data_buf, rcv_data_buf_idx,
              rowsum_acc_r, rowbuf_r, maddr_acc_r, nice_mem, nice_out, nice_done,
              accesses, start>>

NiceTypeOk ==
  /\ nice_req \in NiceOps \cup {"none"} /\ nice_state_r \in NiceOps \cup {"IDLE"}
  /\ {lbuf_cnt_r, sbuf_cnt_r, sbuf_cmd_cnt_r, rowbuf_cnt_r, rcv_data_buf_idx} \subseteq 0..clonum
  /\ rcv_data_buf_valid \in BOOLEAN
  /\ {rcv_data_buf, rowsum_acc_r} \subseteq 0..(NiceMod - 1)
  /\ rowbuf_r \in [0..clonum -> 0..(NiceMod - 1)]
  /\ nice_mem \in [0..(MemWords - 1) -> 0..(NiceMod - 1)]
  /\ nice_out \in -1..(NiceMod - 1)

-----------------------------------------------------------------------------
\* A slip: a command more, as the store has it.
CmdUpToLast == lbuf_cnt_r <= clonum

lbuf_cmd_more == lbuf_cnt_r < clonum
rowsum_acc_flg == rcv_data_buf_valid /\ rcv_data_buf_idx # 0

nice_icb_cmd_valid ==
  \/ nice_state_r = "IDLE" /\ nice_req # "none"
  \/ nice_state_r = "lbuf" /\ lbuf_cmd_more
  \/ nice_state_r = "sbuf" /\ sbuf_cmd_cnt_r <= clonum /\ sbuf_cnt_r # clonum
  \/ nice_state_r = "rowsum" /\ rcv_data_buf_idx < clonum /\ ~rowsum_acc_flg

\* The command's kind and address come from the request while it is IDLE.
Instr == IF nice_state_r = "IDLE" THEN nice_req ELSE nice_state_r
cmd_maddr == (IF nice_state_r = "IDLE" THEN nice_req_rs1 ELSE maddr_acc_r) % MemWords

NextCount(cnt) == IF cnt = clonum THEN cnt ELSE cnt + 1

\* nice_rsp_valid: the last answer itself, or the finished sum.
rsp_valid_rowsum == nice_state_r = "rowsum" /\ rcv_data_buf_idx = clonum /\ ~rowsum_acc_flg

\* The words of the row buffer that are what the instructions say: the end of
\* a sum adds the idle bus to word 0 once more.
Known(op) == CASE op = "lbuf" -> 0..clonum
               [] op = "sbuf" -> start.known
               [] op = "rowsum" -> start.known \ {0}

\* One edge: what the memory does with the command and whether it answers.
Edge(cmd_ready, answers, rsp_ready) ==
  LET cmd_hsked == nice_icb_cmd_valid /\ cmd_ready
      req_hsked == nice_state_r = "IDLE" /\ nice_req # "none" /\ cmd_ready
      rsp(op)   == nice_state_r = op /\ answers
      lbuf_last == rsp("lbuf") /\ lbuf_cnt_r = clonum
      sbuf_last == rsp("sbuf") /\ sbuf_cnt_r = clonum
      rowsum_done == rsp_valid_rowsum /\ rsp_ready
      ends == lbuf_last \/ sbuf_last \/ rowsum_done
      wdata == rowbuf_r[sbuf_cmd_cnt_r]
      written == IF rsp("lbuf") THEN lbuf_cnt_r ELSE rcv_data_buf_idx
  IN /\ nice_state_r' = IF req_hsked THEN nice_req ELSE IF ends THEN "IDLE" ELSE nice_state_r
     /\ lbuf_cnt_r' = IF req_hsked /\ nice_req = "lbuf" THEN 0
                      ELSE IF rsp("lbuf") THEN NextCount(lbuf_cnt_r) ELSE lbuf_cnt_r
     /\ sbuf_cnt_r' = IF sbuf_last THEN 0
                      ELSE IF rsp("sbuf") THEN NextCount(sbuf_cnt_r) ELSE sbuf_cnt_r
     /\ sbuf_cmd_cnt_r' = IF sbuf_last THEN 0
                          ELSE IF Instr = "sbuf" /\ cmd_hsked THEN NextCount(sbuf_cmd_cnt_r)
                          ELSE sbuf_cmd_cnt_r
     /\ rowbuf_cnt_r' = IF ~rsp("rowsum") THEN rowbuf_cnt_r
                        ELSE IF rowbuf_cnt_r = clonum THEN 0 ELSE rowbuf_cnt_r + 1
     /\ rcv_data_buf_valid' = (rsp("rowsum") \/ rowsum_done)
     /\ IF rsp("rowsum") \/ rowsum_done
        THEN \* the end of a sum samples the idle bus: the word read last
             /\ rcv_data_buf' = IF answers THEN nice_out ELSE rcv_data_buf
             /\ rcv_data_buf_idx' = IF rsp("rowsum") THEN rowbuf_cnt_r ELSE 0
        ELSE UNCHANGED <<rcv_data_buf, rcv_data_buf_idx>>
     /\ rowsum_acc_r' = IF ~rcv_data_buf_valid THEN rowsum_acc_r
                        ELSE IF rcv_data_buf_idx = 0 THEN rcv_data_buf
                        ELSE (rcv_data_buf + rowsum_acc_r) % NiceMod
     /\ rowbuf_r' = IF rsp("lbuf") THEN [rowbuf_r EXCEPT ![written] = nice_out]
                    ELSE IF rcv_data_buf_valid
                    THEN [rowbuf_r EXCEPT ![written] = (@ + rcv_data_buf) % NiceMod]
                    ELSE rowbuf_r
     /\ maddr_acc_r' = IF cmd_hsked THEN cmd_maddr + 1 ELSE maddr_acc_r
     /\ nice_mem' = IF cmd_hsked /\ Instr = "sbuf" THEN [nice_mem EXCEPT ![cmd_maddr] = wdata]
                    ELSE nice_mem
     /\ nice_out' = IF cmd_hsked THEN (IF Instr = "sbuf" THEN 0 ELSE nice_mem[cmd_maddr])
                    ELSE IF answers THEN -1 ELSE nice_out
     /\ accesses' = IF req_hsked THEN 1 ELSE accesses + (IF cmd_hsked THEN 1 ELSE 0)
     /\ start' = IF req_hsked THEN [op |-> nice_req, base |-> nice_req_rs1,
                                    row |-> rowbuf_r, mem |-> nice_mem,
                                    known |-> Known(nice_req)]
                 ELSE start
     \* the pipeline puts the next instruction on the port
     /\ IF nice_req = "none" \/ req_hsked
        THEN \/ /\ nice_done < MaxNice
                /\ nice_done' = nice_done + 1
                /\ nice_req' \in NiceOps /\ nice_req_rs1' \in Bases
             \/ /\ nice_req' = "none"
                /\ UNCHANGED <<nice_req_rs1, nice_done>>
        ELSE UNCHANGED <<nice_req, nice_req_rs1, nice_done>>

NiceInit ==
  /\ nice_req = "none" /\ nice_req_rs1 = 0 /\ nice_state_r = "IDLE"
  /\ lbuf_cnt_r = 0 /\ sbuf_cnt_r = 0 /\ sbuf_cmd_cnt_r = 0 /\ rowbuf_cnt_r = 0
  /\ rcv_data_buf_valid = FALSE /\ rcv_data_buf = 0 /\ rcv_data_buf_idx = 0
  /\ rowsum_acc_r = 0 /\ rowbuf_r = [n \in 0..clonum |-> 0] /\ maddr_acc_r = 0
  /\ nice_mem = MemAtStart /\ nice_out = -1 /\ nice_done = 0 /\ accesses = 0
  /\ start = [op |-> "none", base |-> 0, row |-> rowbuf_r, mem |-> nice_mem, known |-> {}]

\* The DTCM answers in the next cycle and takes the next command with the
\* answer; the first may wait for an access of the pipeline.  The answer of
\* lbuf and sbuf is taken at once: the instruction is the oldest one then
\* and the long pipeline goes first to the register file.
NiceNext ==
  \E cmd_ready, answers, rsp_ready \in BOOLEAN :
    /\ answers => nice_out # -1
    /\ cmd_ready => nice_out = -1 \/ answers
    /\ ~SlowMem => /\ answers = (nice_out # -1)
                   /\ nice_state_r # "IDLE" => cmd_ready
    /\ nice_state_r # "rowsum" => rsp_ready
    /\ Edge(cmd_ready, answers, rsp_ready)

NiceSpec == NiceInit /\ [][NiceNext]_niceVars

-----------------------------------------------------------------------------
Loaded(n) == start.mem[(start.base + n) % MemWords]
RowExpected(n) == CASE start.op = "lbuf" -> Loaded(n)
                    [] start.op = "sbuf" -> start.row[n]
                    [] start.op = "rowsum" -> (start.row[n] + Loaded(n)) % NiceMod

\* An instruction that has ended made its three accesses, no more and no
\* fewer, and left row buffer, memory and sum as its description says
\* ("load data(in memory) to row_buf", "store data(in row_buf) to memory",
\* "accumulate row datas and write back"), word 0 of the row buffer after a
\* sum excepted.
NiceInstructionsExact ==
  /\ nice_state_r = "IDLE" /\ start.op # "none" =>
       /\ accesses = clonum + 1 /\ nice_out = -1
       /\ \A n \in start.known :
            /\ rowbuf_r[n] = RowExpected(n)
            /\ start.op = "sbuf" => nice_mem[(start.base + n) % MemWords] = start.row[n]
       /\ \A w \in DOMAIN nice_mem :
            (start.op # "sbuf" \/ (w - start.base) % MemWords > clonum) => nice_mem[w] = start.mem[w]
  /\ rsp_valid_rowsum => rowsum_acc_r = (Loaded(0) + Loaded(1) + Loaded(2)) % NiceMod
=============================================================================
