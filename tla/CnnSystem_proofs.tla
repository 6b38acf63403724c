-------------------------- MODULE CnnSystem_proofs --------------------------
(***************************************************************************)
(* The accelerator and the CPU on the shared memories, for every array     *)
(* size, every depth of the bus that a matrix fills, and every word the    *)
(* memories hold: the core never reads past a matrix, each response is     *)
(* counted by the master whose command it answers, the buffers hold what   *)
(* the memories hold, and a job delivers the matrix product.  Nothing in   *)
(* the hardware ties a response to its command, so the invariant does:     *)
(* some sequence of commands, one for each entry of the arbiter's order    *)
(* FIFO, and some numbering of the core's own.                             *)
(***************************************************************************)
EXTENDS CnnSystem, CnnCore_proofs, MemFabric_proofs

\* The memories the core reads from.
Kept == {"weight", "image"}

\* What the core sends: reads of the matrices and writes of results.
CoreCmds == [read : BOOLEAN, addr : [region : Regions, off : Nat], wdata : Seq(Word \X Word)]
CoreSends == {cmd \in CoreCmds : /\ WordOf(cmd.addr) \in 0..(RamWords - 1)
                                 /\ IF cmd.read THEN cmd.addr.region \in Kept
                                                ELSE cmd.addr.region = "out"}
SysCmds == CpuCmds \cup CoreSends

\* What a command is answered with.
Answer(cmd) == IF cmd.addr.region = "slow" THEN <<"slow", 0>>
               ELSE Contents[cmd.addr.region][WordOf(cmd.addr)]
Answered(cmd, v) == IF cmd.addr.region = "out" THEN v \in Seq(Word \X Word) ELSE v = Answer(cmd)

\* The matrices stay what they were; the results have their shape.
MemKept == \A w \in 0..(RamWords - 1) : /\ \A t \in Kept : mem_r[t][w] = Contents[t][w]
                                        /\ mem_r["out"][w] \in Seq(Word \X Word)

-----------------------------------------------------------------------------
(* What is on its way.                                                      *)

\* asked[k] is the command of the k-th entry of the order FIFO: answered in
\* rsp_fifo, at work behind the splitter, or still in cmd_fifo.
InPlace(asked) ==
  /\ asked \in Seq(SysCmds) /\ Len(asked) = Len(rspid_fifo)
  /\ \A k \in 1..Len(rsp_fifo) : Answered(asked[k], rsp_fifo[k])
  /\ splt_id # NoTarget => Answered(asked[Started], ReadData(splt_id))
  /\ \A n \in 1..Len(cmd_fifo) : cmd_fifo[n] = asked[Started + n]

\* The CPU has at most one of them, and it is the one it waits for.
OfCpu(asked) ==
  /\ \A k \in 1..Len(rspid_fifo) :
       rspid_fifo[k] = "cpu" => cpu_cmd = NoCmd /\ cpu_wait # NoCmd /\ asked[k] = cpu_wait
  /\ \A j, k \in 1..Len(rspid_fifo) : rspid_fifo[j] = "cpu" /\ rspid_fifo[k] = "cpu" => j = k

\* How many commands of its state the core has sent, and has answers for.
Received == CASE current_state = "LOAD_WEIGHT" -> weight_data_rcpt_cnt
              [] current_state = "LOAD_IMAGE"  -> image_data_rcpt_cnt
              [] current_state = "STORE"       -> store_rsp_rcpt_cnt
              [] OTHER                         -> 0
Sent == CASE current_state = "LOAD_WEIGHT" -> IF weight_data_rcpt_done THEN Words
                                              ELSE reads["weight"]
          [] current_state = "LOAD_IMAGE"  -> reads["image"]
          [] current_state = "STORE"       -> store_data_send_cnt
          [] OTHER                         -> 0

\* nr numbers the core's entries of ids from first on; last is the next one.
Counts(ids, nr, first, last) ==
  /\ nr[1] = first /\ nr[Len(ids) + 1] = last
  /\ \A k \in 1..(Len(ids) + 1) : nr[k] \in Nat
  /\ \A k \in 1..Len(ids) : nr[k + 1] = nr[k] + (IF ids[k] = "cnn" THEN 1 ELSE 0)
  /\ \A j, k \in 1..(Len(ids) + 1) : j <= k => nr[j] <= nr[k]

\* Command n of a state is for word n of its matrix.
IsRequest(state, n, cmd) ==
  CASE state = "LOAD_WEIGHT" -> cmd.read /\ cmd.addr = At("weight", 4 * n)
    [] state = "LOAD_IMAGE"  -> cmd.read /\ cmd.addr = At("image", 4 * n)
    [] OTHER                 -> cmd.addr.region = "out"

OfCore(asked, nr) ==
  /\ Counts(rspid_fifo, nr, Received, Sent)
  /\ \A k \in 1..Len(rspid_fifo) :
       rspid_fifo[k] = "cnn" => IsRequest(current_state, nr[k], asked[k])

Traffic == \E asked, nr : InPlace(asked) /\ OfCpu(asked) /\ OfCore(asked, nr)

-----------------------------------------------------------------------------
(* The reads of one matrix.                                                 *)

\* How full the bus is.  It fills while a command is offered in every cycle,
\* so that a word is refused before the last one has been counted, or at the
\* latest the one after it.  A command holds the splitter for two cycles; the
\* CPU's, of which there is at most one, perhaps only for one.
CpuQueues == \E n \in 1..Len(cmd_fifo) : rspid_fifo[Started + n] = "cpu"
Level == 2 * Len(cmd_fifo) + Busy - (IF CpuQueues THEN 1 ELSE 0)
Filled == \/ Len(cmd_fifo) = FifoDP
          \/ Len(cmd_fifo) = FifoDP - 1 /\ (Busy = 1 \/ ~CpuQueues)
Pressure(n) ==
  /\ n >= 1 => Level >= n + 1 \/ Filled
  /\ n = LastWord => Len(cmd_fifo) = FifoDP \/ (Len(cmd_fifo) = FifoDP - 1 /\ Busy = 1)

\* The command FIFO is full and the core's command is the last in it.
FilledByCore == Len(cmd_fifo) = FifoDP /\ rspid_fifo[Len(rspid_fifo)] = "cnn"

\* n reads of the matrix are taken; cnt is the core's own count, next its next
\* address and sent its send_done, which is a cycle late.
Reading(region, sent, cnt, next, n) ==
  \/ ~sent /\ ~cnn_icb_cmd_valid /\ cnt = 0 /\ next = 0 /\ n = 0
  \/ /\ ~sent /\ cnn_icb_cmd_valid /\ cnn_icb_cmd_read
     /\ cnn_icb_cmd_addr = At(region, 4 * cnt) /\ next = 4 * (cnt + 1)
     /\ n = cnt /\ cnt \in 0..LastWord /\ Pressure(n)
  \/ /\ sent /\ cnn_icb_cmd_valid /\ cnn_icb_cmd_read
     /\ cnn_icb_cmd_addr = At(region, 4 * LastWord) /\ n = LastWord
  \/ /\ sent /\ cnn_icb_cmd_valid /\ cnn_icb_cmd_read
     /\ cnn_icb_cmd_addr = At(region, 4 * Words) /\ n = Words /\ FilledByCore
  \/ sent /\ ~cnn_icb_cmd_valid /\ n \in {0, LastWord, Words}

ReadingWeights ==
  current_state = "LOAD_WEIGHT" =>
    /\ reads["image"] = 0
    /\ IF weight_data_rcpt_done THEN ~cnn_icb_cmd_valid /\ weight_addr_send_done
       ELSE Reading("weight", weight_addr_send_done, weight_addr_send_cnt,
                    weight_addr_next, reads["weight"])

ReadingImage ==
  /\ current_state = "LOAD_IMAGE" =>
       Reading("image", image_addr_send_done, image_addr_send_cnt,
               image_addr_next, reads["image"])
  /\ current_state \in {"IDLE", "LOAD_WEIGHT"} =>
       image_addr_send_done \/ (image_addr_send_cnt = 0 /\ image_addr_next = 0)
  /\ current_state \in {"COMPUTE", "STORE", "DONE"} => image_addr_send_done

\* Between its transfers the core sends nothing.
Resting ==
  /\ weight_data_rcpt_done => weight_addr_send_done
  /\ current_state \in {"IDLE", "COMPUTE", "DONE"} => ~cnn_icb_cmd_valid
  /\ current_state \in {"LOAD_IMAGE", "COMPUTE", "STORE", "DONE"} => weight_data_rcpt_done
  /\ current_state = "LOAD_IMAGE" => image_data_rcpt_cnt \in 0..Words

\* What has been received is what the memory holds.
Buffered ==
  /\ \A k \in 0..LastWord : k < weight_data_rcpt_cnt => cur_weight[k] = Contents["weight"][k]
  /\ current_state = "LOAD_IMAGE" =>
       \A k \in 0..LastWord : k < image_data_rcpt_cnt => image_data[k] = Contents["image"][k]
  /\ current_state \in {"COMPUTE", "STORE"} =>
       \A k \in 0..LastWord : image_data[k] = Contents["image"][k]

\* Registers that no other part bounds.
SysTypes ==
  /\ enable \in BOOLEAN
  /\ cpu_cmd \in CpuCmds \cup {NoCmd} /\ cpu_wait \in CpuCmds \cup {NoCmd}
  /\ reads \in [Kept -> 0..Words]
  /\ image_addr_send_cnt \in Nat /\ image_addr_send_done \in BOOLEAN

\* The words in the array and on its way out.
Products == Seq(Word \X Word)
ArrayTypes ==
  /\ cnn_icb_cmd_wdata \in Products
  /\ result \in [Lane -> [Lane -> Products]]
  /\ data_out \in [Lane -> [Lane -> Word]] /\ weight_out \in [Lane -> [Lane -> Word]]
  /\ in_data \in [Lane -> Word] /\ in_weight \in [Lane -> Word]

SysInv ==
  /\ CtrlInv /\ CoreTypeOk /\ SysTypes /\ ArrayTypes
  /\ FabricHolds(SysCmds) /\ OneAtATime /\ Len(rsp_fifo) <= 1
  /\ MemKept /\ Traffic
  /\ ReadingWeights /\ ReadingImage /\ Resting /\ Buffered

-----------------------------------------------------------------------------
(* Constants.                                                               *)

LEMMA ContentsAre ==
  /\ Rams = {"weight", "image", "out"} /\ Targets = Rams \cup {"slow"}
  /\ \A w \in 0..(RamWords - 1) :
       /\ \A t \in Kept : /\ Contents[t][w] \in Word /\ Contents[t][w] # Zero
                          /\ Contents[t][w] # NoRsp
       /\ Contents["out"][w] = <<>>
  /\ <<"slow", 0>> \in Word /\ <<"slow", 0>> # NoRsp
BY SystemAssumption, WordAssumption, CoreAssumption DEF Contents, Kept, Regions, Targets

LEMMA SysFit ==
  /\ CommandsFit(SysCmds)
  /\ NoCmd \notin CoreSends
  /\ \A cmd \in SysCmds : ~cmd.read => cmd.addr.region \in {"out", "slow"}
<1>1. \A cmd \in CoreSends : /\ cmd.addr.region \in Regions
                             /\ WordOf(cmd.addr) \in 0..(RamWords - 1)
                             /\ ~cmd.read => cmd.addr.region = "out"
  BY DEF CoreSends, CoreCmds, Kept, Regions
<1>2. \A cmd \in CpuCmds : /\ cmd.addr.region \in {"weight", "image", "slow"}
                           /\ WordOf(cmd.addr) \in 0..(RamWords - 1)
                           /\ ~cmd.read => cmd.addr.region = "slow"
  BY CpuAssumption
<1>3. NoCmd \notin CoreSends
  BY WordAssumption DEF CoreSends, CoreCmds
<1> QED BY <1>1, <1>2, <1>3, ContentsAre, WordAssumption DEF CommandsFit, SysCmds, Regions

\* An answer is a word or a result, never the absence of one.
LEMMA AnswersSeen ==
  ASSUME NEW cmd \in SysCmds, NEW v, Answered(cmd, v)
  PROVE  /\ v # NoRsp
         /\ cmd.addr.region # "out" => v \in Word
<1>1. cmd.addr.region \in Targets /\ WordOf(cmd.addr) \in 0..(RamWords - 1)
  BY SysFit DEF CommandsFit
<1>2. CASE cmd.addr.region = "out"
  BY <1>2, WordAssumption DEF Answered
<1>3. CASE cmd.addr.region = "slow"
  BY <1>3, ContentsAre DEF Answered, Answer
<1>4. CASE cmd.addr.region \in Kept
  BY <1>1, <1>4, ContentsAre DEF Answered, Answer, Kept
<1> QED BY <1>1, <1>2, <1>3, <1>4, ContentsAre DEF Kept

-----------------------------------------------------------------------------
(* Numbering.                                                               *)

\* Nothing of the core's is on its way when all that was sent is answered.
LEMMA CountsNone ==
  ASSUME NEW ids, Len(ids) \in Nat, NEW nr, NEW m \in Nat, Counts(ids, nr, m, m),
         NEW k \in 1..Len(ids)
  PROVE  ids[k] # "cnn"
<1>1. /\ k \in 1..(Len(ids) + 1) /\ k + 1 \in 1..(Len(ids) + 1)
      /\ 1 \in 1..(Len(ids) + 1) /\ Len(ids) + 1 \in 1..(Len(ids) + 1)
      /\ 1 <= k /\ k + 1 <= Len(ids) + 1
  OBVIOUS
<1>2. m <= nr[k] /\ nr[k + 1] <= m /\ nr[k] \in Nat /\ nr[k + 1] \in Nat
  BY <1>1 DEF Counts
<1>3. nr[k + 1] = nr[k] + (IF ids[k] = "cnn" THEN 1 ELSE 0)
  BY DEF Counts
<1> QED BY <1>2, <1>3

\* A new numbering may begin then.
LEMMA CountsAnew ==
  ASSUME NEW ids, Len(ids) \in Nat, \A k \in 1..Len(ids) : ids[k] # "cnn", NEW m \in Nat
  PROVE  Counts(ids, [k \in 1..(Len(ids) + 1) |-> m], m, m)
BY DEF Counts

\* The numbers move with their entries, and the one that enters gets last.
Renumbered(ids, nr, nr2, d, a, last) ==
  /\ \A k \in 1..(Len(ids) - d) : nr2[k] = nr[k + d]
  /\ a = 1 => nr2[Len(ids) - d + 1] = last

\* What the core has received and sent, after a cycle.
Tallied(ids, d, a, who, first, last, first2, last2) ==
  /\ first2 = first + (IF d = 1 /\ ids[1] = "cnn" THEN 1 ELSE 0)
  /\ last2 = last + (IF a = 1 /\ who = "cnn" THEN 1 ELSE 0)

\* The entry that leaves takes the first number, the one that enters the next.
LEMMA CountsMove ==
  ASSUME NEW ids, NEW ids2, NEW d \in 0..1, NEW a \in 0..1, NEW who,
         Shifts(ids, ids2, d, a, who), NEW nr, NEW first, NEW last, Counts(ids, nr, first, last),
         NEW first2, NEW last2, Tallied(ids, d, a, who, first, last, first2, last2)
  PROVE  \E nr2 : Counts(ids2, nr2, first2, last2) /\ Renumbered(ids, nr, nr2, d, a, last)
<1> DEFINE n == Len(ids) - d
           c == IF a = 1 /\ who = "cnn" THEN 1 ELSE 0
           nr2 == [k \in 1..(n + a + 1) |-> IF k <= n + 1 THEN nr[k + d] ELSE last + c]
<1>1. /\ Len(ids) \in Nat /\ d <= Len(ids) /\ Len(ids2) = Len(ids) - d + a
      /\ \A k \in 1..(Len(ids) - d) : ids2[k] = ids[k + d]
      /\ a = 1 => ids2[Len(ids) - d + 1] = who
  BY DEF Shifts
<1>2. /\ nr[1] = first /\ nr[Len(ids) + 1] = last
      /\ \A k \in 1..(Len(ids) + 1) : nr[k] \in Nat
      /\ \A k \in 1..Len(ids) : nr[k + 1] = nr[k] + (IF ids[k] = "cnn" THEN 1 ELSE 0)
      /\ \A j, k \in 1..(Len(ids) + 1) : j <= k => nr[j] <= nr[k]
  BY DEF Counts
<1>3. /\ n \in Nat /\ n + d = Len(ids) /\ Len(ids2) = n + a
      /\ \A k \in 1..n : ids2[k] = ids[k + d] /\ k + d \in 1..Len(ids)
      /\ a = 1 => ids2[n + 1] = who
  BY <1>1
<1>4. last \in Nat /\ c \in 0..1
  BY <1>1, <1>2
<1>5. \A k \in 1..(n + 1) : k + d \in 1..(Len(ids) + 1) /\ nr2[k] = nr[k + d] /\ nr2[k] \in Nat
  BY <1>1, <1>2, <1>3
<1>6. nr2[n + 1] = last /\ (a = 1 => nr2[n + 2] = last + c)
  BY <1>2, <1>3, <1>5
<1>7. first + (IF d = 1 /\ ids[1] = "cnn" THEN 1 ELSE 0) = nr[1 + d]
  BY <1>1, <1>2
<1> HIDE DEF nr2, n, c
<1>8. nr2[1] = first + (IF d = 1 /\ ids[1] = "cnn" THEN 1 ELSE 0) /\ nr2[n + a + 1] = last + c
  <2>1. nr2[1] = nr[1 + d]
    BY <1>3, <1>5
  <2>2. a = 1 => n + a + 1 = n + 2
    BY <1>3
  <2>3. a = 0 => c = 0 /\ n + a + 1 = n + 1 /\ last + c = last
    BY <1>3, <1>4 DEF c
  <2>4. nr2[n + a + 1] = last + c
    BY <1>6, <2>2, <2>3
  <2> QED BY <1>7, <2>1, <2>4
<1>9. \A k \in 1..(n + a + 1) : nr2[k] \in Nat
  <2>1. \A k \in 1..(n + a + 1) : k \in 1..(n + 1) \/ (a = 1 /\ k = n + 2)
    BY <1>3
  <2> QED BY <1>4, <1>5, <1>6, <2>1
<1>10. \A k \in 1..(n + a) : nr2[k + 1] = nr2[k] + (IF ids2[k] = "cnn" THEN 1 ELSE 0)
  <2> SUFFICES ASSUME NEW k \in 1..(n + a)
               PROVE  nr2[k + 1] = nr2[k] + (IF ids2[k] = "cnn" THEN 1 ELSE 0)
    OBVIOUS
  <2>1. CASE k \in 1..n
    <3>1. k + 1 \in 1..(n + 1) /\ k \in 1..(n + 1) /\ (k + 1) + d = (k + d) + 1
      BY <1>3, <2>1
    <3>2. nr2[k + 1] = nr[(k + d) + 1] /\ nr2[k] = nr[k + d]
      BY <1>5, <3>1
    <3> QED BY <1>2, <1>3, <2>1, <3>2
  <2>2. CASE k \notin 1..n
    <3>1. a = 1 /\ k = n + 1
      BY <1>3, <2>2
    <3>2. k + 1 = n + 2 /\ nr2[k + 1] = last + c /\ nr2[k] = last /\ ids2[k] = who
      BY <1>3, <1>6, <3>1
    <3> QED BY <3>1, <3>2 DEF c
  <2> QED BY <2>1, <2>2
<1>11. \A j, k \in 1..(n + a + 1) : j <= k => nr2[j] <= nr2[k]
  <2> SUFFICES ASSUME NEW j \in 1..(n + a + 1), NEW k \in 1..(n + a + 1), j <= k
               PROVE  nr2[j] <= nr2[k]
    OBVIOUS
  <2>1. CASE k \in 1..(n + 1)
    <3>1. j \in 1..(n + 1) /\ j + d <= k + d
      BY <1>3, <2>1
    <3> QED BY <1>2, <1>5, <2>1, <3>1
  <2>2. CASE k \notin 1..(n + 1)
    <3>1. a = 1 /\ k = n + 2 /\ nr2[k] = last + c
      BY <1>3, <1>6, <2>2
    <3>2. CASE j = k
      BY <1>4, <3>1, <3>2
    <3>3. CASE j # k
      <4>1. j \in 1..(n + 1)
        BY <1>3, <3>1, <3>3
      <4>2. j + d \in 1..(Len(ids) + 1) /\ Len(ids) + 1 \in 1..(Len(ids) + 1)
            /\ j + d <= Len(ids) + 1
        BY <1>1, <1>5, <4>1
      <4>3. nr[j + d] <= nr[Len(ids) + 1]
        BY <1>2, <4>2
      <4> QED BY <1>2, <1>4, <1>5, <3>1, <4>1, <4>2, <4>3
    <3> QED BY <3>2, <3>3
  <2> QED BY <2>1, <2>2
<1>12. Counts(ids2, nr2, first2, last2)
  <2>1. nr2[1] = first2 /\ nr2[n + a + 1] = last2
    BY <1>8 DEF c, Tallied
  <2> QED BY <1>3, <1>9, <1>10, <1>11, <2>1 DEF Counts
<1>13. Renumbered(ids, nr, nr2, d, a, last)
  BY <1>3, <1>5, <1>6 DEF n, Renumbered
<1> QED BY <1>12, <1>13

-----------------------------------------------------------------------------
(* Pressure.                                                                *)

\* The arbiter takes a command whenever the bus has room for it.
LEMMA ReadyIffRoom ==
  ASSUME FabricHolds(SysCmds), Len(rsp_fifo) <= 1
  PROVE  ArbReady <=> Len(cmd_fifo) < FifoDP
<1>1. /\ Len(rspid_fifo) = Len(rsp_fifo) + Len(cmd_fifo) + Busy
      /\ Busy \in 0..1
  BY DEF FabricHolds, OneOwnerPerCommand, InFlight, Busy
<1>2. Len(cmd_fifo) \in Nat /\ Len(rsp_fifo) \in Nat
  BY DEF FabricHolds, InBus, RspIsQueue
<1> QED BY <1>1, <1>2, DepthAssumption, FabricAssumption DEF ArbReady

\* A FIFO in front of a splitter that takes one command at a time.  c = 1 while
\* the CPU's command is in it; h = 1 when that command leaves it, g = 1 when it
\* enters.  Only the CPU's command may be answered in the cycle it leaves.
LEMMA LevelRises ==
  ASSUME NEW len \in Nat, NEW busy \in 0..1, NEW c \in 0..1, NEW dp \in Nat \ {0},
         len <= dp, c <= len,
         NEW a \in 0..1, a = (IF len < dp THEN 1 ELSE 0),
         NEW i \in 0..1, i = (IF len # 0 /\ busy = 0 THEN 1 ELSE 0),
         NEW h \in 0..1, h <= i, h <= c, NEW g \in 0..1, g <= a, g + c <= 1,
         NEW r \in 0..1, r <= busy + h,
         NEW len2, len2 = len - i + a, NEW busy2, busy2 = busy + i - r,
         NEW c2, c2 = c - h + g,
         NEW level, level = 2 * len + busy - c, NEW level2, level2 = 2 * len2 + busy2 - c2,
         NEW full \in BOOLEAN, full <=> len = dp \/ (len = dp - 1 /\ (busy = 1 \/ c = 0)),
         NEW full2 \in BOOLEAN, full2 <=> len2 = dp \/ (len2 = dp - 1 /\ (busy2 = 1 \/ c2 = 0))
  PROVE  /\ level2 >= level \/ full2
         /\ a = 1 /\ g = 0 => level2 >= level + 1 /\ level2 >= 2
         /\ level >= 2 * dp - 1 => full
         /\ full => full2
         /\ a = 1 /\ g = 0 /\ full => len2 = dp \/ (len2 = dp - 1 /\ busy2 = 1)
         /\ a = 1 /\ len = dp - 1 /\ busy = 1 => len2 = dp
<1>1. i = 1 => r <= h /\ busy = 0 /\ len >= 1
  OBVIOUS
<1>2. i = 0 => h = 0 /\ r <= busy /\ (len = 0 \/ busy = 1)
  OBVIOUS
<1>3. level2 = level + 2 * a - i - r + h - g
  OBVIOUS
<1>4. a = 1 /\ g = 0 => level2 >= level + 1 /\ level2 >= 2
  <2>1. i + r - h <= 1
    BY <1>1, <1>2
  <2>2. level >= len
    OBVIOUS
  <2>3. level = 0 => len = 0 /\ busy = 0
    OBVIOUS
  <2>4. level \in Nat
    OBVIOUS
  <2>5. a = 1 /\ g = 0 => level2 >= level + 1
    BY <1>3, <2>1
  <2>6. a = 1 /\ g = 0 /\ level = 0 => level2 >= 2
    BY <1>2, <1>3, <2>3
  <2> QED BY <2>4, <2>5, <2>6, <1>3
<1>5. level >= 2 * dp - 1 => full
  OBVIOUS
<1>6. full => full2
  <2>1. CASE len = dp
    BY <2>1, <1>1, <1>2
  <2>2. CASE len = dp - 1 /\ busy = 1
    BY <2>2, <1>2
  <2>3. CASE len = dp - 1 /\ busy = 0 /\ c = 0
    BY <2>3, <1>1, <1>2
  <2> QED BY <2>1, <2>2, <2>3
<1>7. level2 >= level \/ full2
  <2>1. CASE a = 0
    BY <1>6, <2>1
  <2>2. CASE a = 1
    BY <1>1, <1>2, <1>3, <2>2
  <2> QED BY <2>1, <2>2
<1>8. a = 1 /\ g = 0 /\ full => len2 = dp \/ (len2 = dp - 1 /\ busy2 = 1)
  BY <1>1, <1>2
<1>9. a = 1 /\ len = dp - 1 /\ busy = 1 => len2 = dp
  BY <1>2
<1> QED BY <1>4, <1>5, <1>6, <1>7, <1>8, <1>9

-----------------------------------------------------------------------------
(* A cycle: what the masters offer, and what moves.                         *)

\* What the core offers is the next request of its state.
LEMMA Offers ==
  ASSUME SysInv
  PROVE  /\ CnnCmd \in CoreSends \cup {NoCmd}
         /\ cnn_icb_cmd_valid <=> CnnCmd # NoCmd
         /\ cnn_icb_cmd_valid => IsRequest(current_state, Sent, CnnCmd)
         /\ cnn_icb_cmd_valid /\ current_state = "LOAD_WEIGHT" =>
              ~weight_data_rcpt_done /\ cnn_icb_cmd_read /\ cnn_icb_cmd_addr.region = "weight"
         /\ cnn_icb_cmd_valid /\ current_state = "LOAD_IMAGE" =>
              cnn_icb_cmd_read /\ cnn_icb_cmd_addr.region = "image"
         /\ cnn_icb_cmd_valid /\ current_state = "STORE" => ~cnn_icb_cmd_read
         /\ cnn_icb_cmd_valid => current_state \in {"LOAD_WEIGHT", "LOAD_IMAGE", "STORE"}
<1> USE Sizes
<1>1. /\ cnn_icb_cmd_valid \in BOOLEAN /\ cnn_icb_cmd_read \in BOOLEAN
      /\ current_state \in States /\ cnn_icb_cmd_wdata \in Products
      /\ weight_addr_send_done \in BOOLEAN /\ image_addr_send_done \in BOOLEAN
      /\ store_data_send_cnt \in 0..Words
      /\ NoCmd \notin CoreCmds
  BY WordAssumption DEF SysInv, CoreTypeOk, ArrayTypes, CoreCmds
<1>2. CASE ~cnn_icb_cmd_valid
  BY <1>2 DEF CnnCmd
<1>3. CASE cnn_icb_cmd_valid
  <2>1. CnnCmd = [read |-> cnn_icb_cmd_read, addr |-> cnn_icb_cmd_addr,
                  wdata |-> cnn_icb_cmd_wdata]
    BY <1>3 DEF CnnCmd
  <2>2. current_state \in {"LOAD_WEIGHT", "LOAD_IMAGE", "STORE"}
    BY <1>1, <1>3 DEF SysInv, Resting, States
  <2>3. CASE current_state = "LOAD_WEIGHT"
    <3>1. /\ ~weight_data_rcpt_done
          /\ Reading("weight", weight_addr_send_done, weight_addr_send_cnt,
                     weight_addr_next, reads["weight"])
      BY <1>3, <2>3 DEF SysInv, ReadingWeights
    <3>2. /\ cnn_icb_cmd_read /\ cnn_icb_cmd_addr = At("weight", 4 * reads["weight"])
          /\ reads["weight"] \in 0..Words
      BY <1>3, <3>1 DEF Reading
    <3>3. Sent = reads["weight"]
      BY <2>3, <3>1 DEF Sent
    <3>4. IsRequest(current_state, Sent, CnnCmd)
      BY <2>1, <2>3, <3>2, <3>3 DEF IsRequest
    <3>5. CnnCmd \in CoreSends
      <4>1. 4 * reads["weight"] \in Nat /\ (4 * reads["weight"]) \div 4 = reads["weight"]
        BY <3>2
      <4>2. reads["weight"] \in 0..(RamWords - 1)
        BY <3>2, DepthAssumption, FabricAssumption
      <4>3. CnnCmd \in CoreCmds
        BY <1>1, <2>1, <3>2, <4>1 DEF CoreCmds, At, Regions, Products
      <4>4. CnnCmd.read /\ CnnCmd.addr.region \in Kept /\ WordOf(CnnCmd.addr) = reads["weight"]
        BY <2>1, <3>2, <4>1 DEF At, Kept, WordOf
      <4> QED BY <4>2, <4>3, <4>4 DEF CoreSends
    <3>6. cnn_icb_cmd_addr.region = "weight"
      BY <3>2 DEF At
    <3> QED BY <1>1, <1>3, <2>3, <3>1, <3>2, <3>4, <3>5, <3>6 DEF CoreSends
  <2>4. CASE current_state = "LOAD_IMAGE"
    <3>1. Reading("image", image_addr_send_done, image_addr_send_cnt,
                  image_addr_next, reads["image"])
      BY <1>3, <2>4 DEF SysInv, ReadingImage
    <3>2. /\ cnn_icb_cmd_read /\ cnn_icb_cmd_addr = At("image", 4 * reads["image"])
          /\ reads["image"] \in 0..Words
      BY <1>3, <3>1 DEF Reading
    <3>3. Sent = reads["image"]
      BY <2>4 DEF Sent
    <3>4. IsRequest(current_state, Sent, CnnCmd)
      BY <2>1, <2>4, <3>2, <3>3 DEF IsRequest
    <3>5. CnnCmd \in CoreSends
      <4>1. 4 * reads["image"] \in Nat /\ (4 * reads["image"]) \div 4 = reads["image"]
        BY <3>2
      <4>2. reads["image"] \in 0..(RamWords - 1)
        BY <3>2, DepthAssumption, FabricAssumption
      <4>3. CnnCmd \in CoreCmds
        BY <1>1, <2>1, <3>2, <4>1 DEF CoreCmds, At, Regions, Products
      <4>4. CnnCmd.read /\ CnnCmd.addr.region \in Kept /\ WordOf(CnnCmd.addr) = reads["image"]
        BY <2>1, <3>2, <4>1 DEF At, Kept, WordOf
      <4> QED BY <4>2, <4>3, <4>4 DEF CoreSends
    <3>6. cnn_icb_cmd_addr.region = "image"
      BY <3>2 DEF At
    <3> QED BY <1>1, <1>3, <2>4, <3>2, <3>4, <3>5, <3>6 DEF CoreSends
  <2>5. CASE current_state = "STORE"
    <3>1. /\ ~cnn_icb_cmd_read /\ store_data_send_cnt < Words
          /\ cnn_icb_cmd_addr = At("out", store_data_send_cnt)
      BY <1>3, <2>5 DEF SysInv, CtrlInv, StoreInOrder
    <3>2. CnnCmd.addr.region = "out" /\ ~CnnCmd.read
          /\ WordOf(CnnCmd.addr) = store_data_send_cnt \div 4
      BY <2>1, <3>1 DEF At, WordOf
    <3>3. store_data_send_cnt \div 4 \in 0..(RamWords - 1)
      BY <1>1, <3>1, DepthAssumption, FabricAssumption
    <3>4. CnnCmd \in CoreCmds
      BY <1>1, <2>1, <3>1 DEF CoreCmds, At, Regions, Products
    <3>5. CnnCmd \in CoreSends
      BY <3>2, <3>3, <3>4 DEF CoreSends
    <3>6. IsRequest(current_state, Sent, CnnCmd)
      BY <2>5, <3>2 DEF IsRequest
    <3> QED BY <1>1, <1>3, <2>5, <3>1, <3>4, <3>5, <3>6
  <2> QED BY <2>2, <2>3, <2>4, <2>5
<1> QED BY <1>1, <1>2, <1>3

\* How many entries each stage moves.
Moves(slow, d, a, i, r) ==
  /\ d = (IF Delivers THEN 1 ELSE 0) /\ a = (IF Accepted(cpu_cmd, CnnCmd) THEN 1 ELSE 0)
  /\ i = (IF Issues THEN 1 ELSE 0) /\ r = (IF Returns(slow) THEN 1 ELSE 0)

LEMMA Flows ==
  ASSUME SysInv, NEW slow \in BOOLEAN, FabricClock(cpu_cmd, CnnCmd, slow),
         NEW d \in 0..1, NEW a \in 0..1, NEW i \in 0..1, NEW r \in 0..1, Moves(slow, d, a, i, r)
  PROVE  /\ Shifts(rspid_fifo, rspid_fifo', d, a, Granted(cpu_cmd, CnnCmd))
         /\ Shifts(cmd_fifo, cmd_fifo', i, a, Offered(cpu_cmd, CnnCmd))
         /\ Shifts(rsp_fifo, rsp_fifo', d, r, ReadData(splt_id))
         /\ a = 1 => Offered(cpu_cmd, CnnCmd) \in SysCmds
         /\ Busy \in 0..1 /\ Busy' \in 0..1 /\ Busy' = Busy + i - r
         /\ Started \in Nat /\ Started' \in Nat /\ Started' = Started - d + i
         /\ Len(rspid_fifo) = Started + Len(cmd_fifo)
<1>1. CnnCmd \in SysCmds \cup {NoCmd} /\ cpu_cmd \in SysCmds \cup {NoCmd}
  BY Offers DEF SysCmds, SysInv, SysTypes
<1>2. CommandsFit(SysCmds) /\ FabricHolds(SysCmds) /\ OneAtATime
  BY SysFit DEF SysInv
<1>3. /\ d = (IF Delivers THEN 1 ELSE 0) /\ a = (IF Accepted(cpu_cmd, CnnCmd) THEN 1 ELSE 0)
      /\ i = (IF Issues THEN 1 ELSE 0) /\ r = (IF Returns(slow) THEN 1 ELSE 0)
  BY DEF Moves
<1> QED BY <1>1, <1>2, <1>3, FabricMoves

\* A response is delivered as soon as it is there, and a command accepted
\* whenever there is room.
LEMMA Prompt ==
  ASSUME SysInv, NEW slow \in BOOLEAN, FabricClock(cpu_cmd, CnnCmd, slow),
         NEW d \in 0..1, NEW a \in 0..1, NEW i \in 0..1, NEW r \in 0..1, Moves(slow, d, a, i, r)
  PROVE  /\ d = Len(rsp_fifo) /\ Len(rsp_fifo') <= 1
         /\ a = 1 <=> Len(cmd_fifo) < FifoDP /\ Offered(cpu_cmd, CnnCmd) # NoCmd
         /\ i = 1 <=> Len(cmd_fifo) # 0 /\ Busy = 0
         /\ ArbReady <=> Len(cmd_fifo) < FifoDP
<1>1. /\ FabricHolds(SysCmds) /\ OneAtATime /\ Len(rsp_fifo) <= 1
  BY DEF SysInv
<1>2. PICK S : rsp_fifo \in Seq(S)
  BY <1>1 DEF FabricHolds, RspIsQueue
<1>3. rspid_fifo \in Seq(Masters) /\ cmd_fifo \in Seq(SysCmds)
      /\ splt_id \in Targets \cup {NoTarget} /\ slow_busy \in BOOLEAN
  BY <1>1 DEF FabricHolds, FabricTypeOk, InBus
<1>4. /\ Shifts(rsp_fifo, rsp_fifo', d, r, ReadData(splt_id))
      /\ Len(rspid_fifo) = Started + Len(cmd_fifo) /\ Started \in Nat /\ Busy \in 0..1
  BY Flows
<1>5. Len(rsp_fifo) = 1 => Delivers
  <2>1. Len(rsp_fifo) = 1 => Len(rspid_fifo) >= 1
    <3>1. Started = Len(rsp_fifo) + Busy
      BY DEF Started
    <3>2. Len(cmd_fifo) \in Nat /\ Len(rspid_fifo) = Started + Len(cmd_fifo) /\ Busy \in 0..1
      BY <1>3, <1>4
    <3> QED BY <3>1, <3>2
  <2>2. Len(rsp_fifo) = 1 => rsp_fifo # <<>>
    OBVIOUS
  <2>3. Len(rspid_fifo) >= 1 => rspid_fifo # <<>>
    OBVIOUS
  <2> QED BY <2>1, <2>2, <2>3 DEF Delivers
<1>6. d = Len(rsp_fifo)
  <2>1. Len(rsp_fifo) \in 0..1
    <3>1. Len(rsp_fifo) \in Nat
      BY <1>2
    <3>2. Len(rsp_fifo) <= 1
      BY <1>1
    <3> QED BY <3>1, <3>2
  <2>2. Len(rsp_fifo) = 0 => ~Delivers
    BY <1>2, EmptySeq DEF Delivers
  <2> QED BY <1>5, <2>1, <2>2 DEF Moves
<1>7. Len(rsp_fifo') <= 1
  BY <1>2, <1>4, <1>6 DEF Shifts
<1>8. ArbReady <=> Len(cmd_fifo) < FifoDP
  BY <1>1, ReadyIffRoom
<1>9. a = 1 <=> Len(cmd_fifo) < FifoDP /\ Offered(cpu_cmd, CnnCmd) # NoCmd
  BY <1>8 DEF Moves, Accepted
<1>10. i = 1 <=> Len(cmd_fifo) # 0 /\ Busy = 0
  <2>1. i = 1 <=> Issues
    BY DEF Moves
  <2>2. cmd_fifo # <<>> <=> Len(cmd_fifo) # 0
    BY <1>3, EmptySeq
  <2>3. Busy = 0 <=> splt_id = NoTarget
    BY DEF Busy
  <2>4. cmd_fifo # <<>> /\ splt_id = NoTarget => TargetReady(Head(cmd_fifo).addr.region)
    <3> SUFFICES ASSUME cmd_fifo # <<>>, splt_id = NoTarget
                 PROVE  TargetReady(Head(cmd_fifo).addr.region)
      OBVIOUS
    <3>1. Head(cmd_fifo) \in SysCmds
      BY <1>3
    <3>2. Head(cmd_fifo).addr.region \in Targets /\ NoTarget # "slow"
      BY <3>1, SysFit DEF CommandsFit, Targets
    <3> QED BY <1>1, <3>2 DEF OneAtATime, TargetReady, Targets
  <2> QED BY <2>1, <2>2, <2>3, <2>4 DEF Issues
<1> QED BY <1>6, <1>7, <1>8, <1>9, <1>10

\* What the masters see of it: the core's command is taken, and whose answer
\* is delivered.
LEMMA Seen ==
  ASSUME SysInv, NEW slow \in BOOLEAN, FabricClock(cpu_cmd, CnnCmd, slow),
         NEW d \in 0..1, NEW a \in 0..1, NEW i \in 0..1, NEW r \in 0..1, Moves(slow, d, a, i, r),
         NEW asked, InPlace(asked)
  PROVE  /\ a = 1 /\ Granted(cpu_cmd, CnnCmd) = "cnn" <=> CmdHsk(ready)
         /\ CmdHsk(ready) => cpu_cmd = NoCmd /\ Offered(cpu_cmd, CnnCmd) = CnnCmd
         /\ a = 1 /\ Granted(cpu_cmd, CnnCmd) = "cpu" =>
              cpu_cmd # NoCmd /\ ArbReady /\ Offered(cpu_cmd, CnnCmd) = cpu_cmd
         /\ cpu_cmd # NoCmd => Granted(cpu_cmd, CnnCmd) = "cpu" /\ (ArbReady => a = 1)
         /\ Granted(cpu_cmd, CnnCmd) \in Masters
         /\ \A m \in Masters :
              /\ RspTo(m) # NoRsp <=> d = 1 /\ rspid_fifo[1] = m
              /\ RspTo(m) # NoRsp => RspTo(m) = rsp_fifo[1] /\ Answered(asked[1], rsp_fifo[1])
         /\ d = 1 => rspid_fifo[1] \in Masters /\ asked[1] \in SysCmds
<1>1. a = 1 <=> Accepted(cpu_cmd, CnnCmd)
  BY DEF Moves
<1>2. d = 1 <=> Delivers
  BY DEF Moves
<1>3. cnn_icb_cmd_valid <=> CnnCmd # NoCmd
  BY Offers
<1>4. a = 1 /\ Granted(cpu_cmd, CnnCmd) = "cnn" <=> CmdHsk(ready)
  BY <1>1, <1>3 DEF Accepted, Granted, Offered, CmdHsk, ready, CnnReady
<1>5. CmdHsk(ready) => cpu_cmd = NoCmd /\ Offered(cpu_cmd, CnnCmd) = CnnCmd
  BY DEF CmdHsk, ready, CnnReady, Offered
<1>6. a = 1 /\ Granted(cpu_cmd, CnnCmd) = "cpu" =>
        cpu_cmd # NoCmd /\ ArbReady /\ Offered(cpu_cmd, CnnCmd) = cpu_cmd
  BY <1>1 DEF Accepted, Granted, Offered
<1>7. cpu_cmd # NoCmd => Granted(cpu_cmd, CnnCmd) = "cpu" /\ (ArbReady => a = 1)
  BY <1>1 DEF Accepted, Granted, Offered
<1>8. Granted(cpu_cmd, CnnCmd) \in Masters
  BY DEF Granted, Masters
<1>9. PICK S : rsp_fifo \in Seq(S)
  BY DEF SysInv, FabricHolds, RspIsQueue
<1>10. rspid_fifo \in Seq(Masters) /\ asked \in Seq(SysCmds) /\ Len(asked) = Len(rspid_fifo)
  BY DEF SysInv, FabricHolds, FabricTypeOk, InPlace
<1>11. d = 1 => /\ 1 \in 1..Len(rsp_fifo) /\ 1 \in 1..Len(rspid_fifo)
                /\ Head(rsp_fifo) = rsp_fifo[1] /\ Head(rspid_fifo) = rspid_fifo[1]
  BY <1>2, <1>9, <1>10, EmptySeq DEF Delivers
<1>12. d = 1 => rspid_fifo[1] \in Masters /\ asked[1] \in SysCmds
  BY <1>10, <1>11
<1>13. d = 1 => Answered(asked[1], rsp_fifo[1]) /\ rsp_fifo[1] # NoRsp
  BY <1>11, <1>12, AnswersSeen DEF InPlace
<1>14. ASSUME NEW m \in Masters
       PROVE  /\ RspTo(m) # NoRsp <=> d = 1 /\ rspid_fifo[1] = m
              /\ RspTo(m) # NoRsp => RspTo(m) = rsp_fifo[1] /\ Answered(asked[1], rsp_fifo[1])
  BY <1>2, <1>11, <1>13 DEF RspTo
<1> QED BY <1>4, <1>5, <1>6, <1>7, <1>8, <1>12, <1>14

\* The memories keep the matrices.
LEMMA MemKeptStep ==
  ASSUME SysInv, NEW slow \in BOOLEAN, FabricClock(cpu_cmd, CnnCmd, slow)
  PROVE  /\ MemKept'
         /\ ~Issues => \A t \in Rams, w \in 0..(RamWords - 1) : mem_r'[t][w] = mem_r[t][w]
<1>1. /\ \A t \in Rams, w \in 0..(RamWords - 1) :
              mem_r'[t][w] = IF Issues /\ WritesWord(Head(cmd_fifo), t, w)
                             THEN Head(cmd_fifo).wdata ELSE mem_r[t][w]
      /\ Issues => Head(cmd_fifo) \in SysCmds
  BY MemoryStep, SysFit DEF SysInv
<1>2. ASSUME NEW w \in 0..(RamWords - 1), NEW t \in Kept PROVE mem_r'[t][w] = Contents[t][w]
  <2>1. ~(Issues /\ WritesWord(Head(cmd_fifo), t, w))
    BY <1>1, SysFit DEF WritesWord, Kept
  <2> QED BY <1>1, <2>1, ContentsAre DEF Kept, SysInv, MemKept
<1>3. ASSUME NEW w \in 0..(RamWords - 1) PROVE mem_r'["out"][w] \in Seq(Word \X Word)
  <2>1. CASE Issues /\ WritesWord(Head(cmd_fifo), "out", w)
    <3>1. Head(cmd_fifo).addr.region = "out" /\ ~Head(cmd_fifo).read
      BY <2>1 DEF WritesWord
    <3>2. Head(cmd_fifo) \in CoreSends
      BY <1>1, <2>1, <3>1, CpuAssumption DEF SysCmds
    <3>3. Head(cmd_fifo).wdata \in Seq(Word \X Word)
      BY <3>2 DEF CoreSends, CoreCmds
    <3> QED BY <1>1, <2>1, <3>3, ContentsAre
  <2>2. CASE ~(Issues /\ WritesWord(Head(cmd_fifo), "out", w))
    BY <1>1, <2>2, ContentsAre DEF SysInv, MemKept
  <2> QED BY <2>1, <2>2
<1> QED BY <1>1, <1>2, <1>3 DEF MemKept

\* The queue of commands after a cycle in which d leave it and a enter it.
Follows(asked, asked2, d, a) ==
  /\ \A k \in 1..(Len(rspid_fifo) - d) : asked2[k] = asked[k + d]
  /\ a = 1 => asked2[Len(rspid_fifo) - d + 1] = Offered(cpu_cmd, CnnCmd)

\* The commands on their way stay in order, and get what is theirs.
LEMMA InPlaceStep ==
  ASSUME SysInv, FabricHolds(SysCmds)', NEW slow \in BOOLEAN,
         FabricClock(cpu_cmd, CnnCmd, slow),
         NEW d \in 0..1, NEW a \in 0..1, NEW i \in 0..1, NEW r \in 0..1, Moves(slow, d, a, i, r),
         NEW asked, InPlace(asked),
         NEW asked2, asked2 = After(asked, d, a, Offered(cpu_cmd, CnnCmd))
  PROVE  InPlace(asked2)' /\ Follows(asked, asked2, d, a)
<1> DEFINE cmd == Offered(cpu_cmd, CnnCmd)
<1>1. /\ Shifts(rspid_fifo, rspid_fifo', d, a, Granted(cpu_cmd, CnnCmd))
      /\ Shifts(cmd_fifo, cmd_fifo', i, a, cmd)
      /\ Shifts(rsp_fifo, rsp_fifo', d, r, ReadData(splt_id))
      /\ a = 1 => cmd \in SysCmds
      /\ Busy \in 0..1 /\ Busy' = Busy + i - r
      /\ Started \in Nat /\ Started' \in Nat /\ Started' = Started - d + i
      /\ Len(rspid_fifo) = Started + Len(cmd_fifo)
  BY Flows
<1>2. /\ asked \in Seq(SysCmds) /\ Len(asked) = Len(rspid_fifo)
      /\ \A k \in 1..Len(rsp_fifo) : Answered(asked[k], rsp_fifo[k])
      /\ splt_id # NoTarget => Answered(asked[Started], ReadData(splt_id))
      /\ \A n \in 1..Len(cmd_fifo) : cmd_fifo[n] = asked[Started + n]
  BY DEF InPlace
<1>3. /\ Len(rspid_fifo) \in Nat /\ d <= Len(rspid_fifo) /\ Len(rspid_fifo') = Len(rspid_fifo) - d + a
      /\ Len(cmd_fifo) \in Nat /\ i <= Len(cmd_fifo) /\ Len(cmd_fifo') = Len(cmd_fifo) - i + a
      /\ \A k \in 1..(Len(cmd_fifo) - i) : cmd_fifo'[k] = cmd_fifo[k + i]
      /\ a = 1 => cmd_fifo'[Len(cmd_fifo) - i + 1] = cmd
      /\ Len(rsp_fifo) \in Nat /\ d <= Len(rsp_fifo) /\ Len(rsp_fifo') = Len(rsp_fifo) - d + r
      /\ \A k \in 1..(Len(rsp_fifo) - d) : rsp_fifo'[k] = rsp_fifo[k + d]
      /\ r = 1 => rsp_fifo'[Len(rsp_fifo) - d + 1] = ReadData(splt_id)
  BY <1>1 DEF Shifts
<1> HIDE DEF cmd
<1>4. /\ asked2 \in Seq(SysCmds) /\ Len(asked2) = Len(rspid_fifo')
      /\ \A k \in 1..(Len(rspid_fifo) - d) : asked2[k] = asked[k + d]
      /\ a = 1 => asked2[Len(rspid_fifo) - d + 1] = cmd
  <2>0. /\ asked \in Seq(SysCmds) /\ d <= Len(asked) /\ (a = 1 => cmd \in SysCmds)
        /\ asked2 = After(asked, d, a, cmd)
    BY <1>1, <1>2, <1>3 DEF cmd
  <2>1. asked2 \in Seq(SysCmds)
    BY <2>0, AfterType
  <2>2. /\ Len(asked2) = Len(asked) - d + a
        /\ \A k \in 1..(Len(asked) - d) : asked2[k] = asked[k + d]
        /\ a = 1 => asked2[Len(asked) - d + 1] = cmd
    BY <2>0, AfterPlaces, SMTT(30)
  <2> QED BY <1>2, <1>3, <2>1, <2>2
<1>5. /\ MemKept'
      /\ ~Issues => \A t \in Rams, w \in 0..(RamWords - 1) : mem_r'[t][w] = mem_r[t][w]
  BY MemKeptStep
<1>6. /\ \A t \in Rams :
             addr_r'[t] = IF IssuedTo(t) /\ Head(cmd_fifo).read
                          THEN WordOf(Head(cmd_fifo).addr) ELSE addr_r[t]
      /\ Issues => splt_id = NoTarget /\ Head(cmd_fifo) \in SysCmds /\ cmd_fifo # <<>>
      /\ Issues /\ Returns(slow) => Head(cmd_fifo).addr.region = "slow"
      /\ splt_id' = IF Returns(slow) THEN NoTarget
                    ELSE IF Issues THEN Head(cmd_fifo).addr.region ELSE splt_id
  BY MemoryStep, SysFit DEF SysInv
<1>7. (i = 1 <=> Issues) /\ (r = 1 <=> Returns(slow))
      /\ (Returns(slow) => splt_id # NoTarget \/ Issues)
  BY DEF Moves, Returns, AtOnce, IssuedTo
<1>8. Started = Len(rsp_fifo) + Busy /\ (splt_id # NoTarget => Busy = 1)
  BY DEF Started, Busy
<1>8a. /\ Len(rsp_fifo) \in Nat /\ Len(cmd_fifo) \in Nat /\ Len(rspid_fifo) \in Nat
       /\ Busy \in 0..1 /\ Started \in Nat
       /\ Len(rspid_fifo) = Started + Len(cmd_fifo) /\ Started = Len(rsp_fifo) + Busy
       /\ i <= Len(cmd_fifo) /\ Started' \in Nat /\ Started' = Started - d + i
  BY <1>1, <1>3, <1>8
<1>9. ASSUME NEW k \in 1..Len(rsp_fifo') PROVE Answered(asked2[k], rsp_fifo'[k])
  <2>1. CASE k \in 1..(Len(rsp_fifo) - d)
    <3>1. k + d \in 1..Len(rsp_fifo) /\ k \in 1..(Len(rspid_fifo) - d)
      BY <1>8a, <2>1
    <3> QED BY <1>2, <1>3, <1>4, <2>1, <3>1
  <2>2. CASE k \notin 1..(Len(rsp_fifo) - d)
    <3>1. r = 1 /\ k = Len(rsp_fifo) - d + 1
      BY <1>3, <2>2
    <3>2. CASE splt_id # NoTarget
      <4>1. k + d = Started /\ k \in 1..(Len(rspid_fifo) - d)
        BY <1>3, <1>8, <1>8a, <3>1, <3>2
      <4> QED BY <1>2, <1>3, <1>4, <3>1, <3>2, <4>1
    \* A slow slave answers the command that the splitter issues.
    <3>3. CASE splt_id = NoTarget
      <4>1. i = 1 /\ Busy = 0 /\ Head(cmd_fifo).addr.region = "slow"
        BY <1>6, <1>7, <3>1, <3>3 DEF Busy
      <4>2. cmd_fifo \in Seq(SysCmds)
        BY DEF SysInv, FabricHolds, InBus
      <4>3. 1 \in 1..Len(cmd_fifo) /\ Head(cmd_fifo) = asked[Started + 1]
        BY <1>2, <1>3, <4>1, <4>2
      <4>4. k + d = Started + 1 /\ k \in 1..(Len(rspid_fifo) - d)
        BY <1>3, <1>8a, <3>1, <4>1
      <4>5. asked2[k] = Head(cmd_fifo)
        BY <1>4, <4>3, <4>4
      <4>6. rsp_fifo'[k] = <<"slow", 0>>
        BY <1>3, <3>1, <3>3, ContentsAre, WordAssumption DEF ReadData
      <4> QED BY <4>1, <4>5, <4>6 DEF Answered, Answer
    <3> QED BY <3>2, <3>3
  <2> QED BY <2>1, <2>2
<1>10. splt_id' # NoTarget => Answered(asked2[Started'], ReadData(splt_id)')
  <2>1. CASE Issues /\ ~Returns(slow)
    <3> DEFINE first == Head(cmd_fifo)
               t == first.addr.region
               w == WordOf(first.addr)
    <3>1. i = 1 /\ Busy = 0 /\ 1 \in 1..Len(cmd_fifo) /\ first = cmd_fifo[1]
      <4>1. cmd_fifo \in Seq(SysCmds)
        BY DEF SysInv, FabricHolds, InBus
      <4>2. i = 1 /\ Busy = 0
        BY <1>6, <1>7, <2>1 DEF Busy
      <4> QED BY <1>3, <1>6, <2>1, <4>1, <4>2
    <3>2. asked2[Started'] = first
      <4>1. Started' \in 1..(Len(rspid_fifo) - d) /\ Started' + d = Started + 1
        BY <1>1, <1>3, <1>8, <3>1
      <4> QED BY <1>2, <1>4, <3>1, <4>1
    <3>3. first \in SysCmds /\ t \in Targets /\ w \in 0..(RamWords - 1) /\ splt_id' = t
      BY <1>6, <2>1, SysFit DEF CommandsFit
    <3>4. CASE t = "slow"
      BY <3>2, <3>3, <3>4, FabricAssumption DEF ReadData, Answered, Answer
    <3>5. CASE t \in Kept
      <4>1. first.read
        BY <3>3, <3>5, SysFit DEF Kept
      <4>2. addr_r'[t] = w
        BY <1>6, <2>1, <3>3, <3>5, <4>1, ContentsAre DEF IssuedTo, Kept
      <4>3. mem_r'[t][w] = Contents[t][w]
        BY <1>5, <3>3, <3>5 DEF MemKept
      <4>4. ReadData(splt_id)' = Contents[t][w] /\ t # "out" /\ t # "slow"
        BY <3>3, <3>5, <4>2, <4>3, ContentsAre DEF ReadData, Kept
      <4> QED BY <3>2, <4>4 DEF Answered, Answer
    <3>6. CASE t = "out"
      <4>1. addr_r'["out"] \in 0..(RamWords - 1)
        BY ContentsAre DEF FabricHolds, FabricTypeOk
      <4>2. ReadData(splt_id)' \in Seq(Word \X Word)
        BY <1>5, <3>3, <3>6, <4>1, ContentsAre DEF ReadData, MemKept
      <4> QED BY <3>2, <3>6, <4>2 DEF Answered
    <3> QED BY <3>3, <3>4, <3>5, <3>6, ContentsAre DEF Kept
  <2>2. CASE ~Issues /\ ~Returns(slow)
    <3>1. splt_id' = splt_id /\ i = 0
      BY <1>6, <1>7, <2>2
    <3> SUFFICES ASSUME splt_id # NoTarget PROVE Answered(asked2[Started'], ReadData(splt_id)')
      BY <3>1
    <3>2. Started' \in 1..(Len(rspid_fifo) - d) /\ Started' + d = Started
      BY <1>1, <1>3, <1>8, <3>1
    <3>3. asked2[Started'] = asked[Started]
      BY <1>4, <3>2
    <3>4. ReadData(splt_id)' = ReadData(splt_id)
      <4>1. splt_id \in Rams => /\ addr_r'[splt_id] = addr_r[splt_id]
                                /\ addr_r[splt_id] \in 0..(RamWords - 1)
        BY <1>6, <2>2 DEF IssuedTo, SysInv, FabricHolds, FabricTypeOk
      <4> QED BY <1>5, <2>2, <3>1, <4>1 DEF ReadData
    <3> QED BY <1>2, <3>3, <3>4
  <2>3. CASE Returns(slow)
    BY <1>6, <2>3
  <2> QED BY <2>1, <2>2, <2>3
<1>11. ASSUME NEW n \in 1..Len(cmd_fifo') PROVE cmd_fifo'[n] = asked2[Started' + n]
  <2>1. CASE n \in 1..(Len(cmd_fifo) - i)
    <3>1. n + i \in 1..Len(cmd_fifo) /\ cmd_fifo'[n] = cmd_fifo[n + i]
      BY <1>3, <2>1
    <3>2. Started' + n \in 1..(Len(rspid_fifo) - d) /\ (Started' + n) + d = Started + (n + i)
      BY <1>1, <1>3, <2>1
    <3> QED BY <1>2, <1>4, <3>1, <3>2
  <2>2. CASE n \notin 1..(Len(cmd_fifo) - i)
    <3>1. a = 1 /\ n = Len(cmd_fifo) - i + 1
      BY <1>3, <2>2
    <3>2. Started' + n = Len(rspid_fifo) - d + 1
      BY <1>8a, <3>1
    <3> QED BY <1>3, <1>4, <3>1, <3>2
  <2> QED BY <2>1, <2>2
<1>12. InPlace(asked2)'
  BY <1>4, <1>9, <1>10, <1>11 DEF InPlace
<1> QED BY <1>4, <1>12 DEF cmd, Follows


\* The CPU waits for the one command it has on the way.
LEMMA OfCpuStep ==
  ASSUME SysInv, NEW slow \in BOOLEAN, Clock(slow),
         NEW d \in 0..1, NEW a \in 0..1, NEW i \in 0..1, NEW r \in 0..1, Moves(slow, d, a, i, r),
         NEW asked, InPlace(asked), OfCpu(asked), NEW asked2, Follows(asked, asked2, d, a)
  PROVE  /\ OfCpu(asked2)'
         /\ cpu_cmd' \in CpuCmds \cup {NoCmd} /\ cpu_wait' \in CpuCmds \cup {NoCmd}
<1> DEFINE n == Len(rspid_fifo) - d
<1>1. FabricClock(cpu_cmd, CnnCmd, slow) /\ Cpu
  BY DEF Clock
<1>2. /\ n \in Nat /\ Len(rspid_fifo) = n + d /\ Len(rspid_fifo') = n + a
      /\ \A k \in 1..n : /\ k + d \in 1..Len(rspid_fifo)
                         /\ rspid_fifo'[k] = rspid_fifo[k + d] /\ asked2[k] = asked[k + d]
      /\ a = 1 => /\ rspid_fifo'[n + 1] = Granted(cpu_cmd, CnnCmd)
                  /\ asked2[n + 1] = Offered(cpu_cmd, CnnCmd)
  <2>1. Shifts(rspid_fifo, rspid_fifo', d, a, Granted(cpu_cmd, CnnCmd))
    BY <1>1, Flows
  <2>2. /\ Len(rspid_fifo) \in Nat /\ d <= Len(rspid_fifo) /\ Len(rspid_fifo') = n + a
        /\ \A k \in 1..n : rspid_fifo'[k] = rspid_fifo[k + d] /\ asked2[k] = asked[k + d]
        /\ a = 1 => /\ rspid_fifo'[n + 1] = Granted(cpu_cmd, CnnCmd)
                    /\ asked2[n + 1] = Offered(cpu_cmd, CnnCmd)
    BY <2>1 DEF Shifts, Follows
  <2>3. n \in Nat /\ Len(rspid_fifo) = n + d /\ \A k \in 1..n : k + d \in 1..Len(rspid_fifo)
    BY <2>2
  <2> QED BY <2>2, <2>3
<1> HIDE DEF n
<1>3. \A k \in 1..Len(rspid_fifo') : k \in 1..n \/ (a = 1 /\ k = n + 1)
  BY <1>2
<1>4. /\ a = 1 /\ Granted(cpu_cmd, CnnCmd) = "cpu" =>
           cpu_cmd # NoCmd /\ ArbReady /\ Offered(cpu_cmd, CnnCmd) = cpu_cmd
      /\ cpu_cmd # NoCmd => Granted(cpu_cmd, CnnCmd) = "cpu" /\ (ArbReady => a = 1)
      /\ RspTo("cpu") # NoRsp => d = 1 /\ rspid_fifo[1] = "cpu"
  BY <1>1, Seen DEF Masters
<1>5. /\ \A k \in 1..Len(rspid_fifo) :
           rspid_fifo[k] = "cpu" => cpu_cmd = NoCmd /\ cpu_wait # NoCmd /\ asked[k] = cpu_wait
      /\ \A j, k \in 1..Len(rspid_fifo) :
           rspid_fifo[j] = "cpu" /\ rspid_fifo[k] = "cpu" => j = k
  BY DEF OfCpu
<1>6. /\ cpu_cmd # NoCmd /\ ArbReady => cpu_cmd' = NoCmd /\ cpu_wait' = cpu_cmd
      /\ cpu_cmd # NoCmd /\ ~ArbReady => cpu_cmd' = cpu_cmd /\ cpu_wait' = cpu_cmd
      /\ cpu_cmd = NoCmd /\ cpu_wait # NoCmd => cpu_cmd' = NoCmd
      /\ cpu_cmd = NoCmd => cpu_wait' = IF RspTo("cpu") # NoRsp THEN NoCmd ELSE cpu_wait
      /\ cpu_cmd = NoCmd => cpu_cmd' \in CpuCmds \cup {NoCmd}
  BY <1>1 DEF Cpu, CpuReady
<1>7. cpu_cmd' \in CpuCmds \cup {NoCmd} /\ cpu_wait' \in CpuCmds \cup {NoCmd}
  BY <1>6 DEF SysInv, SysTypes
<1>8. CASE cpu_cmd # NoCmd
  <2>1. \A k \in 1..n : rspid_fifo'[k] # "cpu"
    BY <1>2, <1>5, <1>8
  <2>2. a = 1 => ArbReady /\ Offered(cpu_cmd, CnnCmd) = cpu_cmd
    BY <1>4, <1>8
  <2>3. \A k \in 1..Len(rspid_fifo') : rspid_fifo'[k] = "cpu" => a = 1 /\ k = n + 1
    BY <1>3, <2>1
  <2>4. a = 1 => cpu_cmd' = NoCmd /\ cpu_wait' = cpu_cmd /\ asked2[n + 1] = cpu_cmd
    BY <1>2, <1>6, <1>8, <2>2
  <2>5. OfCpu(asked2)'
    BY <1>8, <2>3, <2>4 DEF OfCpu
  <2> QED BY <1>7, <2>5
<1>9. CASE cpu_cmd = NoCmd
  <2>1. a = 1 => rspid_fifo'[n + 1] # "cpu"
    BY <1>2, <1>4, <1>9
  <2>2. \A k \in 1..Len(rspid_fifo') : rspid_fifo'[k] = "cpu" => k \in 1..n
    BY <1>3, <2>1
  <2>3. ASSUME NEW k \in 1..Len(rspid_fifo'), rspid_fifo'[k] = "cpu"
        PROVE  cpu_cmd' = NoCmd /\ cpu_wait' # NoCmd /\ asked2[k] = cpu_wait'
    <3>1. /\ k \in 1..n /\ k + d \in 1..Len(rspid_fifo) /\ rspid_fifo[k + d] = "cpu"
          /\ asked2[k] = asked[k + d]
      BY <1>2, <2>2, <2>3
    <3>2. cpu_wait # NoCmd /\ asked[k + d] = cpu_wait
      BY <1>5, <3>1
    <3>3. RspTo("cpu") = NoRsp
      <4> SUFFICES ASSUME d = 1, rspid_fifo[1] = "cpu" PROVE FALSE
        BY <1>4
      <4>1. 1 \in 1..Len(rspid_fifo)
        BY <1>2
      <4>2. k + d = 1
        BY <1>5, <3>1, <4>1
      <4> QED BY <3>1, <4>2
    <3> QED BY <1>6, <1>9, <3>1, <3>2, <3>3
  <2>4. ASSUME NEW j \in 1..Len(rspid_fifo'), NEW k \in 1..Len(rspid_fifo'),
               rspid_fifo'[j] = "cpu", rspid_fifo'[k] = "cpu"
        PROVE  j = k
    <3>1. /\ j \in 1..n /\ j + d \in 1..Len(rspid_fifo) /\ rspid_fifo[j + d] = "cpu"
          /\ k \in 1..n /\ k + d \in 1..Len(rspid_fifo) /\ rspid_fifo[k + d] = "cpu"
      BY <1>2, <2>2, <2>4
    <3>2. j + d = k + d
      BY <1>5, <3>1
    <3> QED BY <3>1, <3>2
  <2> QED BY <1>7, <2>3, <2>4 DEF OfCpu
<1> QED BY <1>8, <1>9

\* The core's state goes on with its transfer, or begins another when all it
\* sent is answered.
GoesOn == /\ current_state' = current_state
          /\ Received' = Received + (IF RspTo("cnn") # NoRsp THEN 1 ELSE 0)
          /\ Sent' = Sent + (IF CmdHsk(ready) THEN 1 ELSE 0)
BeginsAnew == /\ Received = Sent /\ Received \in Nat /\ ~cnn_icb_cmd_valid
              /\ Received' = Sent' /\ Received' \in Nat

LEMMA OfCoreStep ==
  ASSUME SysInv, NEW slow \in BOOLEAN, FabricClock(cpu_cmd, CnnCmd, slow),
         NEW d \in 0..1, NEW a \in 0..1, NEW i \in 0..1, NEW r \in 0..1, Moves(slow, d, a, i, r),
         NEW asked, InPlace(asked), NEW nr, OfCore(asked, nr), GoesOn \/ BeginsAnew, NEW asked2, Follows(asked, asked2, d, a)
  PROVE  \E nr2 : OfCore(asked2, nr2)'
<1> DEFINE n == Len(rspid_fifo) - d
           who == Granted(cpu_cmd, CnnCmd)
<1>1. Shifts(rspid_fifo, rspid_fifo', d, a, who)
  BY Flows
<1>2. /\ n \in Nat /\ Len(rspid_fifo) = n + d /\ Len(rspid_fifo') = n + a
      /\ Len(rspid_fifo) \in Nat
      /\ \A k \in 1..n : k + d \in 1..Len(rspid_fifo) /\ rspid_fifo'[k] = rspid_fifo[k + d]
      /\ a = 1 => rspid_fifo'[n + 1] = who
  BY <1>1 DEF Shifts
<1>3. /\ a = 1 /\ who = "cnn" <=> CmdHsk(ready)
      /\ CmdHsk(ready) => Offered(cpu_cmd, CnnCmd) = CnnCmd /\ cnn_icb_cmd_valid
      /\ RspTo("cnn") # NoRsp <=> d = 1 /\ rspid_fifo[1] = "cnn"
  BY Seen DEF Masters, CmdHsk
<1>4. /\ Counts(rspid_fifo, nr, Received, Sent)
      /\ \A k \in 1..Len(rspid_fifo) :
           rspid_fifo[k] = "cnn" => IsRequest(current_state, nr[k], asked[k])
  BY DEF OfCore
<1>5. cnn_icb_cmd_valid => IsRequest(current_state, Sent, CnnCmd)
  BY Offers
<1> HIDE DEF n, who
<1>6. \A k \in 1..Len(rspid_fifo') : k \in 1..n \/ (a = 1 /\ k = n + 1)
  BY <1>2
<1>7. CASE GoesOn
  <2>1. Tallied(rspid_fifo, d, a, who, Received, Sent, Received', Sent')
    BY <1>3, <1>7 DEF GoesOn, Tallied
  <2>2. PICK nr2 : /\ Counts(rspid_fifo', nr2, Received', Sent')
                   /\ Renumbered(rspid_fifo, nr, nr2, d, a, Sent)
    BY <1>1, <1>4, <2>1, CountsMove
  <2>3. ASSUME NEW k \in 1..Len(rspid_fifo'), rspid_fifo'[k] = "cnn"
        PROVE  IsRequest(current_state, nr2[k], asked2[k])
    <3>1. CASE k \in 1..n
      <4>1. /\ k + d \in 1..Len(rspid_fifo) /\ rspid_fifo[k + d] = "cnn"
            /\ asked2[k] = asked[k + d] /\ nr2[k] = nr[k + d]
        BY <1>2, <2>2, <2>3, <3>1 DEF n, Follows, Renumbered
      <4> QED BY <1>4, <4>1
    <3>2. CASE k \notin 1..n
      <4>1. a = 1 /\ k = n + 1 /\ who = "cnn"
        BY <1>2, <1>6, <2>3, <3>2
      <4>2. asked2[k] = CnnCmd /\ nr2[k] = Sent /\ cnn_icb_cmd_valid
        BY <1>3, <2>2, <4>1 DEF n, Follows, Renumbered
      <4> QED BY <1>5, <4>2
    <3> QED BY <3>1, <3>2
  <2>5. \A k \in 1..Len(rspid_fifo') :
          rspid_fifo'[k] = "cnn" => IsRequest(current_state', nr2[k], asked2[k])
    BY <1>7, <2>3 DEF GoesOn
  <2>6. OfCore(asked2, nr2)'
    BY <2>2, <2>5 DEF OfCore, Counts, IsRequest, At
  <2> QED BY <2>6
<1>8. CASE BeginsAnew
  <2>1. \A k \in 1..Len(rspid_fifo) : rspid_fifo[k] # "cnn"
    BY <1>2, <1>4, <1>8, CountsNone DEF BeginsAnew
  <2>2. ~(a = 1 /\ who = "cnn")
    BY <1>3, <1>8 DEF BeginsAnew
  <2>3. \A k \in 1..Len(rspid_fifo') : rspid_fifo'[k] # "cnn"
    BY <1>2, <1>6, <2>1, <2>2
  <2>4. PICK m \in Nat : Received' = m /\ Sent' = m
    BY <1>8 DEF BeginsAnew
  <2> DEFINE nr2 == [k \in 1..(Len(rspid_fifo') + 1) |-> m]
  <2>5. Len(rspid_fifo') \in Nat
    BY <1>2
  <2>6. Counts(rspid_fifo', nr2, m, m)
    BY <2>3, <2>5, CountsAnew
  <2>7. PICK nr3 : Counts(rspid_fifo', nr3, m, m)
    BY <2>6
  <2>8. OfCore(asked2, nr3)'
    BY <2>3, <2>4, <2>7 DEF OfCore, Counts
  <2> QED BY <2>8
<1> QED BY <1>7, <1>8

\* What is on its way after a cycle.
LEMMA TrafficStep ==
  ASSUME SysInv, FabricHolds(SysCmds)', NEW slow \in BOOLEAN, Clock(slow), GoesOn \/ BeginsAnew
  PROVE  /\ Traffic'
         /\ cpu_cmd' \in CpuCmds \cup {NoCmd} /\ cpu_wait' \in CpuCmds \cup {NoCmd}
<1>1. FabricClock(cpu_cmd, CnnCmd, slow)
  BY DEF Clock
<1>2. PICK asked, nr : InPlace(asked) /\ OfCpu(asked) /\ OfCore(asked, nr)
  BY DEF SysInv, Traffic
<1>3. \E d, a, i, r \in 0..1 : Moves(slow, d, a, i, r)
  BY DEF Moves
<1>4. PICK d \in 0..1, a \in 0..1, i \in 0..1, r \in 0..1 : Moves(slow, d, a, i, r)
  BY <1>3
<1>5. PICK asked2 : asked2 = After(asked, d, a, Offered(cpu_cmd, CnnCmd))
  OBVIOUS
<1>6. InPlace(asked2)' /\ Follows(asked, asked2, d, a)
  BY <1>1, <1>2, <1>4, <1>5, InPlaceStep
<1>7. /\ OfCpu(asked2)'
      /\ cpu_cmd' \in CpuCmds \cup {NoCmd} /\ cpu_wait' \in CpuCmds \cup {NoCmd}
  BY <1>2, <1>4, <1>6, OfCpuStep
<1>8. PICK nr2 : OfCore(asked2, nr2)'
  BY <1>1, <1>2, <1>4, <1>6, OfCoreStep
<1> QED BY <1>6, <1>7, <1>8 DEF Traffic


-----------------------------------------------------------------------------
(* The core, state by state.                                                *)

LEMMA Larger == Words \in Nat /\ Words >= 4 /\ LastWord = Words - 1 /\ LastWord >= 3
<1>1. Side \in Nat /\ Side >= 2
  BY SideAssumption, CoreAssumption
<1>2. Side * Side >= 4
  BY <1>1, SMT
<1> QED BY <1>1, <1>2, SMT DEF Words, LastWord

\* The place of the CPU's command in the command FIFO after a cycle: h = 1 when
\* it leaves, g = 1 when it enters.  Only it is answered in the cycle it leaves.
LEMMA CpuInQueue ==
  ASSUME SysInv, NEW slow \in BOOLEAN, FabricClock(cpu_cmd, CnnCmd, slow),
         NEW d \in 0..1, NEW a \in 0..1, NEW i \in 0..1, NEW r \in 0..1, Moves(slow, d, a, i, r),
         NEW c \in 0..1, c = (IF CpuQueues THEN 1 ELSE 0),
         NEW g \in 0..1, g = (IF a = 1 /\ Granted(cpu_cmd, CnnCmd) = "cpu" THEN 1 ELSE 0),
         NEW h \in 0..1, h = (IF i = 1 /\ rspid_fifo[Started + 1] = "cpu" THEN 1 ELSE 0)
  PROVE  /\ (IF CpuQueues' THEN 1 ELSE 0) = c - h + g
         /\ h <= i /\ h <= c /\ g <= a /\ g + c <= 1 /\ c <= Len(cmd_fifo)
         /\ r <= Busy + h
<1>1. PICK asked, nr : InPlace(asked) /\ OfCpu(asked) /\ OfCore(asked, nr)
  BY DEF SysInv, Traffic
<1>2. /\ Shifts(rspid_fifo, rspid_fifo', d, a, Granted(cpu_cmd, CnnCmd))
      /\ Shifts(cmd_fifo, cmd_fifo', i, a, Offered(cpu_cmd, CnnCmd))
      /\ Started \in Nat /\ Started' = Started - d + i /\ Started' \in Nat
      /\ Len(rspid_fifo) = Started + Len(cmd_fifo) /\ Busy \in 0..1
  BY Flows
<1>3. /\ Len(cmd_fifo) \in Nat /\ i <= Len(cmd_fifo) /\ Len(cmd_fifo') = Len(cmd_fifo) - i + a
      /\ \A k \in 1..(Len(rspid_fifo) - d) : rspid_fifo'[k] = rspid_fifo[k + d]
      /\ a = 1 => rspid_fifo'[Len(rspid_fifo) - d + 1] = Granted(cpu_cmd, CnnCmd)
  BY <1>2 DEF Shifts
<1>4. \A n \in 1..(Len(cmd_fifo) - i) : rspid_fifo'[Started' + n] = rspid_fifo[Started + (n + i)]
  <2> SUFFICES ASSUME NEW n \in 1..(Len(cmd_fifo) - i)
               PROVE  rspid_fifo'[Started' + n] = rspid_fifo[Started + (n + i)]
    OBVIOUS
  <2>1. Started' + n \in 1..(Len(rspid_fifo) - d) /\ (Started' + n) + d = Started + (n + i)
    BY <1>2, <1>3
  <2> QED BY <1>3, <2>1
<1>5. a = 1 => rspid_fifo'[Started' + (Len(cmd_fifo) - i + 1)] = Granted(cpu_cmd, CnnCmd)
  <2>1. Started' + (Len(cmd_fifo) - i + 1) = Len(rspid_fifo) - d + 1
    BY <1>2, <1>3
  <2> QED BY <1>3, <2>1
<1>6. \A j, k \in 1..Len(rspid_fifo) : rspid_fifo[j] = "cpu" /\ rspid_fifo[k] = "cpu" => j = k
  BY <1>1 DEF OfCpu
<1>7. g + c <= 1
  <2>1. c = 1 => cpu_cmd = NoCmd
    <3> SUFFICES ASSUME NEW n \in 1..Len(cmd_fifo), rspid_fifo[Started + n] = "cpu"
                 PROVE  cpu_cmd = NoCmd
      BY DEF CpuQueues
    <3>1. Started + n \in 1..Len(rspid_fifo)
      BY <1>2, <1>3
    <3> QED BY <1>1, <3>1 DEF OfCpu
  <2>2. g = 1 => cpu_cmd # NoCmd
    BY DEF Granted
  <2> QED BY <2>1, <2>2
<1>8. h <= c
  <2>1. h = 1 => 1 \in 1..Len(cmd_fifo)
    BY <1>3
  <2> QED BY <2>1 DEF CpuQueues
<1>9. c <= Len(cmd_fifo)
  BY <1>3 DEF CpuQueues
<1>10. CpuQueues' <=> (c = 1 /\ h = 0) \/ g = 1
  <2>1. ASSUME CpuQueues' PROVE (c = 1 /\ h = 0) \/ g = 1
    <3>1. PICK n \in 1..Len(cmd_fifo') : rspid_fifo'[Started' + n] = "cpu"
      BY <2>1 DEF CpuQueues
    <3>2. CASE n \in 1..(Len(cmd_fifo) - i)
      <4>1. n + i \in 1..Len(cmd_fifo) /\ rspid_fifo[Started + (n + i)] = "cpu"
        BY <1>3, <1>4, <3>1, <3>2
      <4>2. h = 0
        <5> SUFFICES ASSUME h = 1 PROVE FALSE
          OBVIOUS
        <5>1. i = 1 /\ rspid_fifo[Started + 1] = "cpu"
          OBVIOUS
        <5>2. Started + 1 \in 1..Len(rspid_fifo) /\ Started + (n + i) \in 1..Len(rspid_fifo)
          BY <1>2, <1>3, <4>1
        <5>3. Started + 1 = Started + (n + i)
          BY <1>6, <4>1, <5>1, <5>2
        <5> QED BY <1>2, <3>2, <5>1, <5>3
      <4> QED BY <4>1, <4>2 DEF CpuQueues
    <3>3. CASE n \notin 1..(Len(cmd_fifo) - i)
      <4>1. a = 1 /\ n = Len(cmd_fifo) - i + 1
        BY <1>3, <3>3
      <4> QED BY <1>5, <3>1, <4>1
    <3> QED BY <3>2, <3>3
  <2>2. ASSUME c = 1, h = 0 PROVE CpuQueues'
    <3>1. PICK n \in 1..Len(cmd_fifo) : rspid_fifo[Started + n] = "cpu"
      BY <2>2 DEF CpuQueues
    <3>2. n - i \in 1..(Len(cmd_fifo) - i) /\ (n - i) + i = n
      <4>1. i = 1 => n # 1
        BY <2>2, <3>1
      <4> QED BY <1>3, <3>1, <4>1
    <3>3. n - i \in 1..Len(cmd_fifo') /\ rspid_fifo'[Started' + (n - i)] = "cpu"
      BY <1>3, <1>4, <3>1, <3>2
    <3> QED BY <3>3 DEF CpuQueues
  <2>3. ASSUME g = 1 PROVE CpuQueues'
    <3>1. a = 1 /\ Granted(cpu_cmd, CnnCmd) = "cpu"
      BY <2>3
    <3>2. Len(cmd_fifo) - i + 1 \in 1..Len(cmd_fifo')
      BY <1>3, <3>1
    <3> QED BY <1>5, <3>1, <3>2 DEF CpuQueues
  <2> QED BY <2>1, <2>2, <2>3
<1>11. r <= Busy + h
  <2> SUFFICES ASSUME r = 1, Busy = 0 PROVE h = 1
    BY <1>2
  <2>1. Issues /\ i = 1 /\ Head(cmd_fifo).addr.region = "slow"
    BY DEF Moves, Returns, AtOnce, IssuedTo, Busy
  <2>2. 1 \in 1..Len(cmd_fifo) /\ cmd_fifo \in Seq(SysCmds)
    BY <1>3, <2>1 DEF SysInv, FabricHolds, InBus
  <2>3. asked[Started + 1].addr.region = "slow" /\ Started + 1 \in 1..Len(rspid_fifo)
    BY <1>1, <1>2, <2>1, <2>2 DEF InPlace
  <2>4. rspid_fifo[Started + 1] # "cnn"
    <3>1. rspid_fifo[Started + 1] = "cnn" =>
            IsRequest(current_state, nr[Started + 1], asked[Started + 1])
      BY <1>1, <2>3 DEF OfCore
    <3>2. ASSUME NEW cmd, NEW k, IsRequest(current_state, k, cmd)
          PROVE  cmd.addr.region \in {"weight", "image", "out"}
      <4>1. CASE current_state = "LOAD_WEIGHT"
        BY <3>2, <4>1 DEF IsRequest, At
      <4>2. CASE current_state = "LOAD_IMAGE"
        BY <3>2, <4>2 DEF IsRequest, At
      <4>3. CASE current_state \notin {"LOAD_WEIGHT", "LOAD_IMAGE"}
        BY <3>2, <4>3 DEF IsRequest
      <4> QED BY <4>1, <4>2, <4>3
    <3> QED BY <2>3, <3>1, <3>2
  <2>5. rspid_fifo[Started + 1] \in Masters
    <3>1. rspid_fifo \in Seq(Masters)
      BY DEF SysInv, FabricHolds, FabricTypeOk
    <3> QED BY <2>3, <3>1
  <2> QED BY <2>1, <2>4, <2>5 DEF Masters
<1> QED BY <1>7, <1>8, <1>9, <1>10, <1>11

\* While the core offers a command in every cycle the bus fills.
LEMMA LevelStep ==
  ASSUME SysInv, NEW slow \in BOOLEAN, FabricClock(cpu_cmd, CnnCmd, slow), cnn_icb_cmd_valid
  PROVE  /\ Level \in Int /\ Level' \in Int /\ Len(cmd_fifo) \in Nat
         /\ Level' >= Level \/ Filled'
         /\ Level >= 2 * FifoDP - 1 => Filled
         /\ Filled => Filled'
         /\ CmdHsk(ready) => /\ Level' >= Level + 1 /\ Level' >= 2
                             /\ Filled => Len(cmd_fifo') = FifoDP
                                          \/ (Len(cmd_fifo') = FifoDP - 1 /\ Busy' = 1)
                             /\ Len(cmd_fifo) = FifoDP - 1 /\ Busy = 1 => Len(cmd_fifo') = FifoDP
                             /\ rspid_fifo'[Len(rspid_fifo')] = "cnn"
         /\ Len(cmd_fifo) = FifoDP => ~CmdHsk(ready)
<1>1. \E d, a, i, r \in 0..1 : Moves(slow, d, a, i, r)
  BY DEF Moves
<1>2. PICK d \in 0..1, a \in 0..1, i \in 0..1, r \in 0..1 : Moves(slow, d, a, i, r)
  BY <1>1
<1>3. /\ Shifts(cmd_fifo, cmd_fifo', i, a, Offered(cpu_cmd, CnnCmd))
      /\ Shifts(rspid_fifo, rspid_fifo', d, a, Granted(cpu_cmd, CnnCmd))
      /\ Busy \in 0..1 /\ Busy' \in 0..1 /\ Busy' = Busy + i - r
  BY <1>2, Flows
<1>4. Offered(cpu_cmd, CnnCmd) # NoCmd
  BY Offers DEF Offered
<1>5. /\ a = 1 <=> Len(cmd_fifo) < FifoDP
      /\ i = 1 <=> Len(cmd_fifo) # 0 /\ Busy = 0
      /\ ArbReady <=> Len(cmd_fifo) < FifoDP
  BY <1>2, <1>4, Prompt
<1>6. /\ Len(cmd_fifo) \in Nat /\ Len(cmd_fifo') = Len(cmd_fifo) - i + a
      /\ Len(cmd_fifo) <= FifoDP /\ FifoDP \in Nat \ {0}
  BY <1>3, FabricAssumption DEF Shifts, SysInv, FabricHolds, FabricTypeOk
<1>7. CmdHsk(ready) => a = 1 /\ Granted(cpu_cmd, CnnCmd) = "cnn"
  BY <1>4, <1>5, Offers DEF CmdHsk, ready, CnnReady, Granted
<1>8. Len(cmd_fifo) = FifoDP => ~CmdHsk(ready)
  BY <1>5, <1>6, <1>7
<1>9. PICK c \in 0..1, g \in 0..1, h \in 0..1 :
        /\ c = (IF CpuQueues THEN 1 ELSE 0)
        /\ g = (IF a = 1 /\ Granted(cpu_cmd, CnnCmd) = "cpu" THEN 1 ELSE 0)
        /\ h = (IF i = 1 /\ rspid_fifo[Started + 1] = "cpu" THEN 1 ELSE 0)
  OBVIOUS
<1>10. /\ (IF CpuQueues' THEN 1 ELSE 0) = c - h + g
       /\ h <= i /\ h <= c /\ g <= a /\ g + c <= 1 /\ c <= Len(cmd_fifo)
       /\ r <= Busy + h
  BY <1>2, <1>9, CpuInQueue
<1>11. PICK len, len2, busy, busy2, c2, level, level2, full, full2 :
         /\ len = Len(cmd_fifo) /\ len2 = Len(cmd_fifo') /\ busy = Busy /\ busy2 = Busy'
         /\ c2 = (IF CpuQueues' THEN 1 ELSE 0) /\ level = Level /\ level2 = Level'
         /\ full = Filled /\ full2 = Filled'
  OBVIOUS
<1>12. /\ level = 2 * len + busy - c /\ level2 = 2 * len2 + busy2 - c2
       /\ full \in BOOLEAN /\ full2 \in BOOLEAN
       /\ full <=> len = FifoDP \/ (len = FifoDP - 1 /\ (busy = 1 \/ c = 0))
       /\ full2 <=> len2 = FifoDP \/ (len2 = FifoDP - 1 /\ (busy2 = 1 \/ c2 = 0))
  BY <1>9, <1>11 DEF Level, Filled
<1>13. /\ len \in Nat /\ busy \in 0..1 /\ len <= FifoDP /\ c <= len /\ r <= busy + h
       /\ a = (IF len < FifoDP THEN 1 ELSE 0)
       /\ i = (IF len # 0 /\ busy = 0 THEN 1 ELSE 0)
       /\ len2 = len - i + a /\ busy2 = busy + i - r /\ c2 = c - h + g
  BY <1>3, <1>5, <1>6, <1>10, <1>11
<1>14. /\ level2 >= level \/ full2
       /\ a = 1 /\ g = 0 => level2 >= level + 1 /\ level2 >= 2
       /\ level >= 2 * FifoDP - 1 => full
       /\ full => full2
       /\ a = 1 /\ g = 0 /\ full => len2 = FifoDP \/ (len2 = FifoDP - 1 /\ busy2 = 1)
       /\ a = 1 /\ len = FifoDP - 1 /\ busy = 1 => len2 = FifoDP
  BY <1>6, <1>10, <1>12, <1>13, LevelRises
<1>15. CmdHsk(ready) => a = 1 /\ g = 0
  BY <1>7, <1>9
<1>16. level \in Int /\ level2 \in Int
  BY <1>12, <1>13
<1>17. CmdHsk(ready) => rspid_fifo'[Len(rspid_fifo')] = "cnn"
  <2>1. /\ Len(rspid_fifo) \in Nat /\ Len(rspid_fifo') = Len(rspid_fifo) - d + a
        /\ a = 1 => rspid_fifo'[Len(rspid_fifo) - d + 1] = Granted(cpu_cmd, CnnCmd)
    BY <1>3 DEF Shifts
  <2>2. a = 1 => Len(rspid_fifo') = Len(rspid_fifo) - d + 1
    BY <2>1
  <2> QED BY <1>7, <2>1, <2>2
<1> QED BY <1>6, <1>8, <1>11, <1>14, <1>15, <1>16, <1>17

\* The registers of a transfer in a cycle, for either matrix: n2 counts the
\* reads the bus has taken then.
ReadsOn(region, sent, cnt, next, n, sent2, cnt2, next2, n2) ==
  /\ sent2 <=> sent \/ cnt = LastWord
  /\ n2 = n + (IF CmdHsk(ready) THEN 1 ELSE 0)
  /\ cnt \in 0..(LastWord - 1) => cnt2 = cnt + (IF CmdHsk(ready) THEN 1 ELSE 0)
  /\ next2 = IF ~sent /\ SendUpdate(ready) THEN next + 4 ELSE next
  /\ cnn_icb_cmd_valid' <=> ~sent
  /\ ~sent => /\ cnn_icb_cmd_read'
              /\ cnn_icb_cmd_addr' = IF SendUpdate(ready) THEN At(region, next)
                                     ELSE cnn_icb_cmd_addr

LEMMA ReadingStep ==
  ASSUME SysInv, NEW slow \in BOOLEAN, FabricClock(cpu_cmd, CnnCmd, slow),
         NEW region, NEW sent \in BOOLEAN, NEW cnt, NEW next, NEW n,
         Reading(region, sent, cnt, next, n),
         NEW sent2 \in BOOLEAN, NEW cnt2, NEW next2, NEW n2,
         ReadsOn(region, sent, cnt, next, n, sent2, cnt2, next2, n2)
  PROVE  Reading(region, sent2, cnt2, next2, n2)' /\ n2 \in 0..Words
<1> USE Larger
<1>0. /\ sent2 <=> sent \/ cnt = LastWord
      /\ n2 = n + (IF CmdHsk(ready) THEN 1 ELSE 0)
      /\ cnt \in 0..(LastWord - 1) => cnt2 = cnt + (IF CmdHsk(ready) THEN 1 ELSE 0)
      /\ next2 = IF ~sent /\ SendUpdate(ready) THEN next + 4 ELSE next
      /\ cnn_icb_cmd_valid' <=> ~sent
      /\ ~sent => /\ cnn_icb_cmd_read'
                  /\ cnn_icb_cmd_addr' = IF SendUpdate(ready) THEN At(region, next)
                                         ELSE cnn_icb_cmd_addr
  BY DEF ReadsOn
<1> USE <1>0
<1>1. cnn_icb_cmd_valid \in BOOLEAN /\ ready \in BOOLEAN
  BY DEF SysInv, CoreTypeOk, ready, CnnReady, ArbReady
<1>2. CASE ~sent /\ ~cnn_icb_cmd_valid /\ cnt = 0 /\ next = 0 /\ n = 0
  <2>1. ~CmdHsk(ready) /\ SendUpdate(ready)
    BY <1>2 DEF CmdHsk, SendUpdate
  <2>2. cnt2 = 0 /\ n2 = 0 /\ next2 = 4 /\ ~sent2
    BY <1>2, <2>1
  <2>2a. next = 4 * cnt2
    BY <1>2, <2>2
  <2>3. cnn_icb_cmd_valid' /\ cnn_icb_cmd_read' /\ cnn_icb_cmd_addr' = At(region, 4 * cnt2)
    BY <1>2, <2>1, <2>2a
  <2>4. Pressure(n2)'
    BY <2>2 DEF Pressure
  <2>5. cnn_icb_cmd_addr' = At(region, 4 * cnt2)' /\ next2 = 4 * (cnt2 + 1) /\ cnt2 \in 0..LastWord
    BY <2>2, <2>3 DEF At
  <2>6. n2 = cnt2
    BY <2>2
  <2> HIDE <1>0
  <2> QED BY <2>2, <2>3, <2>4, <2>5, <2>6 DEF Reading, At
<1>3. CASE /\ ~sent /\ cnn_icb_cmd_valid /\ cnn_icb_cmd_read
           /\ cnn_icb_cmd_addr = At(region, 4 * cnt) /\ next = 4 * (cnt + 1)
           /\ n = cnt /\ cnt \in 0..LastWord /\ Pressure(n)
  <2>1. /\ Level \in Int /\ Level' \in Int /\ Len(cmd_fifo) \in Nat
        /\ Level' >= Level \/ Filled'
        /\ Level >= 2 * FifoDP - 1 => Filled
        /\ Filled => Filled'
        /\ CmdHsk(ready) => /\ Level' >= Level + 1 /\ Level' >= 2
                            /\ Filled => Len(cmd_fifo') = FifoDP
                                         \/ (Len(cmd_fifo') = FifoDP - 1 /\ Busy' = 1)
                            /\ Len(cmd_fifo) = FifoDP - 1 /\ Busy = 1 => Len(cmd_fifo') = FifoDP
                            /\ rspid_fifo'[Len(rspid_fifo')] = "cnn"
        /\ Len(cmd_fifo) = FifoDP => ~CmdHsk(ready)
    BY <1>3, LevelStep
  <2>2. /\ n >= 1 => Level >= n + 1 \/ Filled
        /\ n = LastWord => Len(cmd_fifo) = FifoDP \/ (Len(cmd_fifo) = FifoDP - 1 /\ Busy = 1)
    BY <1>3 DEF Pressure
  <2>3. CASE CmdHsk(ready) /\ cnt # LastWord
    <3>1. SendUpdate(ready)
      BY <2>3 DEF CmdHsk, SendUpdate
    <3>2. cnt \in 0..(LastWord - 1)
      BY <1>3, <2>3
    <3>3. cnt2 = cnt + 1 /\ n2 = cnt2 /\ ~sent2 /\ next2 = next + 4
      BY <1>3, <2>3, <3>1, <3>2
    <3>4. cnt2 \in 0..LastWord /\ next2 = 4 * (cnt2 + 1) /\ next = 4 * cnt2
      BY <1>3, <3>2, <3>3
    <3>5. cnn_icb_cmd_valid' /\ cnn_icb_cmd_read' /\ cnn_icb_cmd_addr' = At(region, 4 * cnt2)
      BY <1>3, <3>1, <3>4
    <3>6. Level' >= n2 + 1 \/ Filled'
      BY <1>3, <2>1, <2>2, <2>3, <3>3
    <3>7. n2 = LastWord => Len(cmd_fifo') = FifoDP \/ (Len(cmd_fifo') = FifoDP - 1 /\ Busy' = 1)
      <4>1. n2 = LastWord => n >= 1 /\ n + 1 >= 2 * FifoDP - 1
        BY <1>3, <3>3, DepthAssumption, FabricAssumption
      <4>2. n2 = LastWord => Filled
        BY <1>3, <2>1, <2>2, <4>1, FabricAssumption
      <4> QED BY <2>1, <2>3, <4>2
    <3>8. Pressure(n2)'
      BY <3>6, <3>7 DEF Pressure
    <3> QED BY <3>3, <3>4, <3>5, <3>8 DEF Reading, At
  <2>4. CASE ~CmdHsk(ready) /\ cnt # LastWord
    <3>1. ~SendUpdate(ready)
      BY <1>3, <2>4 DEF CmdHsk, SendUpdate
    <3>2. cnt2 = cnt /\ n2 = cnt /\ ~sent2 /\ next2 = next /\ cnt2 \in 0..LastWord /\ n2 # LastWord
      BY <1>3, <2>4, <3>1
    <3>3. cnn_icb_cmd_valid' /\ cnn_icb_cmd_read' /\ cnn_icb_cmd_addr' = At(region, 4 * cnt2)
      BY <1>3, <3>1, <3>2
    <3>4. Pressure(n2)'
      <4>1. n2 >= 1 => Level' >= n2 + 1 \/ Filled'
        BY <1>3, <2>1, <2>2, <3>2
      <4> QED BY <3>2, <4>1 DEF Pressure
    <3> QED BY <1>3, <3>2, <3>3, <3>4 DEF Reading, At
  <2>5. CASE ~CmdHsk(ready) /\ cnt = LastWord
    <3>1. ~SendUpdate(ready)
      BY <1>3, <2>5 DEF CmdHsk, SendUpdate
    <3>2. sent2 /\ n2 = LastWord /\ cnn_icb_cmd_valid' /\ cnn_icb_cmd_read'
          /\ cnn_icb_cmd_addr' = At(region, 4 * LastWord)
      BY <1>3, <2>5, <3>1
    <3> QED BY <3>2 DEF Reading, At
  \* The last word is not refused: the command that follows it will be.
  <2>6. CASE CmdHsk(ready) /\ cnt = LastWord
    <3>1. SendUpdate(ready)
      BY <2>6 DEF CmdHsk, SendUpdate
    <3>2. sent2 /\ n2 = Words /\ cnn_icb_cmd_valid' /\ cnn_icb_cmd_read'
          /\ cnn_icb_cmd_addr' = At(region, 4 * Words)
      BY <1>3, <2>6, <3>1
    <3>3. FilledByCore'
      BY <1>3, <2>1, <2>2, <2>6 DEF FilledByCore
    <3> QED BY <3>2, <3>3 DEF Reading, At
  <2> QED BY <2>3, <2>4, <2>5, <2>6
<1>4. CASE /\ sent /\ cnn_icb_cmd_valid /\ cnn_icb_cmd_read
           /\ cnn_icb_cmd_addr = At(region, 4 * LastWord) /\ n = LastWord
  <2>1. sent2 /\ ~cnn_icb_cmd_valid' /\ n2 \in {LastWord, Words}
    BY <1>4
  <2> QED BY <2>1 DEF Reading
<1>6. CASE /\ sent /\ cnn_icb_cmd_valid /\ cnn_icb_cmd_read
           /\ cnn_icb_cmd_addr = At(region, 4 * Words) /\ n = Words /\ FilledByCore
  <2>1. ~CmdHsk(ready)
    BY <1>6, LevelStep DEF FilledByCore
  <2>2. sent2 /\ ~cnn_icb_cmd_valid' /\ n2 = Words
    BY <1>6, <2>1
  <2> QED BY <2>2 DEF Reading
<1>5. CASE sent /\ ~cnn_icb_cmd_valid /\ n \in {0, LastWord, Words}
  <2>1. ~CmdHsk(ready)
    BY <1>5 DEF CmdHsk
  <2>2. sent2 /\ ~cnn_icb_cmd_valid' /\ n2 \in {0, LastWord, Words}
    BY <1>5, <2>1
  <2> QED BY <2>2 DEF Reading
<1> QED BY <1>2, <1>3, <1>4, <1>5, <1>6 DEF Reading


\* The core never has more answers than it has sent commands, and an answer
\* to a read is the word that the count of answers names.
LEMMA Counted ==
  ASSUME SysInv, NEW slow \in BOOLEAN, FabricClock(cpu_cmd, CnnCmd, slow)
  PROVE  /\ Received \in Nat /\ Sent \in Nat /\ Received <= Sent
         /\ RspTo("cnn") # NoRsp => Received + 1 <= Sent
         /\ RspTo("cnn") # NoRsp /\ current_state = "LOAD_WEIGHT" =>
              RspTo("cnn") = Contents["weight"][Received]
         /\ RspTo("cnn") # NoRsp /\ current_state = "LOAD_IMAGE" =>
              RspTo("cnn") = Contents["image"][Received]
<1>1. \E d, a, i, r \in 0..1 : Moves(slow, d, a, i, r)
  BY DEF Moves
<1>2. PICK d \in 0..1, a \in 0..1, i \in 0..1, r \in 0..1 : Moves(slow, d, a, i, r)
  BY <1>1
<1>3. PICK asked, nr : InPlace(asked) /\ OfCore(asked, nr)
  BY DEF SysInv, Traffic
<1>4. /\ nr[1] = Received /\ nr[Len(rspid_fifo) + 1] = Sent
      /\ \A k \in 1..(Len(rspid_fifo) + 1) : nr[k] \in Nat
      /\ \A k \in 1..Len(rspid_fifo) :
           nr[k + 1] = nr[k] + (IF rspid_fifo[k] = "cnn" THEN 1 ELSE 0)
      /\ \A j, k \in 1..(Len(rspid_fifo) + 1) : j <= k => nr[j] <= nr[k]
      /\ \A k \in 1..Len(rspid_fifo) :
           rspid_fifo[k] = "cnn" => IsRequest(current_state, nr[k], asked[k])
  BY <1>3 DEF OfCore, Counts
<1>5. rspid_fifo \in Seq(Masters)
  BY DEF SysInv, FabricHolds, FabricTypeOk
<1>6. Len(rspid_fifo) \in Nat
  BY <1>5
<1>7. Received \in Nat /\ Sent \in Nat /\ Received <= Sent
  <2>1. 1 \in 1..(Len(rspid_fifo) + 1) /\ Len(rspid_fifo) + 1 \in 1..(Len(rspid_fifo) + 1)
        /\ 1 <= Len(rspid_fifo) + 1
    BY <1>6
  <2> QED BY <1>4, <2>1
<1>8. ASSUME RspTo("cnn") # NoRsp
      PROVE  /\ 1 \in 1..Len(rspid_fifo) /\ rspid_fifo[1] = "cnn"
             /\ Answered(asked[1], RspTo("cnn"))
  <2>1. /\ rspid_fifo[1] = "cnn" /\ Answered(asked[1], RspTo("cnn"))
    BY <1>1, <1>2, <1>3, <1>8, Seen DEF Masters
  <2>2. rspid_fifo # <<>>
    BY <1>8 DEF RspTo, Delivers
  <2>3. 1 \in 1..Len(rspid_fifo)
    BY <1>5, <2>2, EmptySeq
  <2> QED BY <2>1, <2>3
<1>9. ASSUME RspTo("cnn") # NoRsp PROVE Received + 1 <= Sent
  <2>1. nr[2] = Received + 1
    BY <1>4, <1>8, <1>9
  <2>2. 2 \in 1..(Len(rspid_fifo) + 1) /\ Len(rspid_fifo) + 1 \in 1..(Len(rspid_fifo) + 1)
        /\ 2 <= Len(rspid_fifo) + 1
    BY <1>6, <1>8, <1>9
  <2> QED BY <1>4, <2>1, <2>2
<1>10. ASSUME RspTo("cnn") # NoRsp, NEW t \in Kept, asked[1].addr = At(t, 4 * Received)
       PROVE  RspTo("cnn") = Contents[t][Received]
  <2>1. Answered(asked[1], RspTo("cnn"))
    BY <1>8, <1>10
  <2>2. asked[1].addr.region = t /\ asked[1].addr.off = 4 * Received
    BY <1>10 DEF At
  <2>3. (4 * Received) \div 4 = Received
    BY <1>7
  <2>4. WordOf(asked[1].addr) = Received
    BY <2>2, <2>3 DEF WordOf
  <2>5. t # "out" /\ t # "slow"
    BY DEF Kept
  <2> QED BY <2>1, <2>2, <2>4, <2>5 DEF Answered, Answer
<1>11. ASSUME RspTo("cnn") # NoRsp, current_state = "LOAD_WEIGHT"
       PROVE  RspTo("cnn") = Contents["weight"][Received]
  <2>1. IsRequest(current_state, Received, asked[1])
    BY <1>4, <1>8, <1>11
  <2> QED BY <1>10, <1>11, <2>1 DEF IsRequest, Kept
<1>12. ASSUME RspTo("cnn") # NoRsp, current_state = "LOAD_IMAGE"
       PROVE  RspTo("cnn") = Contents["image"][Received]
  <2>1. IsRequest(current_state, Received, asked[1])
    BY <1>4, <1>8, <1>12
  <2> QED BY <1>10, <1>12, <2>1 DEF IsRequest, Kept
<1> QED BY <1>7, <1>9, <1>11, <1>12

\* The core's command last in a full FIFO is still to be answered.
LEMMA Undone ==
  ASSUME SysInv, NEW slow \in BOOLEAN, FabricClock(cpu_cmd, CnnCmd, slow), FilledByCore
  PROVE  Received < Sent /\ (RspTo("cnn") # NoRsp => Received + 1 < Sent)
<1> DEFINE last == Len(rspid_fifo)
<1>1. PICK asked, nr : InPlace(asked) /\ OfCore(asked, nr)
  BY DEF SysInv, Traffic
<1>2. /\ nr[1] = Received /\ nr[last + 1] = Sent
      /\ \A k \in 1..(last + 1) : nr[k] \in Nat
      /\ \A k \in 1..last : nr[k + 1] = nr[k] + (IF rspid_fifo[k] = "cnn" THEN 1 ELSE 0)
      /\ \A j, k \in 1..(last + 1) : j <= k => nr[j] <= nr[k]
  BY <1>1 DEF OfCore, Counts
<1>3. /\ last = Len(rsp_fifo) + Len(cmd_fifo) + Busy
      /\ Busy \in 0..1 /\ Len(rsp_fifo) \in Nat /\ Len(cmd_fifo) >= 1
  BY DepthAssumption, FabricAssumption
     DEF SysInv, FabricHolds, OneOwnerPerCommand, InFlight, Busy, FilledByCore, InBus, RspIsQueue
<1>4. last \in 1..last /\ last \in Nat /\ rspid_fifo[last] = "cnn"
  BY <1>3 DEF FilledByCore
<1> HIDE DEF last
<1>5. Sent = nr[last] + 1 /\ nr[last] \in Nat /\ nr[1] <= nr[last] /\ nr[1] \in Nat
  BY <1>2, <1>4
<1>6. ASSUME RspTo("cnn") # NoRsp PROVE Received + 1 < Sent
  <2>1. Len(rsp_fifo) >= 1
    <3>1. rsp_fifo # <<>>
      BY <1>6 DEF RspTo, Delivers
    <3>2. PICK S : rsp_fifo \in Seq(S)
      BY DEF SysInv, FabricHolds, RspIsQueue
    <3> QED BY <1>3, <3>1, <3>2, EmptySeq
  <2>2. rspid_fifo[1] = "cnn"
    <3>1. \E d, a, i, r \in 0..1 : Moves(slow, d, a, i, r)
      BY DEF Moves
    <3> QED BY <1>1, <1>6, <3>1, Seen DEF Masters
  <2>3. last >= 2
    BY <1>3, <2>1 DEF last
  <2>4. nr[2] = Received + 1 /\ nr[2] <= nr[last] /\ nr[2] \in Nat
    BY <1>2, <1>4, <2>2, <2>3
  <2> QED BY <1>2, <1>5, <2>4
<1> QED BY <1>2, <1>5, <1>6

\* What a state does not touch.
LEMMA Untouched ==
  ASSUME SysInv, NEW slow \in BOOLEAN, Clock(slow)
  PROVE  /\ weight_data_rcpt_done => /\ weight_data_rcpt_done'
                                     /\ weight_data_rcpt_cnt' = weight_data_rcpt_cnt
                                     /\ cur_weight' = cur_weight
         /\ ~weight_data_rcpt_done /\ current_state # "LOAD_WEIGHT" =>
              weight_data_rcpt_cnt' = 0 /\ ~weight_data_rcpt_done'
         /\ weight_addr_send_done' <=> weight_addr_send_done \/ weight_addr_send_cnt = LastWord
         /\ image_addr_send_done' <=> image_addr_send_done \/ image_addr_send_cnt = LastWord
         /\ weight_addr_send_done' \in BOOLEAN /\ image_addr_send_done' \in BOOLEAN
         /\ current_state # "LOAD_IMAGE" => /\ image_addr_send_cnt' = image_addr_send_cnt
                                            /\ image_data_rcpt_cnt' = 0 /\ image_data' = image_data
         /\ current_state \in {"IDLE", "LOAD_WEIGHT"} => image_addr_next' = 0
         /\ current_state # "STORE" => store_data_send_cnt' = 0 /\ store_rsp_rcpt_cnt' = 0
         /\ ~RdHsk(ready) /\ current_state # "IDLE" => reads' = reads
         /\ current_state' = NextState(enable) /\ current_state \in States
         /\ cnn_icb_cmd_valid' <=> SendStart(ready)
         /\ NoRsp = NoWord /\ current_state' \in States
<1>1. /\ Sequencer(enable) /\ Command(ready) /\ LoadWeight(ready, RspTo("cnn"))
      /\ LoadImage(ready, RspTo("cnn")) /\ Store(ready, RspTo("cnn")) /\ History
  BY DEF Clock, CoreClock
<1>2. current_state \in States /\ current_state' \in States
  BY <1>1 DEF SysInv, CoreTypeOk, Sequencer, NextState, States
<1>3. SendStart(ready) \in BOOLEAN
  BY DEF SendStart, weight_addr_send_start, image_addr_send_start, store_data_send_start
<1>4. /\ weight_data_rcpt_done => /\ weight_data_rcpt_done'
                                  /\ weight_data_rcpt_cnt' = weight_data_rcpt_cnt
                                  /\ cur_weight' = cur_weight
      /\ ~weight_data_rcpt_done /\ current_state # "LOAD_WEIGHT" => weight_data_rcpt_cnt' = 0
  BY <1>1 DEF LoadWeight, weight_data_rcpt_done
<1>5. weight_data_rcpt_cnt' = 0 => ~weight_data_rcpt_done'
  BY Larger DEF weight_data_rcpt_done
<1>6. /\ weight_addr_send_done \in BOOLEAN /\ image_addr_send_done \in BOOLEAN
  BY DEF SysInv, CoreTypeOk
<1>7. /\ weight_addr_send_done' <=> weight_addr_send_done \/ weight_addr_send_cnt = LastWord
      /\ image_addr_send_done' <=> image_addr_send_done \/ image_addr_send_cnt = LastWord
      /\ weight_addr_send_done' \in BOOLEAN /\ image_addr_send_done' \in BOOLEAN
  BY <1>1, <1>6 DEF LoadWeight, LoadImage
<1>8. /\ current_state # "LOAD_IMAGE" => /\ image_addr_send_cnt' = image_addr_send_cnt
                                         /\ image_data_rcpt_cnt' = 0 /\ image_data' = image_data
      /\ current_state \in {"IDLE", "LOAD_WEIGHT"} => image_addr_next' = 0
  BY <1>1 DEF LoadImage, image_addr_send_start
<1>9. current_state # "STORE" => store_data_send_cnt' = 0 /\ store_rsp_rcpt_cnt' = 0
  BY <1>1 DEF Store
<1>10. ~RdHsk(ready) /\ current_state # "IDLE" => reads' = reads
  BY <1>1 DEF History
<1>11. current_state' = NextState(enable) /\ (cnn_icb_cmd_valid' <=> SendStart(ready))
  BY <1>1, <1>3 DEF Sequencer, Command
<1> QED BY <1>2, <1>4, <1>5, <1>7, <1>8, <1>9, <1>10, <1>11, SystemAssumption

\* What the state of the transfers is to the steps below.
Stage == /\ ReadingWeights /\ ReadingImage /\ Resting /\ Buffered
         /\ reads \in [Kept -> 0..Words]
         /\ image_addr_send_cnt \in Nat /\ image_addr_send_done \in BOOLEAN


\* IDLE waits for enable; then the weights are requested again, or not at all.
LEMMA InIdle ==
  ASSUME SysInv, NEW slow \in BOOLEAN, Clock(slow), current_state = "IDLE"
  PROVE  Stage' /\ BeginsAnew
<1> USE Larger
<1>1. /\ ReadingImage /\ Resting /\ Buffered /\ reads \in [Kept -> 0..Words]
      /\ image_addr_send_cnt \in Nat /\ FirstLoad /\ enable \in BOOLEAN
  BY DEF SysInv, SysTypes, CtrlInv
<1>2. ~cnn_icb_cmd_valid /\ ~SendStart(ready)
  BY <1>1 DEF Resting, SendStart, weight_addr_send_start, image_addr_send_start,
              store_data_send_start
<1>3. ~cnn_icb_cmd_valid'
  BY <1>2, Untouched
<1>4. current_state' = IF enable THEN "LOAD_WEIGHT" ELSE "IDLE"
  BY Untouched DEF NextState
<1>5. /\ weight_data_rcpt_done => /\ weight_data_rcpt_done'
                                  /\ weight_data_rcpt_cnt' = weight_data_rcpt_cnt
                                  /\ cur_weight' = cur_weight
      /\ ~weight_data_rcpt_done => weight_data_rcpt_cnt' = 0 /\ ~weight_data_rcpt_done'
      /\ weight_addr_send_done' <=> weight_addr_send_done \/ weight_addr_send_cnt = LastWord
      /\ image_addr_send_done' <=> image_addr_send_done \/ image_addr_send_cnt = LastWord
      /\ image_addr_send_done' \in BOOLEAN
      /\ image_addr_send_cnt' = image_addr_send_cnt /\ image_addr_next' = 0
  BY Untouched
<1>6. reads' = IF enable THEN [t \in Kept |-> 0] ELSE reads
  <2>1. ~RdHsk(ready)
    BY <1>2 DEF RdHsk, CmdHsk
  <2>2. History
    BY DEF Clock
  <2> QED BY <2>1, <2>2 DEF History, Kept
<1>7. reads' \in [Kept -> 0..Words]
  BY <1>1, <1>6
<1>8. ReadingWeights'
  <2> SUFFICES ASSUME enable PROVE ReadingWeights'
    BY <1>4 DEF ReadingWeights
  <2>1. reads'["image"] = 0 /\ reads'["weight"] = 0
    BY <1>6 DEF Kept
  <2>2. CASE weight_data_rcpt_done
    <3>1. weight_data_rcpt_done' /\ weight_addr_send_done'
      BY <1>1, <1>5, <2>2 DEF Resting
    <3> QED BY <1>3, <2>1, <3>1 DEF ReadingWeights
  <2>3. CASE ~weight_data_rcpt_done
    <3>1. weight_addr_send_cnt = 0 /\ ~weight_addr_send_done
      BY <1>1, <2>3 DEF FirstLoad
    <3>2. weight_addr_send_cnt' = 0 /\ weight_addr_next' = 0
      <4>1. LoadWeight(ready, RspTo("cnn"))
        BY DEF Clock, CoreClock
      <4> QED BY <3>1, <4>1 DEF LoadWeight, weight_addr_send_start
    <3>3. ~weight_addr_send_done' /\ ~weight_data_rcpt_done'
      BY <1>5, <2>3, <3>1
    <3> QED BY <1>3, <2>1, <3>2, <3>3 DEF ReadingWeights, Reading
  <2> QED BY <2>2, <2>3
<1>9. ReadingImage'
  <2>1. image_addr_send_done \/ image_addr_send_cnt = 0
    BY <1>1 DEF ReadingImage
  <2>2. image_addr_send_done' \/ (image_addr_send_cnt' = 0 /\ image_addr_next' = 0)
    BY <1>5, <2>1
  <2> QED BY <1>4, <2>2 DEF ReadingImage
<1>10. Resting'
  <2>1. weight_data_rcpt_done' => weight_addr_send_done'
    BY <1>1, <1>5 DEF Resting
  <2> QED BY <1>3, <1>4, <2>1 DEF Resting
<1>11. Buffered'
  <2>1. \A k \in 0..LastWord : k < weight_data_rcpt_cnt' => cur_weight'[k] = Contents["weight"][k]
    BY <1>1, <1>5 DEF Buffered
  <2> QED BY <1>4, <2>1 DEF Buffered, Contents
<1>12. BeginsAnew
  <2>1. Received = 0 /\ Sent = 0
    BY DEF Received, Sent
  <2>2. Received' = Sent' /\ Received' \in Nat
    <3>1. CASE ~enable
      BY <1>4, <3>1 DEF Received, Sent
    <3>2. CASE enable
      <4>1. current_state' = "LOAD_WEIGHT" /\ reads'["weight"] = 0
        BY <1>4, <1>6, <3>2 DEF Kept
      <4>2. Received' = weight_data_rcpt_cnt'
        BY <4>1 DEF Received
      <4>3. Sent' = IF weight_data_rcpt_done' THEN Words ELSE 0
        BY <4>1 DEF Sent
      <4>4. weight_data_rcpt_done => weight_data_rcpt_cnt = Words
        BY DEF weight_data_rcpt_done
      <4> QED BY <1>5, <4>2, <4>3, <4>4
    <3> QED BY <1>1, <3>1, <3>2
  <2> QED BY <1>2, <2>1, <2>2 DEF BeginsAnew
<1> QED BY <1>1, <1>5, <1>7, <1>8, <1>9, <1>10, <1>11, <1>12 DEF Stage


\* LOAD_WEIGHT while words are missing.
LEMMA InLoadWeight ==
  ASSUME SysInv, NEW slow \in BOOLEAN, Clock(slow),
         current_state = "LOAD_WEIGHT", ~weight_data_rcpt_done
  PROVE  Stage' /\ GoesOn
<1> USE Larger
<1>1. /\ ReadingWeights /\ ReadingImage /\ Resting /\ Buffered /\ reads \in [Kept -> 0..Words]
      /\ image_addr_send_cnt \in Nat
      /\ weight_data_rcpt_cnt \in 0..Words /\ weight_addr_send_cnt \in 0..LastWord
      /\ cur_weight \in [0..LastWord -> Word] /\ weight_addr_send_done \in BOOLEAN
  BY DEF SysInv, SysTypes, CoreTypeOk
<1>2. /\ FabricClock(cpu_cmd, CnnCmd, slow) /\ History
      /\ LoadWeight(ready, RspTo("cnn")) /\ Command(ready)
  BY DEF Clock, CoreClock
<1>3. /\ reads["image"] = 0 /\ reads["weight"] \in 0..Words
      /\ Reading("weight", weight_addr_send_done, weight_addr_send_cnt,
                 weight_addr_next, reads["weight"])
  BY <1>1 DEF ReadingWeights, Kept
<1>4. current_state' = "LOAD_WEIGHT"
  BY Untouched DEF NextState
<1>5. /\ weight_addr_send_done' <=> weight_addr_send_done \/ weight_addr_send_cnt = LastWord
      /\ weight_addr_send_done' \in BOOLEAN
      /\ image_addr_send_done' <=> image_addr_send_done \/ image_addr_send_cnt = LastWord
      /\ image_addr_send_done' \in BOOLEAN
      /\ image_addr_send_cnt' = image_addr_send_cnt /\ image_addr_next' = 0
      /\ cnn_icb_cmd_valid' <=> SendStart(ready)
      /\ NoRsp = NoWord
  BY Untouched
<1>6. RdHsk(ready) <=> CmdHsk(ready)
  BY Offers DEF RdHsk, CmdHsk
<1>7. CmdHsk(ready) => cnn_icb_cmd_addr.region = "weight"
  BY Offers DEF CmdHsk
<1>8. /\ reads'["image"] = 0
      /\ reads'["weight"] = reads["weight"] + (IF CmdHsk(ready) THEN 1 ELSE 0)
      /\ DOMAIN reads' = Kept /\ reads' = [t \in Kept |-> reads'[t]]
  <2>1. CASE CmdHsk(ready)
    <3>1. reads' = [reads EXCEPT !["weight"] = @ + 1]
      BY <1>2, <1>6, <1>7, <2>1 DEF History
    <3> QED BY <1>1, <1>3, <2>1, <3>1 DEF Kept
  <2>2. CASE ~CmdHsk(ready)
    <3>1. reads' = reads
      BY <1>2, <1>6, <2>2 DEF History
    <3> QED BY <1>1, <1>3, <2>2, <3>1 DEF Kept
  <2> QED BY <2>1, <2>2
<1>9. weight_addr_send_start <=> ~weight_addr_send_done
  BY DEF weight_addr_send_start
<1>10. SendStart(ready) <=> ~weight_addr_send_done
  BY <1>9 DEF SendStart, image_addr_send_start, store_data_send_start
<1>11. ~weight_addr_send_done =>
         /\ cnn_icb_cmd_read'
         /\ cnn_icb_cmd_addr' = IF SendUpdate(ready) THEN At("weight", weight_addr_next)
                                ELSE cnn_icb_cmd_addr
  BY <1>2, <1>9, <1>10 DEF Command, NextAddr, image_addr_send_start, store_data_send_start
<1>12. weight_addr_next' = IF ~weight_addr_send_done /\ SendUpdate(ready)
                           THEN weight_addr_next + 4 ELSE weight_addr_next
  BY <1>2, <1>9 DEF LoadWeight
<1>13. weight_addr_send_cnt \in 0..(LastWord - 1) =>
         weight_addr_send_cnt' = weight_addr_send_cnt + (IF CmdHsk(ready) THEN 1 ELSE 0)
  BY <1>1, <1>2, <1>6 DEF LoadWeight
<1>14. PICK sent2, cnt2, next2, n2 :
         /\ sent2 = weight_addr_send_done' /\ cnt2 = weight_addr_send_cnt'
         /\ next2 = weight_addr_next' /\ n2 = reads'["weight"]
  OBVIOUS
<1>15. Reading("weight", sent2, cnt2, next2, n2)' /\ n2 \in 0..Words
  <2>1. PICK sent, cnt, next, n : /\ sent = weight_addr_send_done /\ cnt = weight_addr_send_cnt
                                  /\ next = weight_addr_next /\ n = reads["weight"]
    OBVIOUS
  <2>2. sent \in BOOLEAN /\ sent2 \in BOOLEAN /\ Reading("weight", sent, cnt, next, n)
    BY <1>1, <1>3, <1>5, <1>14, <2>1
  <2>3. ReadsOn("weight", sent, cnt, next, n, sent2, cnt2, next2, n2)
    BY <1>5, <1>8, <1>10, <1>11, <1>12, <1>13, <1>14, <2>1 DEF ReadsOn
  <2> QED BY <1>2, <2>2, <2>3, ReadingStep
<1>16. reads' \in [Kept -> 0..Words]
  BY <1>8, <1>14, <1>15 DEF Kept
<1>17. PICK more \in 0..1 : more = IF RspTo("cnn") # NoRsp THEN 1 ELSE 0
  OBVIOUS
<1>18. Received = weight_data_rcpt_cnt /\ Sent = reads["weight"]
  BY DEF Received, Sent
<1>19. /\ more = 1 => weight_data_rcpt_cnt + 1 <= reads["weight"]
       /\ more = 1 => RspTo("cnn") = Contents["weight"][weight_data_rcpt_cnt]
  BY <1>2, <1>17, <1>18, Counted
<1>20. /\ weight_data_rcpt_cnt' = weight_data_rcpt_cnt + more
       /\ cur_weight' = IF more = 1 THEN [cur_weight EXCEPT ![weight_data_rcpt_cnt] = RspTo("cnn")]
                        ELSE cur_weight
  BY <1>2, <1>5, <1>17 DEF LoadWeight
<1>21. weight_data_rcpt_cnt < Words
  BY <1>1 DEF weight_data_rcpt_done
\* The last word has come only if the last read was taken, and that read or
\* the offer after it was refused: send_done is up by then, and nothing offered.
<1>22. weight_data_rcpt_done' => /\ reads["weight"] = Words /\ weight_addr_send_done
                                 /\ ~cnn_icb_cmd_valid /\ ~CmdHsk(ready)
  <2> SUFFICES ASSUME weight_data_rcpt_done'
               PROVE  /\ reads["weight"] = Words /\ weight_addr_send_done
                      /\ ~cnn_icb_cmd_valid /\ ~CmdHsk(ready)
    OBVIOUS
  <2>1. weight_data_rcpt_cnt + more = Words
    BY <1>20 DEF weight_data_rcpt_done
  <2>2. reads["weight"] = Words
    BY <1>1, <1>3, <1>19, <1>21, <2>1
  <2>3. ~FilledByCore
    BY <1>1, <1>2, <1>17, <1>18, <1>21, <2>1, <2>2, Undone
  <2> QED BY <1>3, <2>2, <2>3 DEF Reading, CmdHsk
<1>23. ReadingWeights'
  <2>1. CASE weight_data_rcpt_done'
    BY <1>4, <1>5, <1>8, <1>10, <1>22, <2>1 DEF ReadingWeights
  <2>2. CASE ~weight_data_rcpt_done'
    BY <1>8, <1>14, <1>15, <2>2
       DEF ReadingWeights, Reading, Pressure, Level, Filled, CpuQueues, FilledByCore, Started, Busy, At
  <2> QED BY <2>1, <2>2
<1>24. ReadingImage'
  <2>1. image_addr_send_done \/ image_addr_send_cnt = 0
    BY <1>1 DEF ReadingImage
  <2>2. image_addr_send_done' \/ (image_addr_send_cnt' = 0 /\ image_addr_next' = 0)
    BY <1>5, <2>1
  <2> QED BY <1>4, <2>2 DEF ReadingImage
<1>25. Resting'
  BY <1>4, <1>5, <1>22 DEF Resting
<1>26. Buffered'
  <2>1. ASSUME NEW k \in 0..LastWord, k < weight_data_rcpt_cnt'
        PROVE  cur_weight'[k] = Contents["weight"][k]
    <3>1. CASE k < weight_data_rcpt_cnt
      <4>1. cur_weight[k] = Contents["weight"][k]
        BY <1>1, <3>1 DEF Buffered
      <4>2. cur_weight'[k] = cur_weight[k]
        BY <1>1, <1>20, <3>1
      <4> QED BY <4>1, <4>2
    <3>2. CASE ~(k < weight_data_rcpt_cnt)
      <4>1. more = 1 /\ k = weight_data_rcpt_cnt
        BY <1>1, <1>20, <2>1, <3>2
      <4> QED BY <1>1, <1>19, <1>20, <4>1
    <3> QED BY <3>1, <3>2
  <2> QED BY <1>4, <2>1 DEF Buffered, Contents
<1>27. GoesOn
  <2>1. Received' = weight_data_rcpt_cnt'
    BY <1>4 DEF Received
  <2>2. Sent' = IF weight_data_rcpt_done' THEN Words ELSE reads'["weight"]
    BY <1>4 DEF Sent
  <2>3. Sent' = Sent + (IF CmdHsk(ready) THEN 1 ELSE 0)
    BY <1>8, <1>18, <1>22, <2>2
  <2>4. Received' = Received + (IF RspTo("cnn") # NoRsp THEN 1 ELSE 0)
    BY <1>17, <1>18, <1>20, <2>1
  <2> QED BY <1>4, <2>3, <2>4 DEF GoesOn
<1> QED BY <1>1, <1>5, <1>16, <1>23, <1>24, <1>25, <1>26, <1>27 DEF Stage

\* LOAD_WEIGHT when all words are there.
LEMMA LeavesLoadWeight ==
  ASSUME SysInv, NEW slow \in BOOLEAN, Clock(slow),
         current_state = "LOAD_WEIGHT", weight_data_rcpt_done
  PROVE  Stage' /\ BeginsAnew
<1> USE Larger
<1>1. /\ ReadingWeights /\ ReadingImage /\ Resting /\ Buffered /\ reads \in [Kept -> 0..Words]
      /\ image_addr_send_cnt \in Nat
  BY DEF SysInv, SysTypes
<1>2. ~cnn_icb_cmd_valid /\ reads["image"] = 0 /\ weight_addr_send_done
  BY <1>1 DEF ReadingWeights
<1>3. /\ current_state' = "LOAD_IMAGE" /\ reads' = reads
      /\ weight_data_rcpt_done' /\ weight_data_rcpt_cnt' = weight_data_rcpt_cnt
      /\ cur_weight' = cur_weight /\ weight_addr_send_done'
      /\ image_data_rcpt_cnt' = 0
      /\ image_addr_send_done' <=> image_addr_send_done \/ image_addr_send_cnt = LastWord
      /\ image_addr_send_done' \in BOOLEAN
      /\ image_addr_send_cnt' = image_addr_send_cnt /\ image_addr_next' = 0
      /\ cnn_icb_cmd_valid' <=> SendStart(ready)
  BY <1>2, Untouched DEF NextState, RdHsk, CmdHsk
<1>4. ~cnn_icb_cmd_valid'
  BY <1>2, <1>3 DEF SendStart, weight_addr_send_start, image_addr_send_start,
                    store_data_send_start
<1>5. Reading("image", image_addr_send_done, image_addr_send_cnt, image_addr_next, reads["image"])'
  <2>1. image_addr_send_done \/ image_addr_send_cnt = 0
    BY <1>1 DEF ReadingImage
  <2>2. reads'["image"] = 0
    BY <1>2, <1>3
  <2> QED BY <1>3, <1>4, <2>1, <2>2 DEF Reading
<1>6. ReadingWeights' /\ ReadingImage' /\ Resting' /\ Buffered'
  <2>1. ReadingWeights' /\ ReadingImage'
    BY <1>3, <1>5 DEF ReadingWeights, ReadingImage
  <2>2. Resting'
    BY <1>3 DEF Resting
  <2>3. \A k \in 0..LastWord : k < weight_data_rcpt_cnt' => cur_weight'[k] = Contents["weight"][k]
    BY <1>1, <1>3 DEF Buffered
  <2>4. \A k \in 0..LastWord : ~(k < image_data_rcpt_cnt')
    BY <1>3
  <2>5. Buffered'
    BY <1>3, <2>3, <2>4 DEF Buffered, Contents
  <2> QED BY <2>1, <2>2, <2>5
<1>7. BeginsAnew
  <2>1. Received = Words /\ Sent = Words
    BY DEF Received, Sent, weight_data_rcpt_done
  <2>2. Received' = 0
    BY <1>3 DEF Received
  <2>3. Sent' = reads'["image"]
    BY <1>3 DEF Sent
  <2> QED BY <1>2, <1>3, <2>1, <2>2, <2>3 DEF BeginsAnew
<1> QED BY <1>1, <1>3, <1>6, <1>7 DEF Stage


\* LOAD_IMAGE while words are missing.
LEMMA InLoadImage ==
  ASSUME SysInv, NEW slow \in BOOLEAN, Clock(slow),
         current_state = "LOAD_IMAGE", ~image_data_rcpt_done
  PROVE  Stage' /\ GoesOn
<1> USE Larger
<1>1. /\ ReadingImage /\ Resting /\ Buffered /\ reads \in [Kept -> 0..Words]
      /\ image_addr_send_cnt \in Nat /\ image_addr_send_done \in BOOLEAN
      /\ image_data \in [0..LastWord -> Word]
  BY DEF SysInv, SysTypes, CoreTypeOk
<1>2. /\ FabricClock(cpu_cmd, CnnCmd, slow) /\ History
      /\ LoadImage(ready, RspTo("cnn")) /\ Command(ready)
  BY DEF Clock, CoreClock
<1>3. /\ reads["image"] \in 0..Words
      /\ Reading("image", image_addr_send_done, image_addr_send_cnt,
                 image_addr_next, reads["image"])
      /\ weight_data_rcpt_done /\ weight_addr_send_done
      /\ image_data_rcpt_cnt \in 0..Words
  BY <1>1 DEF ReadingImage, Resting, Kept
<1>4. current_state' = "LOAD_IMAGE"
  BY Untouched DEF NextState
<1>5. /\ weight_data_rcpt_done' /\ weight_data_rcpt_cnt' = weight_data_rcpt_cnt
      /\ cur_weight' = cur_weight /\ weight_addr_send_done'
      /\ image_addr_send_done' <=> image_addr_send_done \/ image_addr_send_cnt = LastWord
      /\ image_addr_send_done' \in BOOLEAN
      /\ cnn_icb_cmd_valid' <=> SendStart(ready)
      /\ NoRsp = NoWord
  BY <1>3, Untouched
<1>6. RdHsk(ready) <=> CmdHsk(ready)
  BY Offers DEF RdHsk, CmdHsk
<1>7. CmdHsk(ready) => cnn_icb_cmd_addr.region = "image"
  BY Offers DEF CmdHsk
<1>8. /\ reads'["weight"] = reads["weight"]
      /\ reads'["image"] = reads["image"] + (IF CmdHsk(ready) THEN 1 ELSE 0)
      /\ reads' = [t \in Kept |-> reads'[t]]
  <2>1. CASE CmdHsk(ready)
    <3>1. reads' = [reads EXCEPT !["image"] = @ + 1]
      BY <1>2, <1>6, <1>7, <2>1 DEF History
    <3> QED BY <1>1, <1>3, <2>1, <3>1 DEF Kept
  <2>2. CASE ~CmdHsk(ready)
    <3>1. reads' = reads
      BY <1>2, <1>6, <2>2 DEF History
    <3> QED BY <1>1, <1>3, <2>2, <3>1 DEF Kept
  <2> QED BY <2>1, <2>2
<1>9. image_addr_send_start <=> ~image_addr_send_done
  BY DEF image_addr_send_start
<1>10. SendStart(ready) <=> ~image_addr_send_done
  BY <1>9 DEF SendStart, weight_addr_send_start, store_data_send_start
<1>11. ~image_addr_send_done =>
         /\ cnn_icb_cmd_read'
         /\ cnn_icb_cmd_addr' = IF SendUpdate(ready) THEN At("image", image_addr_next)
                                ELSE cnn_icb_cmd_addr
  BY <1>2, <1>9, <1>10 DEF Command, NextAddr, weight_addr_send_start, store_data_send_start
<1>12. image_addr_next' = IF ~image_addr_send_done /\ SendUpdate(ready)
                          THEN image_addr_next + 4 ELSE image_addr_next
  BY <1>2, <1>9 DEF LoadImage
<1>13. /\ image_addr_send_cnt \in 0..(LastWord - 1) =>
            image_addr_send_cnt' = image_addr_send_cnt + (IF CmdHsk(ready) THEN 1 ELSE 0)
       /\ image_addr_send_cnt' \in Nat
  <2>1. CASE CmdHsk(ready)
    <3>1. image_addr_send_cnt' = (image_addr_send_cnt + 1) % Words
      BY <1>2, <1>6, <2>1 DEF LoadImage
    <3>2. image_addr_send_cnt \in 0..(LastWord - 1) =>
            /\ image_addr_send_cnt + 1 \in Nat /\ image_addr_send_cnt + 1 < Words
      OBVIOUS
    <3>3. image_addr_send_cnt \in 0..(LastWord - 1) =>
            (image_addr_send_cnt + 1) % Words = image_addr_send_cnt + 1
      BY <3>2, SmallMod
    <3>4. (image_addr_send_cnt + 1) % Words \in Nat
      BY <1>1
    <3> QED BY <2>1, <3>1, <3>3, <3>4
  <2>2. CASE ~CmdHsk(ready)
    <3>1. image_addr_send_cnt' = image_addr_send_cnt
      BY <1>2, <1>6, <2>2 DEF LoadImage
    <3> QED BY <1>1, <2>2, <3>1
  <2> QED BY <2>1, <2>2
<1>14. PICK sent2, cnt2, next2, n2 :
         /\ sent2 = image_addr_send_done' /\ cnt2 = image_addr_send_cnt'
         /\ next2 = image_addr_next' /\ n2 = reads'["image"]
  OBVIOUS
<1>15. Reading("image", sent2, cnt2, next2, n2)' /\ n2 \in 0..Words
  <2>1. PICK sent, cnt, next, n : /\ sent = image_addr_send_done /\ cnt = image_addr_send_cnt
                                  /\ next = image_addr_next /\ n = reads["image"]
    OBVIOUS
  <2>2. sent \in BOOLEAN /\ sent2 \in BOOLEAN /\ Reading("image", sent, cnt, next, n)
    BY <1>1, <1>3, <1>5, <1>14, <2>1
  <2>3. ReadsOn("image", sent, cnt, next, n, sent2, cnt2, next2, n2)
    BY <1>5, <1>8, <1>10, <1>11, <1>12, <1>13, <1>14, <2>1 DEF ReadsOn
  <2> QED BY <1>2, <2>2, <2>3, ReadingStep
<1>16. reads' \in [Kept -> 0..Words]
  <2>1. reads["weight"] \in 0..Words
    BY <1>1 DEF Kept
  <2> QED BY <1>8, <1>14, <1>15, <2>1 DEF Kept
<1>17. PICK more \in 0..1 : more = IF RspTo("cnn") # NoRsp THEN 1 ELSE 0
  OBVIOUS
<1>18. Received = image_data_rcpt_cnt /\ Sent = reads["image"]
  BY DEF Received, Sent
<1>19. /\ more = 1 => image_data_rcpt_cnt + 1 <= reads["image"]
       /\ more = 1 => RspTo("cnn") = Contents["image"][image_data_rcpt_cnt]
  BY <1>2, <1>17, <1>18, Counted
<1>20. image_data_rcpt_cnt < Words
  BY <1>3 DEF image_data_rcpt_done
<1>21. /\ image_data_rcpt_cnt' = image_data_rcpt_cnt + more
       /\ image_data' = IF more = 1 THEN [image_data EXCEPT ![image_data_rcpt_cnt] = RspTo("cnn")]
                        ELSE image_data
  <2>1. image_data_rcpt_cnt' = (image_data_rcpt_cnt + more) % (2 * Words)
    BY <1>2, <1>5, <1>17 DEF LoadImage
  <2>2. image_data_rcpt_cnt + more \in Nat /\ 2 * Words \in Nat
        /\ image_data_rcpt_cnt + more < 2 * Words
    BY <1>3, <1>20
  <2>3. (image_data_rcpt_cnt + more) % (2 * Words) = image_data_rcpt_cnt + more
    BY <2>2, SmallMod
  <2>4. image_data' = IF more = 1 THEN [image_data EXCEPT ![image_data_rcpt_cnt] = RspTo("cnn")]
                      ELSE image_data
    BY <1>2, <1>5, <1>17, <1>20 DEF LoadImage
  <2> QED BY <2>1, <2>3, <2>4
<1>22. ReadingWeights' /\ ReadingImage'
  <2>1. Reading("image", image_addr_send_done, image_addr_send_cnt, image_addr_next,
                reads["image"])'
    BY <1>14, <1>15 DEF Reading, Pressure, Level, Filled, CpuQueues, FilledByCore, Started, Busy, At
  <2> QED BY <1>4, <2>1 DEF ReadingWeights, ReadingImage
<1>23. Resting'
  <2>1. image_data_rcpt_cnt' \in 0..Words
    BY <1>3, <1>20, <1>21
  <2> QED BY <1>4, <1>5, <2>1 DEF Resting
<1>24. Buffered'
  <2>1. ASSUME NEW k \in 0..LastWord, k < image_data_rcpt_cnt'
        PROVE  image_data'[k] = Contents["image"][k]
    <3>1. CASE k < image_data_rcpt_cnt
      <4>1. image_data[k] = Contents["image"][k]
        BY <1>1, <3>1 DEF Buffered
      <4>2. image_data'[k] = image_data[k]
        BY <1>1, <1>3, <1>21, <3>1
      <4> QED BY <4>1, <4>2
    <3>2. CASE ~(k < image_data_rcpt_cnt)
      <4>1. more = 1 /\ k = image_data_rcpt_cnt
        BY <1>3, <1>21, <2>1, <3>2
      <4> QED BY <1>1, <1>19, <1>21, <4>1
    <3> QED BY <3>1, <3>2
  <2>2. \A k \in 0..LastWord : k < weight_data_rcpt_cnt' => cur_weight'[k] = Contents["weight"][k]
    BY <1>1, <1>5 DEF Buffered
  <2> QED BY <1>4, <2>1, <2>2 DEF Buffered, Contents
<1>25. GoesOn
  <2>1. Received' = image_data_rcpt_cnt'
    BY <1>4 DEF Received
  <2>2. Sent' = reads'["image"]
    BY <1>4 DEF Sent
  <2>3. Sent' = Sent + (IF CmdHsk(ready) THEN 1 ELSE 0)
    BY <1>8, <1>18, <2>2
  <2>4. Received' = Received + (IF RspTo("cnn") # NoRsp THEN 1 ELSE 0)
    BY <1>17, <1>18, <1>21, <2>1
  <2> QED BY <1>4, <2>3, <2>4 DEF GoesOn
<1> QED BY <1>5, <1>13, <1>16, <1>22, <1>23, <1>24, <1>25 DEF Stage

\* LOAD_IMAGE when all words are there: the last read is taken, and so the
\* core has stopped to ask.
LEMMA LeavesLoadImage ==
  ASSUME SysInv, NEW slow \in BOOLEAN, Clock(slow),
         current_state = "LOAD_IMAGE", image_data_rcpt_done
  PROVE  Stage' /\ BeginsAnew
<1> USE Larger
<1>1. /\ ReadingImage /\ Resting /\ Buffered /\ reads \in [Kept -> 0..Words]
      /\ image_addr_send_cnt \in Nat /\ image_addr_send_done \in BOOLEAN
  BY DEF SysInv, SysTypes
<1>2. FabricClock(cpu_cmd, CnnCmd, slow) /\ LoadImage(ready, RspTo("cnn"))
  BY DEF Clock, CoreClock
<1>3. Received = Words /\ Sent = reads["image"] /\ reads["image"] \in 0..Words
  BY <1>1 DEF Received, Sent, image_data_rcpt_done, Kept
<1>4. reads["image"] = Words
  <2>1. Received <= Sent
    BY <1>2, Counted
  <2> QED BY <1>3, <2>1
<1>5. ~cnn_icb_cmd_valid /\ image_addr_send_done
  <2>1. Reading("image", image_addr_send_done, image_addr_send_cnt, image_addr_next,
                reads["image"])
    BY <1>1 DEF ReadingImage
  <2>2. ~FilledByCore
    BY <1>2, <1>3, <1>4, Undone
  <2> QED BY <1>4, <2>1, <2>2 DEF Reading
<1>6. weight_data_rcpt_done
  BY <1>1 DEF Resting
<1>7. /\ current_state' = "COMPUTE" /\ reads' = reads
      /\ weight_data_rcpt_done' /\ weight_data_rcpt_cnt' = weight_data_rcpt_cnt
      /\ cur_weight' = cur_weight
      /\ weight_addr_send_done => weight_addr_send_done'
      /\ image_addr_send_done' /\ image_addr_send_done' \in BOOLEAN
      /\ cnn_icb_cmd_valid' <=> SendStart(ready)
  BY <1>5, <1>6, Untouched DEF NextState, RdHsk, CmdHsk
<1>8. ~cnn_icb_cmd_valid'
  BY <1>5, <1>7 DEF SendStart, weight_addr_send_start, image_addr_send_start,
                    store_data_send_start
<1>9. image_data' = image_data /\ image_addr_send_cnt' = image_addr_send_cnt
  <2>1. ~(image_data_rcpt_cnt < Words)
    BY DEF image_data_rcpt_done
  <2>2. ~RdHsk(ready)
    BY <1>5 DEF RdHsk, CmdHsk
  <2> QED BY <1>2, <2>1, <2>2 DEF LoadImage
<1>10. ReadingWeights' /\ ReadingImage' /\ Resting'
  BY <1>1, <1>6, <1>7, <1>8 DEF ReadingWeights, ReadingImage, Resting
<1>11. Buffered'
  <2>1. \A k \in 0..LastWord : k < weight_data_rcpt_cnt' => cur_weight'[k] = Contents["weight"][k]
    BY <1>1, <1>7 DEF Buffered
  <2>2. \A k \in 0..LastWord : k < image_data_rcpt_cnt
    BY DEF image_data_rcpt_done
  <2>3. \A k \in 0..LastWord : image_data'[k] = Contents["image"][k]
    BY <1>1, <1>9, <2>2 DEF Buffered
  <2> QED BY <1>7, <2>1, <2>3 DEF Buffered, Contents
<1>12. BeginsAnew
  <2>1. Received' = 0 /\ Sent' = 0
    BY <1>7 DEF Received, Sent
  <2> QED BY <1>3, <1>4, <1>5, <2>1 DEF BeginsAnew
<1> QED BY <1>1, <1>7, <1>9, <1>10, <1>11, <1>12 DEF Stage


\* STORE counts its writes and their responses; when the last one is answered
\* it has nothing left to send.
LEMMA InStore ==
  ASSUME SysInv, NEW slow \in BOOLEAN, Clock(slow), current_state = "STORE"
  PROVE  /\ GoesOn \/ BeginsAnew
         /\ current_state' \in {"STORE", "DONE"}
         /\ current_state' = "DONE" => ~cnn_icb_cmd_valid'
<1> USE Larger
<1>1. /\ StoreInOrder /\ store_data_send_cnt \in 0..Words /\ store_rsp_rcpt_cnt \in 0..Words
      /\ ready \in BOOLEAN
  BY DEF SysInv, CtrlInv, CtrlTypes, StoreOutlastsArray, ready, CnnReady, ArbReady
<1>2. FabricClock(cpu_cmd, CnnCmd, slow) /\ Store(ready, RspTo("cnn"))
  BY DEF Clock, CoreClock
<1>3. /\ current_state' = IF store_done THEN "DONE" ELSE "STORE"
      /\ cnn_icb_cmd_valid' <=> SendStart(ready)
      /\ NoRsp = NoWord
  BY Untouched DEF NextState
<1>4. Received = store_rsp_rcpt_cnt /\ Sent = store_data_send_cnt
  BY DEF Received, Sent
<1>5. /\ Received <= Sent
      /\ RspTo("cnn") # NoRsp => store_rsp_rcpt_cnt + 1 <= store_data_send_cnt
  BY <1>2, <1>4, Counted
<1>6. CASE store_done
  <2>1. store_rsp_rcpt_cnt = Words /\ store_data_send_cnt = Words
    BY <1>1, <1>4, <1>5, <1>6 DEF store_done
  <2>2. ~cnn_icb_cmd_valid
    BY <2>1 , <1>1 DEF StoreInOrder
  <2>3. ~SendStart(ready)
    BY <2>1 DEF SendStart, weight_addr_send_start, image_addr_send_start,
                store_data_send_start, store_data_send_done
  <2>4. current_state' = "DONE" /\ ~cnn_icb_cmd_valid'
    BY <1>3, <1>6, <2>3
  <2>5. Received' = 0 /\ Sent' = 0
    BY <2>4 DEF Received, Sent
  <2>6. BeginsAnew
    BY <1>4, <2>1, <2>2, <2>5 DEF BeginsAnew
  <2> QED BY <2>4, <2>6
<1>7. CASE ~store_done
  <2>1. current_state' = "STORE"
    BY <1>3, <1>7
  <2>2. PICK more \in 0..1, taken \in 0..1 :
          /\ more = (IF RspTo("cnn") # NoRsp THEN 1 ELSE 0)
          /\ taken = (IF CmdHsk(ready) THEN 1 ELSE 0)
    OBVIOUS
  <2>3. WrHsk(ready) <=> CmdHsk(ready)
    BY Offers DEF WrHsk, CmdHsk
  <2>4. store_data_send_cnt' = store_data_send_cnt + taken
    <3>1. store_data_send_cnt' = (store_data_send_cnt + taken) % (2 * Words)
      BY <1>2, <2>2, <2>3 DEF Store
    <3>2. /\ store_data_send_cnt + taken \in Nat /\ 2 * Words \in Nat
          /\ store_data_send_cnt + taken < 2 * Words
      BY <1>1
    <3> QED BY <3>1, <3>2, SmallMod
  <2>5. store_rsp_rcpt_cnt' = store_rsp_rcpt_cnt + more
    <3>1. store_rsp_rcpt_cnt' = (store_rsp_rcpt_cnt + more) % (2 * Words)
      BY <1>2, <1>3, <2>2 DEF Store
    <3>2. /\ store_rsp_rcpt_cnt + more \in Nat /\ 2 * Words \in Nat
          /\ store_rsp_rcpt_cnt + more < 2 * Words
      BY <1>1
    <3> QED BY <3>1, <3>2, SmallMod
  <2>6. Received' = store_rsp_rcpt_cnt' /\ Sent' = store_data_send_cnt'
    BY <2>1 DEF Received, Sent
  <2>7. GoesOn
    BY <1>4, <2>1, <2>2, <2>4, <2>5, <2>6 DEF GoesOn
  <2> QED BY <2>1, <2>7
<1> QED BY <1>6, <1>7

\* COMPUTE and DONE ask for nothing and hear nothing.
LEMMA InBetween ==
  ASSUME SysInv, NEW slow \in BOOLEAN, Clock(slow), current_state \in {"COMPUTE", "DONE"}
  PROVE  /\ BeginsAnew /\ ~cnn_icb_cmd_valid'
         /\ current_state = "COMPUTE" => current_state' \in {"COMPUTE", "STORE"}
         /\ current_state = "DONE" => current_state' \in {"DONE", "IDLE"}
<1>1. ~cnn_icb_cmd_valid
  BY DEF SysInv, Resting
<1>2. /\ current_state = "COMPUTE" => current_state' \in {"COMPUTE", "STORE"}
      /\ current_state = "DONE" => current_state' \in {"DONE", "IDLE"}
      /\ store_data_send_cnt' = 0 /\ store_rsp_rcpt_cnt' = 0
      /\ cnn_icb_cmd_valid' <=> SendStart(ready)
  BY Untouched DEF NextState
<1>3. ~SendStart(ready)
  BY DEF SendStart, weight_addr_send_start, image_addr_send_start, store_data_send_start
<1>4. Received = 0 /\ Sent = 0
  BY DEF Received, Sent
<1>5. Received' = 0 /\ Sent' = 0
  BY <1>2 DEF Received, Sent
<1> QED BY <1>1, <1>2, <1>3, <1>4, <1>5 DEF BeginsAnew

\* After the loads the buffers and the counts of the reads rest.
LEMMA Rests ==
  ASSUME SysInv, NEW slow \in BOOLEAN, Clock(slow),
         current_state \in {"COMPUTE", "STORE", "DONE"}
  PROVE  Stage' /\ (GoesOn \/ BeginsAnew)
<1> USE Larger
<1>1. /\ ReadingImage /\ Resting /\ Buffered /\ reads \in [Kept -> 0..Words]
      /\ image_addr_send_cnt \in Nat /\ image_addr_send_done \in BOOLEAN
  BY DEF SysInv, SysTypes
<1>2. /\ GoesOn \/ BeginsAnew
      /\ current_state = "COMPUTE" => current_state' \in {"COMPUTE", "STORE"}
      /\ current_state = "STORE" => current_state' \in {"STORE", "DONE"}
      /\ current_state = "DONE" => current_state' \in {"DONE", "IDLE"}
      /\ current_state' \in {"COMPUTE", "DONE", "IDLE"} => ~cnn_icb_cmd_valid'
  BY InStore, InBetween
<1>3. ~RdHsk(ready)
  BY Offers DEF RdHsk, CmdHsk
<1>4. weight_data_rcpt_done /\ image_addr_send_done
  BY <1>1 DEF Resting, ReadingImage
<1>5. /\ weight_data_rcpt_done' /\ weight_data_rcpt_cnt' = weight_data_rcpt_cnt
      /\ cur_weight' = cur_weight /\ image_data' = image_data /\ reads' = reads
      /\ weight_addr_send_done => weight_addr_send_done'
      /\ image_addr_send_done' /\ image_addr_send_done' \in BOOLEAN
      /\ image_addr_send_cnt' = image_addr_send_cnt
  BY <1>3, <1>4, Untouched
<1>6. ReadingWeights' /\ ReadingImage' /\ Resting'
  BY <1>1, <1>2, <1>4, <1>5 DEF ReadingWeights, ReadingImage, Resting
<1>7. Buffered'
  <2>1. \A k \in 0..LastWord : k < weight_data_rcpt_cnt' => cur_weight'[k] = Contents["weight"][k]
    BY <1>1, <1>5 DEF Buffered
  <2>2. current_state' \in {"COMPUTE", "STORE"} =>
          \A k \in 0..LastWord : image_data'[k] = Contents["image"][k]
    BY <1>1, <1>2, <1>5 DEF Buffered
  <2>3. current_state' # "LOAD_IMAGE"
    BY <1>2
  <2> QED BY <2>1, <2>2, <2>3 DEF Buffered, Contents
<1> QED BY <1>1, <1>2, <1>5, <1>6, <1>7 DEF Stage

\* Every cycle of the core, in whatever state.
LEMMA StageStep ==
  ASSUME SysInv, NEW slow \in BOOLEAN, Clock(slow)
  PROVE  Stage' /\ (GoesOn \/ BeginsAnew)
<1>1. current_state \in States
  BY Untouched
<1> QED BY <1>1, InIdle, InLoadWeight, LeavesLoadWeight, InLoadImage, LeavesLoadImage, Rests
        DEF States

-----------------------------------------------------------------------------
(* The array, and the system.                                               *)

\* What the feeds of a lane hand on is a word of the buffer or 0.
LEMMA FeedIsWord ==
  ASSUME CoreTypeOk, NEW buffer \in [0..LastWord -> Word], NEW k \in Lane
  PROVE  Feed(buffer, k) \in Word
<1>1. CASE mode = "SINGLE" /\ compute_cnt \in k..(k + Side - 1)
  <2>1. PICK j \in 0..(Side - 1) : compute_cnt - k = j
    <3>1. Side \in Nat /\ Side > 1 /\ k \in Nat /\ compute_cnt \in Nat
      BY Sizes DEF Lane, CoreTypeOk
    <3>2. compute_cnt - k \in 0..(Side - 1)
      BY <1>1, <3>1
    <3> QED BY <3>2
  <2>2. Side * k + j \in 0..LastWord
    BY InBuffer
  <2> QED BY <1>1, <2>1, <2>2 DEF Feed
<1>2. CASE ~(mode = "SINGLE" /\ compute_cnt \in k..(k + Side - 1))
  BY <1>2, CoreAssumption DEF Feed
<1> QED BY <1>1, <1>2

LEMMA ArrayStep ==
  ASSUME SysInv, NEW slow \in BOOLEAN, Clock(slow)
  PROVE  ArrayTypes'
<1>1. Compute /\ Command(ready)
  BY DEF Clock, CoreClock
<1>2. CoreTypeOk /\ ArrayTypes
  BY DEF SysInv
<1>3. in_data' \in [Lane -> Word] /\ in_weight' \in [Lane -> Word]
  <2>1. /\ in_data' = [k \in Lane |-> Feed(image_data, k)]
        /\ in_weight' = [k \in Lane |-> Feed(cur_weight, k)]
    BY <1>1 DEF Compute
  <2>2. \A k \in Lane : Feed(image_data, k) \in Word /\ Feed(cur_weight, k) \in Word
    BY <1>2, FeedIsWord DEF CoreTypeOk
  <2> QED BY <2>1, <2>2
<1>4. /\ in_data \in [Lane -> Word] /\ in_weight \in [Lane -> Word]
      /\ data_out \in [Lane -> [Lane -> Word]] /\ weight_out \in [Lane -> [Lane -> Word]]
      /\ result \in [Lane -> [Lane -> Products]]
  BY <1>2 DEF ArrayTypes
<1>5. /\ result' \in [Lane -> [Lane -> Products]]
      /\ data_out' \in [Lane -> [Lane -> Word]] /\ weight_out' \in [Lane -> [Lane -> Word]]
  <2>1. PeClock(mode, in_weight, in_data) /\ Array(Zero) \in [Lane -> [Lane -> Word]]
        /\ Array(<<>>) \in [Lane -> [Lane -> Products]]
    BY <1>1, CoreAssumption DEF Compute, Array, Products
  <2>2. CASE Single(in_weight, in_data)
    <3>1. ASSUME NEW r \in Lane, NEW c \in Lane
          PROVE  DataIn(in_data, r, c) \in Word /\ WeightIn(in_weight, r, c) \in Word
      <4>1. (c # 0 => c - 1 \in Lane) /\ (r # 0 => r - 1 \in Lane)
        BY Sizes DEF Lane
      <4> QED BY <1>4, <4>1 DEF DataIn, WeightIn
    <3>2. ASSUME NEW r \in Lane, NEW c \in Lane
          PROVE  Accumulate(result[r][c], WeightIn(in_weight, r, c), DataIn(in_data, r, c))
                   \in Products
      <4>1. PICK w \in Word, x \in Word : w = WeightIn(in_weight, r, c) /\ x = DataIn(in_data, r, c)
        BY <3>1
      <4>2. result[r][c] \in Products
        BY <1>4
      <4>3. Append(result[r][c], <<w, x>>) \in Products
        BY <4>2 DEF Products
      <4> QED BY <4>1, <4>2, <4>3 DEF Accumulate
    <3> QED BY <2>2, <3>1, <3>2 DEF Single
  <2>3. CASE Disable
    BY <1>4, <2>1, <2>3 DEF Disable
  <2>4. CASE Clear
    BY <2>1, <2>4 DEF Clear
  <2> QED BY <2>1, <2>2, <2>3, <2>4 DEF PeClock
<1>6. cnn_icb_cmd_wdata' \in Products
  <2>1. store_data_send_next \in Products
    BY <1>2, <1>4, InArray DEF store_data_send_next, CoreTypeOk
  <2>2. <<>> \in Products /\ cnn_icb_cmd_wdata \in Products
    BY <1>2 DEF Products, ArrayTypes
  <2> QED BY <1>1, <2>1, <2>2 DEF Command
<1> QED BY <1>3, <1>5, <1>6 DEF ArrayTypes

LEMMA SysInit == Init => SysInv
<1> SUFFICES ASSUME Init PROVE SysInv
  OBVIOUS
<1> USE Larger
<1>1. /\ CoreInit /\ FabricInit(Contents) /\ enable = FALSE
      /\ cpu_cmd = NoCmd /\ cpu_wait = NoCmd /\ reads = [t \in Kept |-> 0]
  BY DEF Init, Kept
<1>2. CtrlInv /\ CoreTypeOk
  BY <1>1, CtrlInit, TypeInit
<1>3. FabricHolds(SysCmds) /\ OneAtATime
  BY <1>1, SysFit, FabricHoldsInit
<1>4. /\ rspid_fifo = <<>> /\ cmd_fifo = <<>> /\ rsp_fifo = <<>> /\ splt_id = NoTarget
      /\ mem_r = Contents
  BY <1>1 DEF FabricInit
<1>5. /\ current_state = "IDLE" /\ ~cnn_icb_cmd_valid /\ cnn_icb_cmd_wdata = <<>>
      /\ weight_data_rcpt_cnt = 0 /\ ~weight_addr_send_done
      /\ image_addr_next = 0 /\ image_addr_send_cnt = 0 /\ image_addr_send_done = FALSE
      /\ image_data_rcpt_cnt = 0
  BY <1>1 DEF CoreInit
<1>6. SysTypes
  <2>1. reads \in [Kept -> 0..Words]
    BY <1>1
  <2>2. enable \in BOOLEAN /\ image_addr_send_done \in BOOLEAN /\ image_addr_send_cnt \in Nat
    BY <1>1, <1>5
  <2> QED BY <1>1, <2>1, <2>2, Zenon DEF SysTypes
<1>7. ArrayTypes
  BY <1>1, <1>5, CoreAssumption DEF CoreInit, PeInit, Array, ArrayTypes, Products
<1>8. MemKept
  <2>1. <<>> \in Seq(Word \X Word)
    OBVIOUS
  <2>2. \A w \in 0..(RamWords - 1) : mem_r["out"][w] = <<>>
    BY <1>4, ContentsAre
  <2> QED BY <1>4, <2>1, <2>2 DEF MemKept
<1>9. Traffic
  <2>1. Len(<<>>) = 0 /\ <<>> \in Seq(SysCmds)
    OBVIOUS
  <2>2. InPlace(<<>>) /\ OfCpu(<<>>)
    BY <1>4, <2>1 DEF InPlace, OfCpu
  <2>3. Received = 0 /\ Sent = 0
    BY <1>5 DEF Received, Sent
  <2>4. PICK nr : Counts(rspid_fifo, nr, 0, 0)
    <3>1. Len(rspid_fifo) \in Nat /\ \A k \in 1..Len(rspid_fifo) : rspid_fifo[k] # "cnn"
      BY <1>4, <2>1
    <3> DEFINE nr == [k \in 1..(Len(rspid_fifo) + 1) |-> 0]
    <3>2. Counts(rspid_fifo, nr, 0, 0)
      BY <3>1, CountsAnew
    <3> QED BY <3>2
  <2>5. OfCore(<<>>, nr)
    BY <1>4, <2>1, <2>3, <2>4 DEF OfCore
  <2> QED BY <2>2, <2>5 DEF Traffic
<1>10. ReadingWeights /\ ReadingImage
  BY <1>5 DEF ReadingWeights, ReadingImage
<1>11. Resting
  BY <1>5 DEF Resting, weight_data_rcpt_done
<1>12. Buffered
  BY <1>5 DEF Buffered
<1>13. Len(rsp_fifo) <= 1
  BY <1>4
<1> QED BY <1>2, <1>3, <1>6, <1>7, <1>8, <1>9, <1>10, <1>11, <1>12, <1>13 DEF SysInv

\* Every clock keeps the invariant.
LEMMA SysStep ==
  ASSUME SysInv, NEW slow \in BOOLEAN, Clock(slow)
  PROVE  SysInv'
<1>1. /\ CoreClock(enable, ready, RspTo("cnn")) /\ FabricClock(cpu_cmd, CnnCmd, slow)
      /\ Software
  BY DEF Clock
<1>2. enable \in BOOLEAN /\ ready \in BOOLEAN
  BY DEF SysInv, SysTypes, ready, CnnReady, ArbReady
<1>3. CtrlInv /\ CoreTypeOk
  BY DEF SysInv
<1>4. CtrlInv'
  BY <1>1, <1>2, <1>3, CtrlStep
<1>5. CoreTypeOk'
  <2>1. CtrlTypes'
    BY <1>4 DEF CtrlInv
  <2>2. current_state \in {"LOAD_WEIGHT", "LOAD_IMAGE"} => RspTo("cnn") \in Word \cup {NoWord}
    <3> SUFFICES ASSUME current_state \in {"LOAD_WEIGHT", "LOAD_IMAGE"}, RspTo("cnn") # NoRsp
                 PROVE  RspTo("cnn") \in Word
      BY SystemAssumption
    <3>1. /\ Received \in Nat /\ Sent \in Nat /\ Received + 1 <= Sent
          /\ \E t \in Kept : RspTo("cnn") = Contents[t][Received]
      BY <1>1, Counted DEF Kept
    <3>2. Sent \in 0..Words
      <4>1. reads["weight"] \in 0..Words /\ reads["image"] \in 0..Words /\ Words \in 0..Words
        BY Larger DEF SysInv, SysTypes, Kept
      <4> QED BY <4>1 DEF Sent
    <3>3. Received \in 0..(RamWords - 1)
      BY <3>1, <3>2, Larger, DepthAssumption, FabricAssumption
    <3> QED BY <3>1, <3>3, ContentsAre
  <2> QED BY <1>1, <1>2, <1>3, <2>1, <2>2, TypeStep
<1>6. FabricHolds(SysCmds)' /\ OneAtATime'
  <2>1. CnnCmd \in SysCmds \cup {NoCmd} /\ cpu_cmd \in SysCmds \cup {NoCmd}
    BY Offers DEF SysCmds, SysInv, SysTypes
  <2>2. CommandsFit(SysCmds) /\ FabricHolds(SysCmds) /\ OneAtATime
    BY SysFit DEF SysInv
  <2>3. FabricHolds(SysCmds)'
    BY <1>1, <2>1, <2>2, FabricStep
  <2>4. OneAtATime'
    BY <1>1, <2>2, MemoryStep
  <2> QED BY <2>3, <2>4
<1>7. Len(rsp_fifo') <= 1
  <2>1. \E d, a, i, r \in 0..1 : Moves(slow, d, a, i, r)
    BY DEF Moves
  <2>2. PICK d \in 0..1, a \in 0..1, i \in 0..1, r \in 0..1 : Moves(slow, d, a, i, r)
    BY <2>1
  <2> QED BY <1>1, <2>2, Prompt
<1>8. MemKept'
  BY <1>1, MemKeptStep
<1>9. Stage' /\ (GoesOn \/ BeginsAnew)
  BY StageStep
<1>10. Traffic' /\ cpu_cmd' \in CpuCmds \cup {NoCmd} /\ cpu_wait' \in CpuCmds \cup {NoCmd}
  BY <1>6, <1>9, TrafficStep
<1>11. SysTypes'
  <2>1. enable' \in BOOLEAN
    BY <1>1, <1>2 DEF Software, swVars
  <2> QED BY <1>9, <1>10, <2>1 DEF SysTypes, Stage
<1>12. ArrayTypes'
  BY ArrayStep
<1> QED BY <1>4, <1>5, <1>6, <1>7, <1>8, <1>9, <1>10, <1>11, <1>12 DEF SysInv, Stage

LEMMA SysStutter ==
  ASSUME SysInv, UNCHANGED vars
  PROVE  SysInv'
<1>1. UNCHANGED <<coreVars, fabricVars, swVars, cpuVars, delivered, reads>>
  BY DEF vars
<1>2. /\ UNCHANGED <<rspid_fifo, cmd_fifo, splt_id, byp_buf, e1_stage, addr_r, mem_r,
                     slow_busy, rsp_fifo>>
      /\ UNCHANGED <<enable, jobs, cpu_cmd, cpu_wait, delivered, reads>>
  BY <1>1 DEF fabricVars, swVars, cpuVars
<1>3. /\ UNCHANGED <<current_state, mode, done, cnn_icb_cmd_valid, cnn_icb_cmd_read,
                     cnn_icb_cmd_addr, cnn_icb_cmd_wdata, weight_addr_next,
                     weight_addr_send_cnt, weight_addr_send_done, weight_data_rcpt_cnt,
                     cur_weight, image_addr_next, image_addr_send_cnt, image_addr_send_done,
                     image_data_rcpt_cnt, image_data>>
      /\ UNCHANGED <<compute_cnt, in_weight, in_data, store_data_send_cnt, store_rsp_rcpt_cnt,
                     result, data_out, weight_out>>
  BY <1>1 DEF coreVars, seqVars, busVars, weightVars, imageVars, feedVars, storeVars, peVars
<1>4. CtrlInv' /\ CoreTypeOk'
  BY <1>1, CtrlStutter, TypeStutter DEF SysInv
<1>5. FabricHolds(SysCmds)'
  BY <1>1, FabricStutter DEF SysInv
<1>6. SysTypes' /\ ArrayTypes'
  BY <1>2, <1>3 DEF SysInv, SysTypes, ArrayTypes
<1>7. OneAtATime' /\ Len(rsp_fifo') <= 1 /\ MemKept'
  BY <1>2 DEF SysInv, OneAtATime, MemKept
<1>8. weight_data_rcpt_done' <=> weight_data_rcpt_done
  BY <1>3 DEF weight_data_rcpt_done
<1>9. Traffic'
  <2>1. PICK asked, nr : InPlace(asked) /\ OfCpu(asked) /\ OfCore(asked, nr)
    BY DEF SysInv, Traffic
  <2>2. Started' = Started /\ ReadData(splt_id)' = ReadData(splt_id)
    BY <1>2 DEF Started, Busy, ReadData
  <2>3. Received' = Received /\ Sent' = Sent
    BY <1>2, <1>3, <1>8 DEF Received, Sent
  <2>4. InPlace(asked)'
    BY <1>2, <2>1, <2>2 DEF InPlace
  <2>5. OfCpu(asked)'
    BY <1>2, <2>1 DEF OfCpu
  <2>6. OfCore(asked, nr)'
    BY <1>2, <1>3, <2>1, <2>3 DEF OfCore, Counts, IsRequest, At
  <2> QED BY <2>4, <2>5, <2>6 DEF Traffic
<1>10. ReadingWeights' /\ ReadingImage'
  BY <1>2, <1>3, <1>8 DEF SysInv, ReadingWeights, ReadingImage, Reading, Pressure, Level, Filled,
                         CpuQueues, FilledByCore, Started, Busy, At
<1>11. Resting'
  BY <1>3, <1>8 DEF SysInv, Resting
<1>12. Buffered'
  BY <1>3 DEF SysInv, Buffered, Contents
<1> QED BY <1>4, <1>5, <1>6, <1>7, <1>9, <1>10, <1>11, <1>12 DEF SysInv


-----------------------------------------------------------------------------
(* The theorems.                                                            *)

\* The inductive invariant holds in every state of the system.
THEOREM SysInvariant == Spec => []SysInv
<1>1. Init => SysInv
  BY SysInit
<1>2. SysInv /\ [Next]_vars => SysInv'
  BY SysStep, SysStutter DEF Next
<1> QED BY <1>1, <1>2, PTL DEF Spec

\* The core asks for no word beyond its buffers, for every depth of the bus
\* up to half a matrix: while the arbiter refuses the last read, send_done,
\* which lags by a cycle, comes up.
THEOREM SysNoSurplusRead == Spec => []NoSurplusRead
<1>1. SysInv => NoSurplusRead
  <2> SUFFICES ASSUME SysInv PROVE NoSurplusRead
    OBVIOUS
  <2>1. reads \in [Kept -> 0..Words]
    BY DEF SysInv, SysTypes
  <2> QED BY <2>1, Larger DEF NoSurplusRead, Kept
<1> QED BY <1>1, SysInvariant, PTL

\* Every buffer word is the memory's word of the same index when the array
\* starts, and stays so while it computes.
THEOREM SysBuffersHoldMemory == Spec => []BuffersHoldMemory
<1>1. SysInv => BuffersHoldMemory
  <2> SUFFICES ASSUME SysInv, current_state \in {"COMPUTE", "STORE"}, NEW k \in 0..LastWord
               PROVE  /\ cur_weight[k] = Contents["weight"][k]
                      /\ image_data[k] = Contents["image"][k]
    BY DEF BuffersHoldMemory
  <2>1. k < weight_data_rcpt_cnt
    BY Larger DEF SysInv, Resting, weight_data_rcpt_done
  <2> QED BY <2>1 DEF SysInv, Buffered
<1> QED BY <1>1, SysInvariant, PTL

\* The CPU is answered only while it waits, and with the word it asked for.
THEOREM SysCpuGetsItsAnswer == Spec => []CpuGetsItsAnswer
<1>1. SysInv => CpuGetsItsAnswer
  <2> SUFFICES ASSUME SysInv, RspTo("cpu") # NoRsp
               PROVE  /\ cpu_wait # NoCmd
                      /\ RspTo("cpu") = Answer(cpu_wait)
    BY DEF CpuGetsItsAnswer, Answer
  <2>1. PICK asked : InPlace(asked) /\ OfCpu(asked)
    BY DEF SysInv, Traffic
  <2>2. rsp_fifo # <<>> /\ rspid_fifo # <<>> /\ Head(rspid_fifo) = "cpu" /\ RspTo("cpu") = Head(rsp_fifo)
    BY DEF RspTo, Delivers
  <2>3. PICK S : rsp_fifo \in Seq(S)
    BY DEF SysInv, FabricHolds, RspIsQueue
  <2>4. rspid_fifo \in Seq(Masters)
    BY DEF SysInv, FabricHolds, FabricTypeOk
  <2>5. /\ 1 \in 1..Len(rsp_fifo) /\ rsp_fifo[1] = RspTo("cpu")
        /\ 1 \in 1..Len(rspid_fifo) /\ rspid_fifo[1] = "cpu"
    BY <2>2, <2>3, <2>4, EmptySeq
  <2>6. cpu_wait # NoCmd /\ asked[1] = cpu_wait /\ Answered(cpu_wait, RspTo("cpu"))
    BY <2>1, <2>5 DEF InPlace, OfCpu
  <2>7. cpu_wait \in CpuCmds
    BY <2>6 DEF SysInv, SysTypes
  <2>8. cpu_wait.addr.region # "out"
    BY <2>7, CpuAssumption
  <2> QED BY <2>6, <2>8 DEF Answered
<1> QED BY <1>1, SysInvariant, PTL

\* In the system, with responses that come from the fabric, the core keeps
\* its types, the feeds are aligned, and reads and writes leave in order.
THEOREM SysCoreInvariants ==
  Spec => [](CoreTypeOk /\ FeedsAligned /\ WeightReadsInOrder /\ StoreInOrder)
<1>1. SysInv => CoreTypeOk /\ FeedsAligned /\ WeightReadsInOrder /\ StoreInOrder
  BY DEF SysInv, CtrlInv
<1> QED BY <1>1, SysInvariant, PTL

\* In the system, every accepted command has one place and one owner.
THEOREM SysOneOwnerPerCommand == Spec => []OneOwnerPerCommand
<1>1. SysInv => OneOwnerPerCommand
  BY DEF SysInv, FabricHolds
<1> QED BY <1>1, SysInvariant, PTL


-----------------------------------------------------------------------------
(* The jobs.                                                                *)

\* The bus has taken the first results of the job, in their order.
Taken ==
  /\ current_state = "STORE" => delivered = [k \in 1..store_data_send_cnt |-> Expected[k]]
  /\ current_state \in {"LOAD_WEIGHT", "LOAD_IMAGE", "COMPUTE"} => delivered = <<>>

JobInv == SysInv /\ ProductInv /\ Taken

\* What the core writes is the next result of the job.
LEMMA WritesExpected ==
  ASSUME SysInv, ProductInv, current_state = "STORE", cnn_icb_cmd_valid
  PROVE  /\ store_data_send_cnt + 1 \in 1..Words
         /\ cnn_icb_cmd_wdata = Expected[store_data_send_cnt + 1]
<1> USE Larger
<1>1. store_data_send_cnt \in 0..LastWord
  BY DEF SysInv, CtrlInv, CtrlTypes, StoreInOrder
<1>2. \A k \in 0..LastWord : /\ cur_weight[k] = Contents["weight"][k]
                             /\ image_data[k] = Contents["image"][k]
                             /\ k \in 0..(RamWords - 1)
  <2>1. weight_data_rcpt_cnt = Words
    BY DEF SysInv, Resting, weight_data_rcpt_done
  <2> QED BY <2>1, DepthAssumption, FabricAssumption DEF SysInv, Buffered
<1>3. Loaded
  BY <1>2, ContentsAre DEF Loaded, Kept
<1>4. PICK r \in Lane, c \in Lane : r = store_data_send_cnt \div Side /\ c = store_data_send_cnt % Side
  BY <1>1, InArray
<1>5. cnn_icb_cmd_wdata = Product(image_data, cur_weight)[r][c]
  BY <1>3, <1>4 DEF ProductInv, StoresProduct, Finished
<1>6. Product(image_data, cur_weight)[r][c] = ExpectedResult[r][c]
  <2>1. ASSUME NEW j \in 1..Side
        PROVE  /\ cur_weight[Side * c + j - 1] = Contents["weight"][Side * c + j - 1]
               /\ image_data[Side * r + j - 1] = Contents["image"][Side * r + j - 1]
    <3>1. Side * c \in Int /\ Side * r \in Int
      <4>1. c \in Int /\ r \in Int /\ Side \in Int
        BY Sizes DEF Lane
      <4> QED BY <4>1, SMT
    <3>2. j - 1 \in 0..(Side - 1)
      BY Sizes
    <3>3. Side * c + (j - 1) \in 0..LastWord /\ Side * r + (j - 1) \in 0..LastWord
      BY <3>2, InBuffer
    <3>4. Side * c + (j - 1) = Side * c + j - 1 /\ Side * r + (j - 1) = Side * r + j - 1
      BY <3>1, <3>2
    <3> QED BY <1>2, <3>3, <3>4
  <2>2. PICK wt, im : wt = Contents["weight"] /\ im = Contents["image"]
    OBVIOUS
  <2>3. ExpectedResult[r][c] = [j \in 1..Side |-> <<wt[Side * c + j - 1], im[Side * r + j - 1]>>]
    BY <2>2 DEF ExpectedResult, Product
  <2>4. Product(image_data, cur_weight)[r][c] =
          [j \in 1..Side |-> <<cur_weight[Side * c + j - 1], image_data[Side * r + j - 1]>>]
    BY DEF Product
  <2> QED BY <2>1, <2>2, <2>3, <2>4
<1>7. store_data_send_cnt + 1 \in 1..Words /\ (store_data_send_cnt + 1) - 1 = store_data_send_cnt
  BY <1>1
<1>8. Expected[store_data_send_cnt + 1] = ExpectedResult[r][c]
  BY <1>4, <1>7 DEF Expected
<1> QED BY <1>5, <1>6, <1>7, <1>8

LEMMA ExpectedIs == /\ Expected = [k \in 1..Words |-> Expected[k]]
                    /\ Len(Expected) = Words
BY Larger DEF Expected

\* A cycle is a step of the job, or none; what is taken stays in order.
LEMMA JobStep ==
  ASSUME JobInv, NEW slow \in BOOLEAN, Clock(slow)
  PROVE  Taken' /\ (Accel!Next \/ UNCHANGED <<Phase, delivered>>)
<1> USE Larger
<1>1. SysInv /\ ProductInv /\ Taken
  BY DEF JobInv
<1>2. History /\ FabricClock(cpu_cmd, CnnCmd, slow)
  BY DEF Clock
<1>3. current_state' = NextState(enable) /\ current_state \in States
  BY <1>1, Untouched
<1>4. WrHsk(ready) => current_state = "STORE" /\ cnn_icb_cmd_valid
  BY <1>1, Offers DEF WrHsk, CmdHsk
<1>5. CASE current_state = "IDLE"
  <2>1. CASE enable
    <3>1. delivered' = <<>> /\ current_state' = "LOAD_WEIGHT"
      BY <1>2, <1>3, <1>5, <2>1 DEF History, NextState
    <3>2. Phase = "idle" /\ Phase' = "busy"
      BY <1>5, <3>1 DEF Phase
    <3> QED BY <3>1, <3>2 DEF Taken, Accel!Next, Accel!Start
  <2>2. CASE ~enable
    <3>1. delivered' = delivered /\ current_state' = "IDLE"
      BY <1>2, <1>3, <1>4, <1>5, <2>2 DEF History, NextState
    <3>2. Phase' = Phase
      BY <1>5, <3>1 DEF Phase
    <3> QED BY <3>1, <3>2 DEF Taken
  <2> QED BY <2>1, <2>2
<1>6. CASE current_state \in {"LOAD_WEIGHT", "LOAD_IMAGE", "COMPUTE"}
  <2>1. delivered' = delivered /\ delivered = <<>>
    BY <1>1, <1>2, <1>4, <1>6 DEF History, Taken
  <2>2. /\ current_state' \in {"LOAD_WEIGHT", "LOAD_IMAGE", "COMPUTE", "STORE"}
        /\ current_state' = "STORE" => current_state = "COMPUTE"
    BY <1>3, <1>6 DEF NextState
  <2>3. Phase' = Phase
    BY <1>6, <2>2 DEF Phase
  <2>4. current_state' = "STORE" => store_data_send_cnt' = 0
    BY <1>1, <2>2, Untouched
  <2>5. current_state' = "STORE" => delivered' = [k \in 1..store_data_send_cnt' |-> Expected[k]]
    <3>1. [k \in 1..0 |-> Expected[k]] = <<>>
      OBVIOUS
    <3> QED BY <2>1, <2>4, <3>1
  <2>6. Taken'
    BY <2>1, <2>5 DEF Taken, Expected, ExpectedResult, Contents, Product
  <2> QED BY <2>1, <2>3, <2>6
<1>7. CASE current_state = "STORE"
  <2>1. /\ store_data_send_cnt \in 0..Words /\ StoreInOrder
        /\ delivered = [k \in 1..store_data_send_cnt |-> Expected[k]]
    BY <1>1, <1>7 DEF SysInv, CtrlInv, CtrlTypes, Taken
  <2>2. Phase = "busy"
    BY <1>7 DEF Phase
  <2>3. GoesOn \/ BeginsAnew
    BY <1>1, <1>7, InStore
  <2>4. delivered' = IF WrHsk(ready) THEN Append(delivered, cnn_icb_cmd_wdata) ELSE delivered
    BY <1>2, <1>7 DEF History
  <2>5. CASE store_done
    <3>1. current_state' = "DONE"
      BY <1>3, <1>7, <2>5 DEF NextState
    <3>2. store_data_send_cnt = Words
      <4>1. Received <= Sent /\ Received = Words /\ Sent = store_data_send_cnt
        BY <1>1, <1>2, <1>7, <2>5, Counted DEF Received, Sent, store_done
      <4> QED BY <2>1, <4>1
    <3>3. ~cnn_icb_cmd_valid
      BY <1>7, <2>1, <3>2 DEF StoreInOrder
    <3>4. delivered' = delivered
      BY <1>4, <2>4, <3>3
    <3>5. delivered = Expected
      BY <2>1, <3>2, ExpectedIs
    <3>6. Phase' = "finished"
      BY <3>1 DEF Phase
    <3> QED BY <2>2, <3>1, <3>4, <3>5, <3>6 DEF Taken, Accel!Next, Accel!Finish
  <2>6. CASE ~store_done
    <3>1. current_state' = "STORE" /\ Phase' = "busy"
      BY <1>3, <1>7, <2>6 DEF NextState, Phase
    <3>2. store_data_send_cnt' = store_data_send_cnt + (IF WrHsk(ready) THEN 1 ELSE 0)
      <4>1. Store(ready, RspTo("cnn"))
        BY DEF Clock, CoreClock
      <4>2. PICK taken \in 0..1 : taken = IF WrHsk(ready) THEN 1 ELSE 0
        OBVIOUS
      <4>3. store_data_send_cnt' = (store_data_send_cnt + taken) % (2 * Words)
        BY <1>7, <4>1, <4>2 DEF Store
      <4>4. /\ store_data_send_cnt + taken \in Nat /\ 2 * Words \in Nat
            /\ store_data_send_cnt + taken < 2 * Words
        BY <2>1
      <4> QED BY <4>2, <4>3, <4>4, SmallMod
    <3>3. CASE ~WrHsk(ready)
      <4>1. delivered' = delivered /\ store_data_send_cnt' = store_data_send_cnt
        BY <2>1, <2>4, <3>2, <3>3
      <4>2. delivered' = [k \in 1..store_data_send_cnt' |-> Expected[k]]
        BY <2>1, <4>1
      <4>3. Taken'
        BY <3>1, <4>2 DEF Taken, Expected, ExpectedResult, Contents, Product
      <4> QED BY <2>2, <3>1, <4>1, <4>3
    <3>4. CASE WrHsk(ready)
      <4>0. PICK v : v = cnn_icb_cmd_wdata
        OBVIOUS
      <4>1. PICK n \in Nat : n = store_data_send_cnt
        BY <2>1
      <4>2. n + 1 \in 1..Words /\ v = Expected[n + 1]
        BY <1>1, <1>4, <1>7, <3>4, <4>0, <4>1, WritesExpected
      <4>3. delivered = [k \in 1..n |-> Expected[k]] /\ Len(delivered) = n
        BY <2>1, <4>1
      <4>4. Append(delivered, v) = [k \in 1..(n + 1) |-> Expected[k]]
        BY <4>2, <4>3
      <4>5. store_data_send_cnt' = n + 1 /\ delivered' = Append(delivered, v)
        BY <2>4, <3>2, <3>4, <4>0, <4>1
      <4>6. delivered' = [k \in 1..store_data_send_cnt' |-> Expected[k]]
        BY <4>4, <4>5
      <4>7. Taken'
        BY <3>1, <4>6 DEF Taken, Expected, ExpectedResult, Contents, Product
      <4>8. Accel!Deliver
        BY <2>2, <3>1, <4>2, <4>3, <4>5, ExpectedIs DEF Accel!Deliver
      <4> QED BY <4>7, <4>8 DEF Accel!Next
    <3> QED BY <3>3, <3>4
  <2> QED BY <2>5, <2>6
<1>8. CASE current_state = "DONE"
  <2>1. delivered' = delivered
    BY <1>2, <1>4, <1>8 DEF History
  <2>2. current_state' \in {"DONE", "IDLE"}
    BY <1>3, <1>8 DEF NextState
  <2>3. Phase = "finished" /\ Phase' = IF current_state' = "IDLE" THEN "idle" ELSE "finished"
    BY <1>8, <2>2 DEF Phase
  <2>4. Taken'
    BY <2>2 DEF Taken
  <2> QED BY <2>1, <2>2, <2>3, <2>4 DEF Accel!Next, Accel!Release
<1> QED BY <1>3, <1>5, <1>6, <1>7, <1>8 DEF States

LEMMA JobInit == Init => JobInv
<1> SUFFICES ASSUME Init PROVE JobInv
  OBVIOUS
<1>1. SysInv
  BY SysInit
<1>2. CoreInit /\ delivered = <<>>
  BY DEF Init
<1>3. ProductInv
  BY <1>2, ProductInit
<1>4. current_state = "IDLE"
  BY <1>2 DEF CoreInit
<1> QED BY <1>1, <1>3, <1>4 DEF JobInv, Taken

LEMMA JobInvStep == JobInv /\ [Next]_vars => JobInv' /\ [Accel!Next]_<<Phase, delivered>>
<1> SUFFICES ASSUME JobInv, [Next]_vars
             PROVE  JobInv' /\ (Accel!Next \/ UNCHANGED <<Phase, delivered>>)
  OBVIOUS
<1>1. CASE Next
  <2>1. PICK slow \in BOOLEAN : Clock(slow)
    BY <1>1 DEF Next
  <2>2. SysInv /\ ProductInv
    BY DEF JobInv
  <2>3. SysInv'
    BY <2>1, <2>2, SysStep
  <2>4. ProductInv'
    <3>1. CtrlInv /\ CtrlInv' /\ CoreTypeOk /\ CoreTypeOk'
      BY <2>2, <2>3 DEF SysInv
    <3>2. enable \in BOOLEAN /\ ready \in BOOLEAN /\ CoreClock(enable, ready, RspTo("cnn"))
      BY <2>1, <2>2 DEF SysInv, SysTypes, Clock, ready, CnnReady, ArbReady
    <3> QED BY <2>2, <3>1, <3>2, ProductStep
  <2> QED BY <2>1, <2>3, <2>4, JobStep DEF JobInv
<1>2. CASE UNCHANGED vars
  <2>1. /\ UNCHANGED coreVars /\ UNCHANGED <<current_state, store_data_send_cnt, delivered>>
    BY <1>2 DEF vars, coreVars, seqVars, storeVars
  <2>2. SysInv' /\ ProductInv'
    BY <1>2, <2>1, SysStutter, ProductStutter DEF JobInv
  <2>3. Taken'
    BY <2>1 DEF JobInv, Taken, Expected, ExpectedResult, Contents, Product
  <2>4. UNCHANGED <<Phase, delivered>>
    BY <2>1 DEF Phase
  <2> QED BY <2>2, <2>3, <2>4 DEF JobInv
<1> QED BY <1>1, <1>2

\* The accelerator in the SoC implements MatMulAccel: whatever the CPU does
\* on the shared bus, each job delivers the words of the matrix product, each
\* once, in row order and finished, and DONE comes after the last.
THEOREM SysImplementsAccel == Spec => ImplementsAccel
<1>1. Init => Accel!Init
  BY DEF Init, CoreInit, Phase, Accel!Init
<1> QED BY <1>1, JobInit, JobInvStep, PTL DEF Spec, ImplementsAccel, Accel!Spec

=============================================================================
