-------------------------- MODULE MemFabric_proofs --------------------------
(***************************************************************************)
(* One clock of the memory fabric, for all depths and whatever its two     *)
(* masters offer: no FIFO overflows, the arbiter's order FIFO keeps one    *)
(* entry for each command behind it, the splitter's command is done in the *)
(* cycle it is issued, and each queue moves by at most one place; a slow   *)
(* slave may even answer in that cycle.  The                               *)
(* proofs about the fabric with two free masters (FabricOrder_proofs) and  *)
(* with the CPU and the accelerator (CnnSystem_proofs) rest on these       *)
(* lemmas.  p0 and p1 are what the masters offer, Cmds holds it.           *)
(***************************************************************************)
EXTENDS MemFabric, SequenceTheorems, TLAPS

\* The commands of the masters go to a target of the bus and to a word of it.
CommandsFit(Cmds) ==
  /\ NoCmd \notin Cmds /\ NoTarget \notin Targets
  /\ \A cmd \in Cmds : /\ cmd.addr.region \in Targets
                        /\ WordOf(cmd.addr) \in 0..(RamWords - 1)

\* FIFOs and buffers hold such commands.
InBus(Cmds) == cmd_fifo \in Seq(Cmds) /\ byp_buf \in [Rams -> Seq(Cmds)]

\* rsp_fifo holds words of whatever kind the memories hold.
RspIsQueue == \E S : rsp_fifo \in Seq(S)

FabricHolds(Cmds) == InBus(Cmds) /\ RspIsQueue /\ FabricTypeOk /\ OneOwnerPerCommand

-----------------------------------------------------------------------------
\* What is left after a pop, and what a push adds.
LEMMA JoinLength ==
  ASSUME NEW S, NEW rest \in Seq(S), NEW new \in Seq(S)
  PROVE  rest \o new \in Seq(S) /\ Len(rest \o new) = Len(rest) + Len(new)
OBVIOUS

\* With one command outstanding the bypass buffers stay empty: a command that
\* the splitter issues is at the SRAM in the same cycle, and a target is busy
\* exactly while the splitter waits for it.
OneAtATime ==
  /\ \A t \in Rams : byp_buf[t] = <<>> /\ (e1_stage[t] <=> splt_id = t)
  /\ slow_busy <=> splt_id = "slow"

\* The command writes word w of SRAM t.
WritesWord(cmd, t, w) == ~cmd.read /\ cmd.addr.region = t /\ WordOf(cmd.addr) = w

LEMMA FabricHoldsInit ==
  ASSUME NEW Cmds, NEW contents, FabricInit(contents), CommandsFit(Cmds)
  PROVE  FabricHolds(Cmds) /\ OneAtATime
<1>1. /\ rspid_fifo = <<>> /\ cmd_fifo = <<>> /\ rsp_fifo = <<>> /\ splt_id = NoTarget
      /\ byp_buf = [t \in Rams |-> <<>>] /\ e1_stage = [t \in Rams |-> FALSE]
      /\ addr_r = [t \in Rams |-> 0] /\ slow_busy = FALSE
  BY DEF FabricInit
<1>2. InBus(Cmds) /\ RspIsQueue
  BY <1>1 DEF InBus, RspIsQueue
<1>3. FabricTypeOk
  <2>1. rspid_fifo \in Seq(Masters) /\ Len(rspid_fifo) = 0
        /\ Len(cmd_fifo) = 0 /\ Len(rsp_fifo) = 0
    BY <1>1
  <2>2. 0 \in 0..(RamWords - 1) /\ 0 <= ArbOuts /\ 0 <= FifoDP /\ 0 <= 1 /\ Len(<<>>) = 0
    BY FabricAssumption
  <2>3. addr_r \in [Rams -> 0..(RamWords - 1)] /\ e1_stage \in [Rams -> BOOLEAN]
    BY <1>1, <2>2
  <2>4. \A t \in Rams : Len(byp_buf[t]) <= 1
    BY <1>1, <2>2
  <2> QED BY <1>1, <2>1, <2>2, <2>3, <2>4, Zenon DEF FabricTypeOk
<1>4. OneOwnerPerCommand
  BY <1>1 DEF OneOwnerPerCommand, InFlight
<1>5. OneAtATime
  BY <1>1 DEF OneAtATime, CommandsFit, Targets
<1> QED BY <1>2, <1>3, <1>4, <1>5 DEF FabricHolds

\* Every clock keeps FabricHolds, whichever stages move in it.
LEMMA FabricStep ==
  ASSUME NEW Cmds, CommandsFit(Cmds), NEW p0 \in Cmds \cup {NoCmd}, NEW p1 \in Cmds \cup {NoCmd},
         NEW slow \in BOOLEAN, FabricHolds(Cmds), FabricClock(p0, p1, slow)
  PROVE  FabricHolds(Cmds)'
<1> DEFINE acc == Accepted(p0, p1)
           cmd == Offered(p0, p1)
<1>1. /\ InBus(Cmds) /\ RspIsQueue /\ FabricTypeOk /\ OneOwnerPerCommand
  BY DEF FabricHolds
<1>2. PICK S : rsp_fifo \in Seq(S)
  BY <1>1 DEF RspIsQueue
<1>3. /\ acc \in BOOLEAN /\ Issues \in BOOLEAN /\ Delivers \in BOOLEAN
      /\ Returns(slow) \in BOOLEAN
  BY DEF Accepted, Issues, Delivers, Returns
<1>4. /\ acc => Len(rspid_fifo) < ArbOuts /\ Len(cmd_fifo) < FifoDP /\ cmd \in Cmds
      /\ acc => Granted(p0, p1) \in Masters
      /\ Issues => cmd_fifo # <<>> /\ splt_id = NoTarget
      /\ Delivers => rsp_fifo # <<>> /\ rspid_fifo # <<>>
      /\ Returns(slow) => (splt_id # NoTarget \/ Issues) /\ Len(rsp_fifo) < FifoDP
  BY <1>1 DEF InBus, Accepted, ArbReady, Offered, Granted, Masters, Issues, Delivers,
              Returns, AtOnce, IssuedTo
<1> HIDE DEF acc, cmd
<1>5. Issues => /\ Head(cmd_fifo) \in Cmds
                /\ Head(cmd_fifo).addr.region \in Targets
                /\ Head(cmd_fifo).addr.region # NoTarget
  BY <1>1, <1>4 DEF InBus, CommandsFit
\* The three FIFOs.
<1>6. /\ rspid_fifo' \in Seq(Masters)
      /\ Len(rspid_fifo') = Len(rspid_fifo) - (IF Delivers THEN 1 ELSE 0) + (IF acc THEN 1 ELSE 0)
  <2> DEFINE rest == IF Delivers THEN Tail(rspid_fifo) ELSE rspid_fifo
             new  == IF acc THEN <<Granted(p0, p1)>> ELSE <<>>
  <2>1. rspid_fifo' = rest \o new
    BY <1>1 DEF FabricClock, Moved, acc, cmd
  <2>2. rspid_fifo \in Seq(Masters)
    BY <1>1 DEF FabricTypeOk
  <2>3. rest \in Seq(Masters) /\ Len(rest) = Len(rspid_fifo) - (IF Delivers THEN 1 ELSE 0)
    BY <1>4, <2>2
  <2>4. new \in Seq(Masters) /\ Len(new) = (IF acc THEN 1 ELSE 0)
    BY <1>4
  <2> HIDE DEF rest, new
  <2>5. rest \o new \in Seq(Masters) /\ Len(rest \o new) = Len(rest) + Len(new)
    BY <2>3, <2>4, JoinLength
  <2> QED BY <2>1, <2>3, <2>4, <2>5
<1>7. /\ cmd_fifo' \in Seq(Cmds)
      /\ Len(cmd_fifo') = Len(cmd_fifo) - (IF Issues THEN 1 ELSE 0) + (IF acc THEN 1 ELSE 0)
  <2> DEFINE rest == IF Issues THEN Tail(cmd_fifo) ELSE cmd_fifo
             new  == IF acc THEN <<cmd>> ELSE <<>>
  <2>1. cmd_fifo' = rest \o new
    BY <1>1 DEF FabricClock, Moved, acc, cmd
  <2>2. cmd_fifo \in Seq(Cmds)
    BY <1>1 DEF InBus
  <2>3. rest \in Seq(Cmds) /\ Len(rest) = Len(cmd_fifo) - (IF Issues THEN 1 ELSE 0)
    BY <1>4, <2>2
  <2>4. new \in Seq(Cmds) /\ Len(new) = (IF acc THEN 1 ELSE 0)
    BY <1>4
  <2> HIDE DEF rest, new
  <2>5. rest \o new \in Seq(Cmds) /\ Len(rest \o new) = Len(rest) + Len(new)
    BY <2>3, <2>4, JoinLength
  <2> QED BY <2>1, <2>3, <2>4, <2>5
<1>8. /\ RspIsQueue'
      /\ Len(rsp_fifo') = Len(rsp_fifo) - (IF Delivers THEN 1 ELSE 0)
                                        + (IF Returns(slow) THEN 1 ELSE 0)
  <2> DEFINE T == S \cup {ReadData(splt_id)}
             rest == IF Delivers THEN Tail(rsp_fifo) ELSE rsp_fifo
             new  == IF Returns(slow) THEN <<ReadData(splt_id)>> ELSE <<>>
  <2>1. rsp_fifo' = rest \o new
    BY <1>1 DEF FabricClock, Moved
  <2>2. rsp_fifo \in Seq(T) /\ ReadData(splt_id) \in T
    BY <1>2
  <2> HIDE DEF T
  <2>3. rest \in Seq(T) /\ Len(rest) = Len(rsp_fifo) - (IF Delivers THEN 1 ELSE 0)
    BY <1>4, <2>2
  <2>4. new \in Seq(T) /\ Len(new) = (IF Returns(slow) THEN 1 ELSE 0)
    BY <2>2
  <2> HIDE DEF rest, new
  <2>5. rsp_fifo' \in Seq(T) /\ Len(rsp_fifo') = Len(rest) + Len(new)
    BY <2>1, <2>3, <2>4, JoinLength
  <2> QED BY <2>3, <2>4, <2>5 DEF RspIsQueue
\* The splitter.
<1>9. /\ Returns(slow) => splt_id' = NoTarget
      /\ Issues /\ ~Returns(slow) => splt_id' = Head(cmd_fifo).addr.region
      /\ ~Issues /\ ~Returns(slow) => splt_id' = splt_id
  BY <1>1, <1>4 DEF FabricClock
<1>10. OneOwnerPerCommand'
  <2>1. Len(rspid_fifo) \in Nat /\ Len(cmd_fifo) \in Nat /\ Len(rsp_fifo) \in Nat
    BY <1>1, <1>2 DEF InBus, FabricTypeOk
  <2>2. (IF splt_id' = NoTarget THEN 0 ELSE 1) =
          (IF splt_id = NoTarget THEN 0 ELSE 1) + (IF Issues THEN 1 ELSE 0)
                                                - (IF Returns(slow) THEN 1 ELSE 0)
    BY <1>4, <1>5, <1>9
  <2>3. Len(rspid_fifo) = Len(rsp_fifo) + Len(cmd_fifo) + (IF splt_id = NoTarget THEN 0 ELSE 1)
    BY <1>1 DEF OneOwnerPerCommand, InFlight
  <2> DEFINE d == IF Delivers THEN 1 ELSE 0
             a == IF acc THEN 1 ELSE 0
             i == IF Issues THEN 1 ELSE 0
             r == IF Returns(slow) THEN 1 ELSE 0
             busy == IF splt_id = NoTarget THEN 0 ELSE 1
             next == IF splt_id' = NoTarget THEN 0 ELSE 1
  <2>4. d \in Int /\ a \in Int /\ i \in Int /\ r \in Int /\ busy \in Int /\ next \in Int
    OBVIOUS
  <2>5. /\ Len(rspid_fifo') = Len(rspid_fifo) - d + a
        /\ Len(cmd_fifo') = Len(cmd_fifo) - i + a
        /\ Len(rsp_fifo') = Len(rsp_fifo) - d + r
        /\ next = busy + i - r
        /\ Len(rspid_fifo) = Len(rsp_fifo) + Len(cmd_fifo) + busy
    BY <1>6, <1>7, <1>8, <2>2, <2>3
  <2> HIDE DEF d, a, i, r, busy
  <2>6. Len(rspid_fifo') = Len(rsp_fifo') + Len(cmd_fifo') + next
    <3> HIDE DEF next
    <3> QED BY <2>1, <2>4, <2>5
  <2> QED BY <2>6 DEF OneOwnerPerCommand, InFlight
\* The SRAM controllers: a bypass buffer takes a command only when empty.
<1>11. /\ byp_buf' \in [Rams -> Seq(Cmds)] /\ \A t \in Rams : Len(byp_buf'[t]) <= 1
       /\ e1_stage' \in [Rams -> BOOLEAN]
       /\ addr_r' \in [Rams -> 0..(RamWords - 1)]
  <2>1. Sram(slow)
    BY <1>1 DEF FabricClock
  <2>2. \A t \in Rams : Waiting(t) \in Seq(Cmds) /\ Len(Waiting(t)) <= 1
    <3> SUFFICES ASSUME NEW t \in Rams PROVE Waiting(t) \in Seq(Cmds) /\ Len(Waiting(t)) <= 1
      OBVIOUS
    <3>1. byp_buf[t] \in Seq(Cmds) /\ Len(byp_buf[t]) <= 1
      BY <1>1 DEF InBus, FabricTypeOk
    <3>2. CASE IssuedTo(t)
      <4>1. Head(cmd_fifo) \in Cmds
        BY <1>5, <3>2 DEF IssuedTo
      <4>2. byp_buf[t] = <<>>
        BY <3>2 DEF IssuedTo, Issues, TargetReady
      <4>3. Waiting(t) = <<>> \o <<Head(cmd_fifo)>>
        BY <3>2, <4>2 DEF Waiting
      <4>4. <<Head(cmd_fifo)>> \in Seq(Cmds)
        BY <4>1
      <4>5. Waiting(t) = <<Head(cmd_fifo)>>
        BY <4>3, <4>4
      <4> QED BY <4>4, <4>5
    <3>3. CASE ~IssuedTo(t)
      <4>1. Waiting(t) = byp_buf[t] \o <<>>
        BY <3>3 DEF Waiting
      <4> QED BY <3>1, <4>1
    <3> QED BY <3>2, <3>3
  <2>3. byp_buf' \in [Rams -> Seq(Cmds)] /\ \A t \in Rams : Len(byp_buf'[t]) <= 1
    <3> SUFFICES ASSUME NEW t \in Rams
                 PROVE  LET w == IF Accesses(t, slow) THEN Tail(Waiting(t)) ELSE Waiting(t)
                        IN  w \in Seq(Cmds) /\ Len(w) <= 1
      BY <2>1 DEF Sram
    <3>1. Waiting(t) \in Seq(Cmds) /\ Len(Waiting(t)) <= 1
      BY <2>2
    <3>2. Accesses(t, slow) => Waiting(t) # <<>>
      BY DEF Accesses
    <3> QED BY <3>1, <3>2
  <2>4. e1_stage' \in [Rams -> BOOLEAN]
    BY <2>1 DEF Sram, Accesses
  <2>5. addr_r' \in [Rams -> 0..(RamWords - 1)]
    <3> SUFFICES ASSUME NEW t \in Rams, RamReads(t, slow)
                 PROVE  WordOf(Head(Waiting(t)).addr) \in 0..(RamWords - 1)
      BY <1>1, <2>1 DEF Sram, FabricTypeOk
    <3>1. Head(Waiting(t)) \in Cmds
      BY <2>2 DEF RamReads, Accesses
    <3> QED BY <3>1 DEF CommandsFit
  <2> QED BY <2>3, <2>4, <2>5
<1>12. FabricTypeOk'
  <2>1. Len(rspid_fifo') <= ArbOuts /\ Len(cmd_fifo') <= FifoDP /\ Len(rsp_fifo') <= FifoDP
    <3>1. /\ Len(rspid_fifo) \in Nat /\ Len(cmd_fifo) \in Nat /\ Len(rsp_fifo) \in Nat
          /\ Len(rspid_fifo) <= ArbOuts /\ Len(cmd_fifo) <= FifoDP /\ Len(rsp_fifo) <= FifoDP
      BY <1>1, <1>2 DEF InBus, FabricTypeOk
    <3>2. Len(rspid_fifo') <= ArbOuts
      BY <1>4, <1>6, <3>1, FabricAssumption
    <3>3. Len(cmd_fifo') <= FifoDP
      BY <1>4, <1>7, <3>1, FabricAssumption
    <3>4. Len(rsp_fifo') <= FifoDP
      BY <1>4, <1>8, <3>1, FabricAssumption
    <3> QED BY <3>2, <3>3, <3>4
  <2>2. splt_id' \in Targets \cup {NoTarget}
    BY <1>1, <1>5, <1>9 DEF FabricTypeOk
  <2>3. slow_busy' \in BOOLEAN
    <3>1. slow_busy' = ((IssuedTo("slow") \/ slow_busy) /\ ~ReturnedBy("slow", slow))
      BY <1>1 DEF FabricClock, Slow
    <3> QED BY <3>1
  <2> QED BY <1>6, <1>11, <2>1, <2>2, <2>3 DEF FabricTypeOk
<1>13. InBus(Cmds)'
  BY <1>7, <1>11 DEF InBus
<1> QED BY <1>8, <1>10, <1>12, <1>13 DEF FabricHolds

LEMMA FabricStutter ==
  ASSUME NEW Cmds, FabricHolds(Cmds), UNCHANGED fabricVars
  PROVE  FabricHolds(Cmds)'
<1>1. UNCHANGED <<rspid_fifo, cmd_fifo, splt_id, byp_buf, e1_stage, addr_r, slow_busy, rsp_fifo>>
  BY DEF fabricVars
<1> QED BY <1>1 DEF FabricHolds, InBus, RspIsQueue, FabricTypeOk, OneOwnerPerCommand, InFlight

-----------------------------------------------------------------------------
\* The memories in a cycle: the command the splitter issues is done, and
\* nothing else changes a memory, a read register or the splitter.
LEMMA MemoryStep ==
  ASSUME NEW Cmds, CommandsFit(Cmds), NEW p0, NEW p1, NEW slow \in BOOLEAN,
         FabricHolds(Cmds), OneAtATime, FabricClock(p0, p1, slow)
  PROVE  /\ OneAtATime'
         /\ \A t \in Rams, w \in 0..(RamWords - 1) :
              mem_r'[t][w] = IF Issues /\ WritesWord(Head(cmd_fifo), t, w)
                             THEN Head(cmd_fifo).wdata ELSE mem_r[t][w]
         /\ \A t \in Rams :
              addr_r'[t] = IF IssuedTo(t) /\ Head(cmd_fifo).read
                           THEN WordOf(Head(cmd_fifo).addr) ELSE addr_r[t]
         /\ Issues => splt_id = NoTarget /\ Head(cmd_fifo) \in Cmds /\ cmd_fifo # <<>>
         /\ Issues /\ Returns(slow) => Head(cmd_fifo).addr.region = "slow"
         /\ splt_id' = IF Returns(slow) THEN NoTarget
                       ELSE IF Issues THEN Head(cmd_fifo).addr.region ELSE splt_id
  <1>1. /\ cmd_fifo \in Seq(Cmds) /\ splt_id \in Targets \cup {NoTarget}
        /\ e1_stage \in [Rams -> BOOLEAN] /\ slow_busy \in BOOLEAN
    BY DEF FabricHolds, InBus, FabricTypeOk
  <1>2. Issues => /\ splt_id = NoTarget /\ cmd_fifo # <<>> /\ Head(cmd_fifo) \in Cmds
                  /\ Head(cmd_fifo).addr.region \in Targets
    BY <1>1 DEF Issues, CommandsFit
  <1>3. NoTarget \notin Targets /\ Targets = Rams \cup {"slow"} /\ "slow" \notin Rams
    BY FabricAssumption DEF Targets, CommandsFit
  <1>4. \A t \in Rams : Waiting(t) = IF IssuedTo(t) THEN <<Head(cmd_fifo)>> ELSE <<>>
    <2> SUFFICES ASSUME NEW t \in Rams
                 PROVE  Waiting(t) = IF IssuedTo(t) THEN <<Head(cmd_fifo)>> ELSE <<>>
      OBVIOUS
    <2>1. byp_buf[t] = <<>>
      BY DEF OneAtATime
    <2>2. CASE IssuedTo(t)
      <3>1. <<Head(cmd_fifo)>> \in Seq(Cmds) /\ Waiting(t) = <<>> \o <<Head(cmd_fifo)>>
        BY <1>2, <2>1, <2>2 DEF IssuedTo, Waiting
      <3>2. QED BY <2>2, <3>1, ConcatEmptySeq
    <2>3. CASE ~IssuedTo(t)
      BY <2>1, <2>3 DEF Waiting
    <2>4. QED BY <2>2, <2>3
  <1>5. \A t \in Rams : IssuedTo(t) => StageFree(t, slow)
    BY <1>2, <1>3 DEF IssuedTo, StageFree, OneAtATime
  <1>6. \A t \in Rams : /\ Accesses(t, slow) <=> IssuedTo(t)
                        /\ IssuedTo(t) => Head(Waiting(t)) = Head(cmd_fifo) /\ Tail(Waiting(t)) = <<>>
    <2> SUFFICES ASSUME NEW t \in Rams
                 PROVE  /\ Accesses(t, slow) <=> IssuedTo(t)
                        /\ IssuedTo(t) => Head(Waiting(t)) = Head(cmd_fifo) /\ Tail(Waiting(t)) = <<>>
      OBVIOUS
    <2>1. CASE IssuedTo(t)
      <3>1. Waiting(t) = <<Head(cmd_fifo)>> /\ StageFree(t, slow)
        BY <1>4, <1>5, <2>1
      <3>2. /\ <<Head(cmd_fifo)>> # <<>> /\ Head(<<Head(cmd_fifo)>>) = Head(cmd_fifo)
            /\ Tail(<<Head(cmd_fifo)>>) = <<>>
        OBVIOUS
      <3>3. QED BY <2>1, <3>1, <3>2 DEF Accesses
    <2>2. CASE ~IssuedTo(t)
      BY <1>4, <2>2 DEF Accesses
    <2>3. QED BY <2>1, <2>2
  <1>7. /\ Issues /\ Returns(slow) => IssuedTo("slow") /\ Head(cmd_fifo).addr.region = "slow"
        /\ splt_id' = IF Returns(slow) THEN NoTarget
                      ELSE IF Issues THEN Head(cmd_fifo).addr.region ELSE splt_id
    <2>1. Issues \in BOOLEAN /\ Returns(slow) \in BOOLEAN
      BY DEF Issues, Returns
    <2>2. splt_id' = CASE Returns(slow) -> NoTarget
                       [] Issues /\ ~Returns(slow) -> Head(cmd_fifo).addr.region
                       [] OTHER -> splt_id
      BY DEF FabricClock
    <2>3. Issues /\ Returns(slow) => IssuedTo("slow") /\ Head(cmd_fifo).addr.region = "slow"
      BY DEF Issues, Returns, AtOnce, IssuedTo
    <2>4. QED BY <2>1, <2>2, <2>3
  <1>8. \A t \in Rams : byp_buf'[t] = <<>>
    BY <1>4, <1>6 DEF FabricClock, Sram
  <1>9. \A t \in Rams : e1_stage'[t] <=> splt_id' = t
    <2> SUFFICES ASSUME NEW t \in Rams PROVE e1_stage'[t] <=> splt_id' = t
      OBVIOUS
    <2>1. e1_stage'[t] <=> IssuedTo(t) \/ (e1_stage[t] /\ ~ReturnedBy(t, slow))
      BY <1>6 DEF FabricClock, Sram
    <2>2. QED BY <1>2, <1>3, <1>7, <2>1 DEF OneAtATime, IssuedTo, ReturnedBy
  <1>10. slow_busy' <=> splt_id' = "slow"
    BY <1>2, <1>3, <1>7 DEF FabricClock, Slow, OneAtATime, IssuedTo, ReturnedBy
  <1>11. \A t \in Rams, w \in 0..(RamWords - 1) :
           mem_r'[t][w] = IF Issues /\ WritesWord(Head(cmd_fifo), t, w)
                          THEN Head(cmd_fifo).wdata ELSE mem_r[t][w]
    BY <1>6 DEF FabricClock, Sram, RamWrites, WritesWord, IssuedTo
  <1>12. \A t \in Rams : addr_r'[t] = IF IssuedTo(t) /\ Head(cmd_fifo).read
                                      THEN WordOf(Head(cmd_fifo).addr) ELSE addr_r[t]
    BY <1>6 DEF FabricClock, Sram, RamReads
  <1>13. QED BY <1>2, <1>7, <1>8, <1>9, <1>10, <1>11, <1>12 DEF OneAtATime

-----------------------------------------------------------------------------
(* The queues, place by place.                                              *)

\* A FIFO whose first entry leaves if p = 1, and which v enters if q = 1.
After(fifo, p, q, v) == (IF p = 1 THEN Tail(fifo) ELSE fifo)
                        \o (IF q = 1 THEN <<v>> ELSE <<>>)

\* What a FIFO holds after a cycle, place by place.
LEMMA AfterType ==
  ASSUME NEW S, NEW fifo \in Seq(S), NEW p \in 0..1, NEW q \in 0..1, NEW v,
         q = 1 => v \in S, p <= Len(fifo), NEW next, next = After(fifo, p, q, v)
  PROVE  next \in Seq(S)
  <1> DEFINE rest == IF p = 1 THEN Tail(fifo) ELSE fifo
             new  == IF q = 1 THEN <<v>> ELSE <<>>
  <1>1. rest \in Seq(S) /\ new \in Seq(S) /\ next = rest \o new
    BY EmptySeq, HeadTailProperties DEF After
  <1> HIDE DEF rest, new
  <1>2. QED BY <1>1, ConcatProperties

LEMMA AfterPlaces ==
  ASSUME NEW S, NEW fifo \in Seq(S), NEW p \in 0..1, NEW q \in 0..1, NEW v,
         q = 1 => v \in S, p <= Len(fifo), NEW next, next = After(fifo, p, q, v)
  PROVE  /\ Len(next) = Len(fifo) - p + q
         /\ \A k \in 1..(Len(fifo) - p) : next[k] = fifo[k + p]
         /\ q = 1 => next[Len(fifo) - p + 1] = v
  <1> DEFINE rest == IF p = 1 THEN Tail(fifo) ELSE fifo
             new  == IF q = 1 THEN <<v>> ELSE <<>>
  <1>1. Len(fifo) \in Nat /\ (p = 1 => fifo # <<>>)
    BY EmptySeq
  <1>2. /\ rest \in Seq(S) /\ Len(rest) = Len(fifo) - p
        /\ \A k \in 1..(Len(fifo) - p) : rest[k] = fifo[k + p]
    <2>1. CASE p = 1
      BY <1>1, <2>1, HeadTailProperties
    <2>2. CASE p = 0
      BY <2>2, <1>1
    <2>3. QED BY <2>1, <2>2
  <1>3. new \in Seq(S) /\ Len(new) = q /\ (q = 1 => new[1] = v)
    OBVIOUS
  <1> HIDE DEF rest, new
  <1>4. /\ rest \o new \in Seq(S) /\ Len(rest \o new) = Len(rest) + Len(new)
        /\ \A k \in 1..(Len(rest) + Len(new)) :
             (rest \o new)[k] = IF k <= Len(rest) THEN rest[k] ELSE new[k - Len(rest)]
    BY <1>2, <1>3, ConcatProperties
  <1>5. \A k \in 1..(Len(fifo) - p) : (rest \o new)[k] = fifo[k + p]
    BY <1>1, <1>2, <1>3, <1>4
  <1>6. q = 1 => (rest \o new)[Len(fifo) - p + 1] = v
    <2> SUFFICES ASSUME q = 1 PROVE (rest \o new)[Len(fifo) - p + 1] = v
      OBVIOUS
    <2> DEFINE last == Len(fifo) - p + 1
    <2>1. last \in 1..(Len(rest) + Len(new)) /\ ~(last <= Len(rest)) /\ last - Len(rest) = 1
      BY <1>1, <1>2, <1>3
    <2> HIDE DEF last
    <2>2. (rest \o new)[last] = new[1]
      BY <1>4, <2>1
    <2>3. QED BY <1>3, <2>2 DEF last
  <1>7. next = rest \o new
    BY DEF After, rest, new
  <1>8. QED BY <1>2, <1>3, <1>4, <1>5, <1>6, <1>7

\* A queue between two clocks: leaves and enters count the entries, v enters.
Shifts(fifo, next, leaves, enters, v) ==
  /\ Len(fifo) \in Nat /\ leaves <= Len(fifo)
  /\ Len(next) = Len(fifo) - leaves + enters
  /\ \A k \in 1..(Len(fifo) - leaves) : next[k] = fifo[k + leaves]
  /\ enters = 1 => next[Len(fifo) - leaves + 1] = v

LEMMA MovedShifts ==
  ASSUME NEW S, NEW fifo \in Seq(S), NEW pop \in BOOLEAN, NEW push \in BOOLEAN, NEW v,
         pop => fifo # <<>>,
         NEW p \in 0..1, NEW q \in 0..1, p = (IF pop THEN 1 ELSE 0), q = (IF push THEN 1 ELSE 0),
         NEW next, next = Moved(fifo, pop, push, v)
  PROVE  Shifts(fifo, next, p, q, v)
<1> DEFINE T == S \cup {v}
<1>1. fifo \in Seq(T) /\ v \in T /\ (p = 1 <=> pop) /\ (q = 1 <=> push)
  OBVIOUS
<1> HIDE DEF T
<1>2. Len(fifo) \in Nat /\ p <= Len(fifo)
  BY EmptySeq, LenProperties
<1>3. next = After(fifo, p, q, v)
  BY <1>1 DEF Moved, After
<1>4. /\ Len(next) = Len(fifo) - p + q
      /\ \A k \in 1..(Len(fifo) - p) : next[k] = fifo[k + p]
      /\ q = 1 => next[Len(fifo) - p + 1] = v
  BY <1>1, <1>2, <1>3, AfterPlaces, SMTT(20)
<1> QED BY <1>2, <1>4 DEF Shifts

\* Is the splitter busy, and how many commands have left cmd_fifo?
Busy == IF splt_id = NoTarget THEN 0 ELSE 1
Started == Len(rsp_fifo) + Busy

LEMMA StartedMoves ==
  ASSUME NEW l \in Nat, NEW l2, NEW b \in 0..1, NEW b2 \in 0..1,
         NEW d \in 0..1, NEW i \in 0..1, NEW r \in 0..1, d <= l,
         l2 = l - d + r, b2 = b + i - r
  PROVE  l + b \in Nat /\ l2 + b2 \in Nat /\ l2 + b2 = l + b - d + i
OBVIOUS

\* The queues in a cycle, with the number of entries each stage moves: d
\* answers are delivered, a commands accepted, i issued, r words returned.
LEMMA FabricMoves ==
  ASSUME NEW Cmds, CommandsFit(Cmds), NEW p0 \in Cmds \cup {NoCmd}, NEW p1 \in Cmds \cup {NoCmd},
         NEW slow \in BOOLEAN, FabricHolds(Cmds), OneAtATime, FabricClock(p0, p1, slow),
         NEW d \in 0..1, d = (IF Delivers THEN 1 ELSE 0),
         NEW a \in 0..1, a = (IF Accepted(p0, p1) THEN 1 ELSE 0),
         NEW i \in 0..1, i = (IF Issues THEN 1 ELSE 0),
         NEW r \in 0..1, r = (IF Returns(slow) THEN 1 ELSE 0)
  PROVE  /\ Shifts(rspid_fifo, rspid_fifo', d, a, Granted(p0, p1))
         /\ Shifts(cmd_fifo, cmd_fifo', i, a, Offered(p0, p1))
         /\ Shifts(rsp_fifo, rsp_fifo', d, r, ReadData(splt_id))
         /\ a = 1 => Offered(p0, p1) \in Cmds
         /\ Busy \in 0..1 /\ Busy' \in 0..1 /\ Busy' = Busy + i - r
         /\ Started \in Nat /\ Started' \in Nat /\ Started' = Started - d + i
         /\ Len(rspid_fifo) = Started + Len(cmd_fifo)
<1>1. /\ rspid_fifo \in Seq(Masters) /\ cmd_fifo \in Seq(Cmds)
      /\ OneOwnerPerCommand /\ RspIsQueue
  BY DEF FabricHolds, InBus, FabricTypeOk
<1>2. PICK R : rsp_fifo \in Seq(R)
  BY <1>1 DEF RspIsQueue
<1>3. /\ Delivers \in BOOLEAN /\ Accepted(p0, p1) \in BOOLEAN
      /\ Issues \in BOOLEAN /\ Returns(slow) \in BOOLEAN
  BY DEF Delivers, Accepted, Issues, Returns
<1>4. /\ Delivers => rsp_fifo # <<>> /\ rspid_fifo # <<>>
      /\ Issues => cmd_fifo # <<>> /\ splt_id = NoTarget
      /\ Returns(slow) => splt_id # NoTarget \/ Issues
      /\ Accepted(p0, p1) => Offered(p0, p1) \in Cmds
  BY DEF Delivers, Issues, Returns, AtOnce, IssuedTo, Accepted, Offered
<1>5. /\ rspid_fifo' = Moved(rspid_fifo, Delivers, Accepted(p0, p1), Granted(p0, p1))
      /\ cmd_fifo' = Moved(cmd_fifo, Issues, Accepted(p0, p1), Offered(p0, p1))
      /\ rsp_fifo' = Moved(rsp_fifo, Delivers, Returns(slow), ReadData(splt_id))
  BY DEF FabricClock
<1>6. /\ Returns(slow) => splt_id' = NoTarget
      /\ Issues /\ ~Returns(slow) => splt_id' # NoTarget
      /\ ~Issues /\ ~Returns(slow) => splt_id' = splt_id
  <2>1. /\ Issues => Head(cmd_fifo) \in Cmds
        /\ splt_id' = IF Returns(slow) THEN NoTarget
                      ELSE IF Issues THEN Head(cmd_fifo).addr.region ELSE splt_id
    BY MemoryStep
  <2> QED BY <2>1 DEF CommandsFit
<1>7. Shifts(rspid_fifo, rspid_fifo', d, a, Granted(p0, p1))
  BY <1>1, <1>3, <1>4, <1>5, MovedShifts
<1>8. Shifts(cmd_fifo, cmd_fifo', i, a, Offered(p0, p1))
  BY <1>1, <1>3, <1>4, <1>5, MovedShifts
<1>9. Shifts(rsp_fifo, rsp_fifo', d, r, ReadData(splt_id))
  BY <1>2, <1>3, <1>4, <1>5, MovedShifts
<1>10. Busy \in 0..1 /\ Busy' \in 0..1 /\ Busy' = Busy + i - r
  BY <1>3, <1>4, <1>6 DEF Busy
<1>11. /\ Len(rspid_fifo) \in Nat /\ Len(cmd_fifo) \in Nat /\ Len(rsp_fifo) \in Nat
       /\ d <= Len(rsp_fifo) /\ Len(rsp_fifo') = Len(rsp_fifo) - d + r
  BY <1>7, <1>8, <1>9 DEF Shifts
<1>12. Started \in Nat /\ Started' \in Nat /\ Started' = Started - d + i
  <2>1. Started = Len(rsp_fifo) + Busy /\ Started' = Len(rsp_fifo') + Busy'
    BY DEF Started
  <2>2. d \in Nat /\ r \in Nat /\ i \in Nat /\ Len(rsp_fifo') \in Int
    BY <1>11
  <2> HIDE DEF Started
  <2> DEFINE l == Len(rsp_fifo)
             l2 == Len(rsp_fifo')
             b == Busy
             b2 == Busy'
  <2>3. /\ l \in Nat /\ b \in 0..1 /\ b2 \in 0..1 /\ d <= l
        /\ l2 = l - d + r /\ b2 = b + i - r
        /\ Started = l + b /\ Started' = l2 + b2
    BY <1>10, <1>11, <2>1
  <2> HIDE DEF l, l2, b, b2
  <2> QED BY <2>3, StartedMoves
<1>13. Len(rspid_fifo) = Started + Len(cmd_fifo)
  BY <1>1, <1>10, <1>11 DEF OneOwnerPerCommand, InFlight, Started, Busy
<1> QED BY <1>3, <1>4, <1>7, <1>8, <1>9, <1>10, <1>12, <1>13
=============================================================================
