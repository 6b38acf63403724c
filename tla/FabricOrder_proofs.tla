------------------------- MODULE FabricOrder_proofs -------------------------
(***************************************************************************)
(* For all depths, masters and commands: no FIFO of the memory fabric      *)
(* overflows, the arbiter's order FIFO has exactly one entry for each      *)
(* command in the pipeline behind it, and every answer is what an atomic   *)
(* memory would have given.  The first two are the lemmas of               *)
(* MemFabric_proofs, for masters that send commands of Cmds.  The answers  *)
(* are followed place by place through the queues.                         *)
(***************************************************************************)
EXTENDS FabricOrder, MemFabric_proofs

\* The masters offer commands that fit the bus.
PortTypes == cpu \in Cmds \cup {NoCmd} /\ cnn \in Cmds \cup {NoCmd}

FabricInv == PortTypes /\ FabricHolds(Cmds)

-----------------------------------------------------------------------------
LEMMA CmdsFit == CommandsFit(Cmds)
BY CmdsAssumption DEF CommandsFit

LEMMA FabricInvInit == Init => FabricInv
<1> SUFFICES ASSUME Init PROVE FabricInv
  OBVIOUS
<1>1. FabricInit(Contents) /\ PortTypes
  BY DEF Init, PortTypes
<1> QED BY <1>1, CmdsFit, FabricHoldsInit DEF FabricInv

\* Every clock keeps FabricInv, whichever stages move in it.
LEMMA FabricInvStep ==
  ASSUME FabricInv, NEW slow \in BOOLEAN, Clock(slow)
  PROVE  FabricInv'
<1>1. PortTypes'
  BY DEF FabricInv, PortTypes, Clock
<1>2. FabricHolds(Cmds)'
  BY CmdsFit, FabricStep DEF FabricInv, PortTypes, Clock
<1> QED BY <1>1, <1>2 DEF FabricInv

LEMMA FabricInvStutter == FabricInv /\ UNCHANGED vars => FabricInv'
<1> SUFFICES ASSUME FabricInv, UNCHANGED vars PROVE FabricInv'
  OBVIOUS
<1>1. UNCHANGED <<cpu, cnn>> /\ UNCHANGED fabricVars
  BY DEF vars
<1>2. FabricHolds(Cmds)'
  BY <1>1, FabricStutter DEF FabricInv
<1> QED BY <1>1, <1>2 DEF FabricInv, PortTypes

\* The invariant behind the two theorems below, for every bus and every master.
THEOREM FabricInvariant == Spec => []FabricInv
<1>1. FabricInv /\ [Next]_vars => FabricInv'
  BY FabricInvStep, FabricInvStutter DEF Next
<1> QED BY <1>1, FabricInvInit, PTL DEF Spec

\* No FIFO or buffer of the fabric is ever pushed when full, for every depth.
THEOREM FabricTypeCorrect == Spec => []FabricTypeOk
<1>1. FabricInv => FabricTypeOk
  BY DEF FabricInv, FabricHolds
<1> QED BY <1>1, FabricInvariant, PTL

\* Each accepted command has one owner entry and one place in the pipeline.
THEOREM FabricOneOwner == Spec => []OneOwnerPerCommand
<1>1. FabricInv => OneOwnerPerCommand
  BY DEF FabricInv, FabricHolds
<1> QED BY <1>1, FabricInvariant, PTL

-----------------------------------------------------------------------------
(* The answers are those of an atomic memory.                               *)

\* The n-th of the commands finds v in word w of SRAM t, which holds m now: the
\* last write before it, or m.
Finds(cmds, m, n, t, w, v) ==
  \/ /\ \A k \in 1..(n - 1) : ~WritesWord(cmds[k], t, w)
     /\ v = m
  \/ \E k \in 1..(n - 1) : /\ WritesWord(cmds[k], t, w)
                           /\ v = cmds[k].wdata
                           /\ \A l \in (k + 1)..(n - 1) : ~WritesWord(cmds[l], t, w)
\* The answers owed are in rsp_fifo, in the memory behind the splitter, and
\* what the commands in cmd_fifo will find; the atomic memory is what they
\* will leave.
OwedAgrees ==
  /\ \E S : owed \in Seq(S)
  /\ Len(owed) = Len(rspid_fifo) /\ \A k \in 1..Len(owed) : owed[k].to = rspid_fifo[k]
  /\ \A k \in 1..Len(rsp_fifo) : owed[k].read => rsp_fifo[k] = owed[k].data
  /\ splt_id # NoTarget => (owed[Started].read => ReadData(splt_id) = owed[Started].data)
  /\ \A n \in 1..Len(cmd_fifo) :
       LET cmd == cmd_fifo[n]
           t == cmd.addr.region
           w == WordOf(cmd.addr)
           data == owed[Started + n].data
       IN  /\ owed[Started + n].read = cmd.read
           /\ cmd.read => IF t = "slow" THEN data = <<"slow", 0>>
                          ELSE Finds(cmd_fifo, mem_r[t][w], n, t, w, data)

ShadowAgrees ==
  /\ DOMAIN shadow = Rams /\ \A t \in Rams : DOMAIN shadow[t] = 0..(RamWords - 1)
  /\ \A t \in Rams, w \in 0..(RamWords - 1) :
       Finds(cmd_fifo, mem_r[t][w], Len(cmd_fifo) + 1, t, w, shadow[t][w])

AtomicInv == FabricInv /\ OneAtATime /\ OwedAgrees /\ ShadowAgrees

\* What a command finds stays so when the first one is done and others follow.
LEMMA StillFinds ==
  ASSUME NEW cmds, NEW next, NEW len \in Nat, NEW i \in 0..1, i <= len,
         \A k \in 1..(len - i) : next[k] = cmds[k + i],
         NEW t, NEW w, NEW m, NEW m2, NEW v, NEW n \in 1..(len - i + 1),
         m2 = IF i = 1 /\ WritesWord(cmds[1], t, w) THEN cmds[1].wdata ELSE m,
         Finds(cmds, m, n + i, t, w, v)
  PROVE  Finds(next, m2, n, t, w, v)
  <1>1. \A k \in 1..(n - 1) : next[k] = cmds[k + i]
    OBVIOUS
  <1>2. CASE i = 0
    BY <1>1, <1>2 DEF Finds
  <1>3. CASE i = 1
    <2>1. CASE /\ \A k \in 1..n : ~WritesWord(cmds[k], t, w)
               /\ v = m
      <3>1. m2 = m
        BY <1>3, <2>1
      <3>2. \A k \in 1..(n - 1) : ~WritesWord(next[k], t, w)
        BY <1>1, <1>3, <2>1
      <3>3. QED BY <2>1, <3>1, <3>2 DEF Finds
    <2>2. ASSUME NEW k \in 1..n, WritesWord(cmds[k], t, w), v = cmds[k].wdata,
                 \A l \in (k + 1)..n : ~WritesWord(cmds[l], t, w)
          PROVE  Finds(next, m2, n, t, w, v)
      <3>1. CASE k = 1
        <4>1. v = m2
          BY <1>3, <2>2, <3>1
        <4>2. \A l \in 1..(n - 1) : ~WritesWord(next[l], t, w)
          BY <1>1, <1>3, <2>2, <3>1
        <4>3. QED BY <4>1, <4>2 DEF Finds
      <3>2. CASE k > 1
        <4>1. k - 1 \in 1..(n - 1) /\ next[k - 1] = cmds[k]
          BY <1>1, <1>3, <3>2
        <4>2. \A l \in ((k - 1) + 1)..(n - 1) : ~WritesWord(next[l], t, w)
          BY <1>1, <1>3, <2>2, <3>2
        <4>3. QED BY <2>2, <4>1, <4>2 DEF Finds
      <3>3. QED BY <3>1, <3>2
    <2>3. n + i - 1 = n
      BY <1>3
    <2>4. QED BY <2>1, <2>2, <2>3 DEF Finds
  <1>4. QED BY <1>2, <1>3

\* A command that is appended leaves its own data, if it writes the word.
LEMMA FindsNext ==
  ASSUME NEW cmds, NEW n \in Nat \ {0}, NEW t, NEW w, NEW m, NEW v,
         Finds(cmds, m, n, t, w, v)
  PROVE  Finds(cmds, m, n + 1, t, w, IF WritesWord(cmds[n], t, w) THEN cmds[n].wdata ELSE v)
  <1>1. n + 1 - 1 = n /\ n \in 1..n /\ \A l \in (n + 1)..n : FALSE
    OBVIOUS
  <1>2. CASE WritesWord(cmds[n], t, w)
    BY <1>1, <1>2 DEF Finds
  <1>3. CASE ~WritesWord(cmds[n], t, w)
    <2>1. \A k \in 1..n : k \in 1..(n - 1) \/ k = n
      OBVIOUS
    <2>2. CASE /\ \A k \in 1..(n - 1) : ~WritesWord(cmds[k], t, w)
               /\ v = m
      BY <1>1, <1>3, <2>1, <2>2 DEF Finds
    <2>3. ASSUME NEW k \in 1..(n - 1), WritesWord(cmds[k], t, w), v = cmds[k].wdata,
                 \A l \in (k + 1)..(n - 1) : ~WritesWord(cmds[l], t, w)
          PROVE  Finds(cmds, m, n + 1, t, w, v)
      <3>1. k \in 1..n /\ \A l \in (k + 1)..n : ~WritesWord(cmds[l], t, w)
        BY <1>3, <2>3
      <3>2. QED BY <1>1, <2>3, <3>1 DEF Finds
    <2>4. QED BY <1>3, <2>2, <2>3 DEF Finds
  <1>4. QED BY <1>2, <1>3

\* The answers owed in a cycle move with the order FIFO.
LEMMA OwedStep ==
  ASSUME FabricInv, OwedAgrees, NEW slow \in BOOLEAN, FabricClock(cpu, cnn, slow), History,
         NEW d \in 0..1, d = (IF Delivers THEN 1 ELSE 0),
         NEW a \in 0..1, a = (IF Accepted(cpu, cnn) THEN 1 ELSE 0),
         NEW rec, rec = [to |-> Granted(cpu, cnn), read |-> Offered(cpu, cnn).read,
                         data |-> AtomicData(Offered(cpu, cnn))]
  PROVE  Shifts(owed, owed', d, a, rec) /\ \E S : owed' \in Seq(S)
<1>1. PICK T : owed \in Seq(T)
  BY DEF OwedAgrees
<1>2. Delivers \in BOOLEAN /\ Accepted(cpu, cnn) \in BOOLEAN
  BY DEF Delivers, Accepted
<1>3. owed' = Moved(owed, Delivers, Accepted(cpu, cnn), rec)
  BY DEF History, Granted
<1>4. Delivers => owed # <<>>
  BY EmptySeq DEF Delivers, FabricInv, FabricHolds, FabricTypeOk, OwedAgrees
<1>5. Shifts(owed, owed', d, a, rec)
  BY <1>1, <1>2, <1>3, <1>4, MovedShifts
<1>6. owed' = After(owed, d, a, rec) /\ d <= Len(owed)
  <2>1. (d = 1 <=> Delivers) /\ (a = 1 <=> Accepted(cpu, cnn))
    OBVIOUS
  <2>2. owed' = After(owed, d, a, rec)
    BY <1>3, <2>1, Zenon DEF Moved, After
  <2> QED BY <1>5, <2>2 DEF Shifts
<1> DEFINE S == T \cup {rec}
<1>7. owed \in Seq(S) /\ rec \in S
  BY <1>1
<1> HIDE DEF S
<1>8. owed' \in Seq(S)
  BY <1>6, <1>7, AfterType
<1> QED BY <1>5, <1>8

\* Every clock keeps the answers right.
LEMMA AtomicStep ==
  ASSUME AtomicInv, NEW slow \in BOOLEAN, Clock(slow)
  PROVE  OneAtATime' /\ OwedAgrees' /\ ShadowAgrees'
  <1> DEFINE d == IF Delivers THEN 1 ELSE 0
             a == IF Accepted(cpu, cnn) THEN 1 ELSE 0
             i == IF Issues THEN 1 ELSE 0
             r == IF Returns(slow) THEN 1 ELSE 0
             busy == IF splt_id = NoTarget THEN 0 ELSE 1
             next == IF splt_id' = NoTarget THEN 0 ELSE 1
             cmd == Offered(cpu, cnn)
             rec == [to |-> Granted(cpu, cnn), read |-> cmd.read, data |-> AtomicData(cmd)]
             before == Len(rsp_fifo) + busy
             after == Len(rsp_fifo') + next
  <1>1. /\ FabricInv /\ OneAtATime /\ OwedAgrees /\ ShadowAgrees
        /\ FabricClock(cpu, cnn, slow) /\ History
    BY DEF AtomicInv, Clock
  <1>2. d \in 0..1 /\ a \in 0..1 /\ i \in 0..1 /\ r \in 0..1
    OBVIOUS
  <1>0. /\ d = (IF Delivers THEN 1 ELSE 0) /\ a = (IF Accepted(cpu, cnn) THEN 1 ELSE 0)
        /\ i = (IF Issues THEN 1 ELSE 0) /\ r = (IF Returns(slow) THEN 1 ELSE 0)
        /\ rec = [to |-> Granted(cpu, cnn), read |-> Offered(cpu, cnn).read,
                  data |-> AtomicData(Offered(cpu, cnn))]
    OBVIOUS
  <1> HIDE DEF d, a, i, r, rec
  <1>2a. /\ Shifts(rspid_fifo, rspid_fifo', d, a, Granted(cpu, cnn))
         /\ Shifts(cmd_fifo, cmd_fifo', i, a, cmd)
         /\ Shifts(rsp_fifo, rsp_fifo', d, r, ReadData(splt_id))
         /\ a = 1 => cmd \in Cmds
         /\ Busy \in 0..1 /\ Busy' \in 0..1 /\ Busy' = Busy + i - r
         /\ Started \in Nat /\ Started' \in Nat /\ Started' = Started - d + i
         /\ Len(rspid_fifo) = Started + Len(cmd_fifo)
    BY <1>0, <1>1, <1>2, CmdsFit, FabricMoves DEF FabricInv, PortTypes
  <1>2b. Shifts(owed, owed', d, a, rec) /\ \E S : owed' \in Seq(S)
    BY <1>0, <1>1, <1>2, OwedStep
  <1>3. /\ Len(rspid_fifo) \in Nat /\ d <= Len(rspid_fifo)
        /\ Len(rspid_fifo') = Len(rspid_fifo) - d + a
        /\ \A k \in 1..(Len(rspid_fifo) - d) : rspid_fifo'[k] = rspid_fifo[k + d]
        /\ a = 1 => rspid_fifo'[Len(rspid_fifo) - d + 1] = Granted(cpu, cnn)
    BY <1>2a DEF Shifts
  <1>4. /\ Len(cmd_fifo) \in Nat /\ i <= Len(cmd_fifo)
        /\ Len(cmd_fifo') = Len(cmd_fifo) - i + a
        /\ \A k \in 1..(Len(cmd_fifo) - i) : cmd_fifo'[k] = cmd_fifo[k + i]
        /\ a = 1 => cmd_fifo'[Len(cmd_fifo) - i + 1] = cmd /\ cmd \in Cmds
    BY <1>2a DEF Shifts
  <1>5. /\ Len(rsp_fifo) \in Nat /\ d <= Len(rsp_fifo)
        /\ Len(rsp_fifo') = Len(rsp_fifo) - d + r
        /\ \A k \in 1..(Len(rsp_fifo) - d) : rsp_fifo'[k] = rsp_fifo[k + d]
        /\ r = 1 => rsp_fifo'[Len(rsp_fifo) - d + 1] = ReadData(splt_id)
    BY <1>2a DEF Shifts
  <1>6. /\ \E S : owed' \in Seq(S)
        /\ Len(owed) = Len(rspid_fifo) /\ Len(owed') = Len(rspid_fifo')
        /\ \A k \in 1..(Len(owed) - d) : owed'[k] = owed[k + d]
        /\ a = 1 => owed'[Len(owed) - d + 1] = rec
    BY <1>1, <1>2b, <1>3 DEF Shifts, OwedAgrees
  <1>7. /\ OneAtATime'
        /\ \A t \in Rams, w \in 0..(RamWords - 1) :
             mem_r'[t][w] = IF Issues /\ WritesWord(Head(cmd_fifo), t, w)
                            THEN Head(cmd_fifo).wdata ELSE mem_r[t][w]
        /\ \A t \in Rams :
             addr_r'[t] = IF IssuedTo(t) /\ Head(cmd_fifo).read
                          THEN WordOf(Head(cmd_fifo).addr) ELSE addr_r[t]
        /\ Issues => splt_id = NoTarget /\ Head(cmd_fifo) \in Cmds /\ cmd_fifo # <<>>
        /\ Issues /\ Returns(slow) => Head(cmd_fifo).addr.region = "slow"
        /\ splt_id' = IF Returns(slow) THEN NoTarget
                      ELSE IF Issues THEN Head(cmd_fifo).addr.region ELSE splt_id
    BY <1>1, CmdsFit, MemoryStep DEF FabricInv
  <1>8. /\ Returns(slow) => splt_id # NoTarget \/ Issues
        /\ Issues => Head(cmd_fifo).addr.region # NoTarget /\ Head(cmd_fifo) = cmd_fifo[1]
        /\ Len(rspid_fifo) = Len(rsp_fifo) + Len(cmd_fifo) + busy
    <2>1. Issues => Head(cmd_fifo).addr.region # NoTarget
      BY <1>7, CmdsAssumption
    <2>2. cmd_fifo \in Seq(Cmds)
      BY <1>1 DEF FabricInv, FabricHolds, InBus
    <2>3. Len(rspid_fifo) = Len(rsp_fifo) + busy + Len(cmd_fifo)
      BY <1>2a DEF Started, Busy
    <2>4. QED BY <1>2a, <1>4, <1>5, <1>7, <2>1, <2>2, <2>3 DEF Returns, AtOnce, IssuedTo, Busy
  <1>9. next = busy + i - r /\ busy \in 0..1 /\ next \in 0..1
    BY <1>2a DEF Busy
  <1>10. after = before - d + i /\ before \in Nat /\ after \in Nat
         /\ Len(owed) = before + Len(cmd_fifo) /\ Started = before /\ Started' = after
    <2>1. Started = before /\ Started' = after
      BY DEF Started, Busy
    <2>2. QED BY <1>2a, <1>6, <2>1
  <1>11. i = 1 <=> Issues
    BY <1>0
  <1>12. PICK S : owed' \in Seq(S)
    BY <1>6
  <1> HIDE DEF busy, next, before, after, cmd
  \* Commands that wait find the same, whatever the splitter issues.
  <1>13. ASSUME NEW t \in Rams, NEW w \in 0..(RamWords - 1), NEW v,
                NEW n \in 1..(Len(cmd_fifo) - i + 1),
                Finds(cmd_fifo, mem_r[t][w], n + i, t, w, v)
         PROVE  Finds(cmd_fifo', mem_r'[t][w], n, t, w, v)
    <2>1. mem_r'[t][w] = IF i = 1 /\ WritesWord(cmd_fifo[1], t, w)
                         THEN cmd_fifo[1].wdata ELSE mem_r[t][w]
      BY <1>7, <1>8, <1>11
    <2>2. i \in 0..1 /\ Len(cmd_fifo) \in Nat /\ i <= Len(cmd_fifo)
      BY <1>2, <1>4
    <2>3. QED BY <1>4, <1>13, <2>1, <2>2, StillFinds

  <1>14. \A k \in 1..Len(owed') : owed'[k].to = rspid_fifo'[k]
    <2> SUFFICES ASSUME NEW k \in 1..Len(owed') PROVE owed'[k].to = rspid_fifo'[k]
      OBVIOUS
    <2>1. CASE k \in 1..(Len(owed) - d)
      <3>1. owed'[k] = owed[k + d] /\ rspid_fifo'[k] = rspid_fifo[k + d] /\ k + d \in 1..Len(owed)
        BY <1>2, <1>3, <1>6, <2>1
      <3>2. QED BY <1>1, <3>1 DEF OwedAgrees
    <2>2. CASE k \notin 1..(Len(owed) - d)
      <3>1. a = 1 /\ k = Len(owed) - d + 1
        BY <1>2, <1>3, <1>6, <2>2
      <3>2. owed'[k] = rec /\ rspid_fifo'[k] = Granted(cpu, cnn)
        BY <1>3, <1>6, <3>1
      <3>3. QED BY <1>0, <3>2
    <2>3. QED BY <2>1, <2>2
  <1>15. \A k \in 1..Len(rsp_fifo') : owed'[k].read => rsp_fifo'[k] = owed'[k].data
    <2> SUFFICES ASSUME NEW k \in 1..Len(rsp_fifo') PROVE owed'[k].read => rsp_fifo'[k] = owed'[k].data
      OBVIOUS
    <2>1. CASE k \in 1..(Len(rsp_fifo) - d)
      <3>1. k + d \in 1..Len(rsp_fifo) /\ k \in 1..(Len(owed) - d)
        BY <1>2, <1>4, <1>5, <1>6, <1>8, <1>9, <2>1
      <3>2. owed'[k] = owed[k + d] /\ rsp_fifo'[k] = rsp_fifo[k + d]
        BY <1>5, <1>6, <2>1, <3>1
      <3>3. QED BY <1>1, <3>1, <3>2 DEF OwedAgrees
    <2>2. CASE k \notin 1..(Len(rsp_fifo) - d)
      <3>1. r = 1 /\ k = Len(rsp_fifo) - d + 1
        BY <1>2, <1>5, <2>2
      <3>2. Returns(slow) /\ rsp_fifo'[k] = ReadData(splt_id)
        BY <1>0, <1>5, <3>1
      <3>3. CASE splt_id # NoTarget
        <4>1. k \in 1..(Len(owed) - d) /\ k + d = before
          BY <1>2, <1>4, <1>5, <1>6, <1>8, <3>1, <3>3 DEF before, busy
        <4>2. owed'[k] = owed[before]
          BY <1>6, <4>1
        <4>3. QED BY <1>1, <1>10, <3>2, <3>3, <4>2 DEF OwedAgrees
      \* A slow slave answers the command that the splitter issues.
      <3>4. CASE splt_id = NoTarget
        <4>1. Issues /\ cmd_fifo[1].addr.region = "slow" /\ 1 \in 1..Len(cmd_fifo)
          BY <1>2, <1>4, <1>7, <1>8, <1>11, <3>2, <3>4
        <4>2. k \in 1..(Len(owed) - d) /\ k + d = before + 1
          BY <1>2, <1>4, <1>5, <1>6, <1>8, <3>1, <3>4, <4>1 DEF before, busy
        <4>3. owed'[k] = owed[before + 1]
          BY <1>6, <4>2
        <4>4. /\ owed[before + 1].read = cmd_fifo[1].read
              /\ cmd_fifo[1].read => owed[before + 1].data = <<"slow", 0>>
          BY <1>1, <1>10, <4>1 DEF OwedAgrees
        <4>5. ReadData(splt_id) = <<"slow", 0>>
          BY <3>4, CmdsAssumption DEF ReadData, Targets
        <4>6. QED BY <3>2, <4>3, <4>4, <4>5
      <3>5. QED BY <3>3, <3>4
    <2>3. QED BY <2>1, <2>2
  \* What the n-th waiting command is owed, before and after.
  <1>16. ASSUME NEW n \in 1..(Len(cmd_fifo) - i)
         PROVE  /\ n + i \in 1..Len(cmd_fifo) /\ cmd_fifo'[n] = cmd_fifo[n + i]
                /\ owed'[after + n] = owed[before + (n + i)]
    <2>1. n + i \in 1..Len(cmd_fifo) /\ cmd_fifo'[n] = cmd_fifo[n + i]
      BY <1>2, <1>4
    <2>2. after + n \in 1..(Len(owed) - d) /\ (after + n) + d = before + (n + i)
      BY <1>2, <1>4, <1>10
    <2>3. owed'[after + n] = owed[(after + n) + d]
      BY <1>6, <2>2
    <2>4. QED BY <2>1, <2>2, <2>3
  <1>17. splt_id' # NoTarget => (owed'[after].read => ReadData(splt_id)' = owed'[after].data)
    <2>1. CASE Issues /\ ~Returns(slow)
      <3> DEFINE t == cmd_fifo[1].addr.region
                 w == WordOf(cmd_fifo[1].addr)
      <3>1. i = 1 /\ busy = 0 /\ r = 0 /\ 1 \in 1..Len(cmd_fifo)
        BY <1>0, <1>2, <1>4, <1>7, <1>11, <2>1 DEF busy
      <3>2. owed'[after] = owed[before + 1]
        <4>1. after \in 1..(Len(owed) - d) /\ after + d = before + 1
          BY <1>2, <1>4, <1>5, <1>10, <3>1 DEF before
        <4>2. QED BY <1>6, <4>1
      <3>3. /\ owed[before + 1].read = cmd_fifo[1].read
            /\ cmd_fifo[1].read => IF t = "slow" THEN owed[before + 1].data = <<"slow", 0>>
                                   ELSE Finds(cmd_fifo, mem_r[t][w], 1, t, w, owed[before + 1].data)
        BY <1>1, <1>10, <3>1 DEF OwedAgrees
      <3>4. splt_id' = t /\ t \in Targets /\ w \in 0..(RamWords - 1) /\ cmd_fifo[1] = Head(cmd_fifo)
        BY <1>7, <1>8, <2>1, CmdsAssumption
      <3> HIDE DEF w
      <3>5. CASE t = "slow"
        BY <3>2, <3>3, <3>4, <3>5, FabricAssumption DEF ReadData
      <3>6. CASE t \in Rams /\ cmd_fifo[1].read
        <4>1. owed[before + 1].data = mem_r[t][w]
          BY <3>3, <3>6, FabricAssumption DEF Finds
        <4>2. addr_r'[t] = w /\ mem_r'[t][w] = mem_r[t][w]
          BY <1>7, <2>1, <3>4, <3>6 DEF IssuedTo, WritesWord, w
        <4>3. ReadData(splt_id)' = mem_r[t][w]
          BY <3>4, <3>6, <4>2 DEF ReadData
        <4>4. QED BY <3>2, <4>1, <4>3
      <3>7. QED BY <3>2, <3>3, <3>4, <3>5, <3>6 DEF Targets
    <2>2. CASE ~Issues /\ ~Returns(slow)
      <3>1. splt_id' = splt_id /\ i = 0 /\ r = 0
        BY <1>0, <1>7, <2>2
      <3>2. ASSUME splt_id # NoTarget
            PROVE  owed'[after].read => ReadData(splt_id)' = owed'[after].data
        <4>1. after \in 1..(Len(owed) - d) /\ after + d = before
          BY <1>2, <1>4, <1>5, <1>10, <3>1, <3>2 DEF before, busy
        <4>2. owed'[after] = owed[before]
          BY <1>6, <4>1
        <4>3. ReadData(splt_id)' = ReadData(splt_id)
          <5>1. splt_id \in Rams => addr_r'[splt_id] = addr_r[splt_id] /\ addr_r[splt_id] \in 0..(RamWords - 1)
            BY <1>1, <1>7, <2>2 DEF IssuedTo, FabricInv, FabricHolds, FabricTypeOk
          <5>2. splt_id \in Rams => mem_r'[splt_id][addr_r[splt_id]] = mem_r[splt_id][addr_r[splt_id]]
            BY <1>7, <2>2, <5>1
          <5>3. QED BY <3>1, <5>1, <5>2 DEF ReadData
        <4>4. QED BY <1>1, <1>10, <3>2, <4>2, <4>3 DEF OwedAgrees
      <3>3. QED BY <3>1, <3>2
    <2>3. CASE Returns(slow)
      BY <1>7, <2>3
    <2>4. QED BY <2>1, <2>2, <2>3
  \* The atomic memory, as the command that is accepted finds it.
  <1>18. ASSUME NEW t \in Rams, NEW w \in 0..(RamWords - 1)
         PROVE  Finds(cmd_fifo', mem_r'[t][w], Len(cmd_fifo) - i + 1, t, w, shadow[t][w])
    <2>1. /\ Len(cmd_fifo) - i + 1 \in 1..(Len(cmd_fifo) - i + 1)
          /\ (Len(cmd_fifo) - i + 1) + i = Len(cmd_fifo) + 1
      BY <1>2, <1>4
    <2>2. QED BY <1>1, <1>13, <2>1 DEF ShadowAgrees
  <1>19. \A n \in 1..Len(cmd_fifo') :
           LET c == cmd_fifo'[n]
               t == c.addr.region
               w == WordOf(c.addr)
               data == owed'[after + n].data
           IN  /\ owed'[after + n].read = c.read
               /\ c.read => IF t = "slow" THEN data = <<"slow", 0>>
                            ELSE Finds(cmd_fifo', mem_r'[t][w], n, t, w, data)
    <2> SUFFICES ASSUME NEW n \in 1..Len(cmd_fifo')
                 PROVE  LET c == cmd_fifo'[n]
                            t == c.addr.region
                            w == WordOf(c.addr)
                            data == owed'[after + n].data
                        IN  /\ owed'[after + n].read = c.read
                            /\ c.read => IF t = "slow" THEN data = <<"slow", 0>>
                                         ELSE Finds(cmd_fifo', mem_r'[t][w], n, t, w, data)
      OBVIOUS
    <2> DEFINE c == cmd_fifo'[n]
               t == c.addr.region
               w == WordOf(c.addr)
               data == owed'[after + n].data
    <2>0. c \in Cmds
      BY <1>1, FabricInvStep DEF AtomicInv, FabricInv, FabricHolds, InBus
    <2>1. t \in Targets /\ w \in 0..(RamWords - 1)
      BY <2>0, CmdsAssumption
    <2>2. CASE n \in 1..(Len(cmd_fifo) - i)
      <3>1. n + i \in 1..Len(cmd_fifo) /\ c = cmd_fifo[n + i] /\ owed'[after + n] = owed[before + (n + i)]
        BY <1>16, <2>2
      <3>2. /\ owed'[after + n].read = c.read
            /\ c.read => IF t = "slow" THEN data = <<"slow", 0>>
                         ELSE Finds(cmd_fifo, mem_r[t][w], n + i, t, w, data)
        BY <1>1, <1>10, <3>1 DEF OwedAgrees
      <3>3. n \in 1..(Len(cmd_fifo) - i + 1)
        BY <1>2, <1>4, <2>2
      <3> HIDE DEF c, t, w, data
      <3>4. c.read /\ t # "slow" => Finds(cmd_fifo', mem_r'[t][w], n, t, w, data)
        BY <1>13, <2>1, <3>2, <3>3 DEF Targets
      <3>5. QED BY <3>2, <3>4 DEF c, t, w, data
    <2>3. CASE n \notin 1..(Len(cmd_fifo) - i)
      <3>1. a = 1 /\ n = Len(cmd_fifo) - i + 1
        BY <1>2, <1>4, <2>3
      <3>2. c = cmd /\ after + n = Len(owed) - d + 1
        <4>1. c = cmd
          BY <1>4, <3>1
        <4>2. after + n = Len(owed) - d + 1
          <5> HIDE DEF after, before, c
          <5>1. QED BY <1>2, <1>4, <1>10, <3>1
        <4>3. QED BY <4>1, <4>2
      <3>3. owed'[after + n] = rec
        BY <1>6, <3>1, <3>2
      <3>4. data = IF t = "slow" THEN <<"slow", 0>> ELSE shadow[t][w]
        BY <1>0, <3>2, <3>3 DEF AtomicData, cmd
      <3>5. owed'[after + n].read = c.read
        BY <1>0, <3>2, <3>3 DEF cmd
      <3> HIDE DEF c, t, w, data
      <3>6. t # "slow" => Finds(cmd_fifo', mem_r'[t][w], n, t, w, data)
        BY <1>18, <2>1, <3>1, <3>4 DEF Targets
      <3>7. QED BY <3>4, <3>5, <3>6 DEF c, t, w, data
    <2>4. QED BY <2>2, <2>3
  <1>20. ShadowAgrees'
    <2>1. /\ DOMAIN shadow' = Rams
          /\ \A t \in Rams : DOMAIN shadow'[t] = 0..(RamWords - 1)
          /\ \A t \in Rams, w \in 0..(RamWords - 1) :
               shadow'[t][w] = IF a = 1 /\ WritesWord(cmd, t, w) THEN cmd.wdata ELSE shadow[t][w]
      <3>1. /\ DOMAIN shadow = Rams
            /\ \A t \in Rams : DOMAIN shadow[t] = 0..(RamWords - 1)
        BY <1>1 DEF ShadowAgrees
      <3>2. shadow' = IF a = 1 /\ ~cmd.read /\ cmd.addr.region \in Rams
                      THEN [shadow EXCEPT ![cmd.addr.region][WordOf(cmd.addr)] = cmd.wdata]
                      ELSE shadow
        BY <1>0, <1>1 DEF History, cmd
      <3>3. a = 1 => WordOf(cmd.addr) \in 0..(RamWords - 1)
        BY <1>4, CmdsAssumption
      <3>4. QED BY <3>1, <3>2, <3>3 DEF WritesWord
    <2>2. ASSUME NEW t \in Rams, NEW w \in 0..(RamWords - 1)
          PROVE  Finds(cmd_fifo', mem_r'[t][w], Len(cmd_fifo') + 1, t, w, shadow'[t][w])
      <3> DEFINE n == Len(cmd_fifo) - i + 1
      <3>1. n \in Nat \ {0} /\ Finds(cmd_fifo', mem_r'[t][w], n, t, w, shadow[t][w])
        BY <1>2, <1>4, <1>18, <2>2
      <3>2. CASE a = 1
        <4>1. cmd_fifo'[n] = cmd /\ Len(cmd_fifo') = n
          BY <1>2, <1>4, <3>2
        <4>2. shadow'[t][w] = IF WritesWord(cmd_fifo'[n], t, w) THEN cmd_fifo'[n].wdata ELSE shadow[t][w]
          BY <2>1, <2>2, <3>2, <4>1
        <4> HIDE DEF n
        <4>3. QED BY <3>1, <4>1, <4>2, FindsNext
      <3>3. CASE a = 0
        BY <1>2, <1>4, <2>1, <2>2, <3>1, <3>3
      <3>4. QED BY <1>2, <3>2, <3>3
    <2>3. QED BY <2>1, <2>2 DEF ShadowAgrees
  <1>21. OwedAgrees'
    BY <1>6, <1>10, <1>14, <1>15, <1>17, <1>19 DEF OwedAgrees
  <1>22. QED BY <1>7, <1>20, <1>21

LEMMA AtomicInit == Init => OneAtATime /\ OwedAgrees /\ ShadowAgrees
  <1> SUFFICES ASSUME Init PROVE OneAtATime /\ OwedAgrees /\ ShadowAgrees
    OBVIOUS
  <1>1. /\ cmd_fifo = <<>> /\ rsp_fifo = <<>> /\ rspid_fifo = <<>> /\ owed = <<>>
        /\ splt_id = NoTarget /\ mem_r = Contents /\ shadow = Contents
        /\ byp_buf = [t \in Rams |-> <<>>] /\ e1_stage = [t \in Rams |-> FALSE]
        /\ slow_busy = FALSE
    BY DEF Init, FabricInit
  <1>2. OneAtATime
    BY <1>1, CmdsAssumption DEF OneAtATime, Targets
  <1>3. Len(cmd_fifo) = 0 /\ Len(rsp_fifo) = 0 /\ Len(owed) = 0 /\ owed \in Seq({})
    BY <1>1
  <1>4. OwedAgrees
    BY <1>1, <1>3 DEF OwedAgrees
  <1>5. ShadowAgrees
    BY <1>1, <1>3, CmdsAssumption DEF ShadowAgrees, Finds
  <1>6. QED BY <1>2, <1>4, <1>5

LEMMA AtomicStutter == AtomicInv /\ UNCHANGED vars => OneAtATime' /\ OwedAgrees' /\ ShadowAgrees'
  <1> SUFFICES ASSUME AtomicInv, UNCHANGED vars PROVE OneAtATime' /\ OwedAgrees' /\ ShadowAgrees'
    OBVIOUS
  <1>1. OneAtATime /\ OwedAgrees /\ ShadowAgrees
    BY DEF AtomicInv
  <1>2. UNCHANGED <<rspid_fifo, cmd_fifo, splt_id, byp_buf, e1_stage, addr_r, mem_r,
                    slow_busy, rsp_fifo, shadow, owed>>
    BY DEF vars, fabricVars
  <1>3. OneAtATime'
    BY <1>1, <1>2 DEF OneAtATime
  <1>4. Started' = Started /\ ReadData(splt_id)' = ReadData(splt_id)
    BY <1>2 DEF Started, Busy, ReadData
  <1>5. OwedAgrees'
    BY <1>1, <1>2, <1>4 DEF OwedAgrees
  <1>6. ShadowAgrees'
    BY <1>1, <1>2 DEF ShadowAgrees
  <1>7. QED BY <1>3, <1>5, <1>6

\* Theorem: for all depths, memories and commands of two masters, the answer
\* that the arbiter of e203_subsys_mems delivers is for the master at the head
\* of its order FIFO, and a read returns what an atomic memory would have
\* returned when the command was accepted.
THEOREM FabricAnswersAtomic == Spec => []AnswersAtomic
<1>1. AtomicInv /\ [Next]_vars => OneAtATime' /\ OwedAgrees' /\ ShadowAgrees'
  BY AtomicStep, AtomicStutter DEF Next
<1>2. AtomicInv => AnswersAtomic
  <2> SUFFICES ASSUME AtomicInv, Delivers
               PROVE  /\ owed # <<>>
                      /\ Head(owed).to = Head(rspid_fifo)
                      /\ Head(owed).read => Head(rsp_fifo) = Head(owed).data
    BY DEF AnswersAtomic
  <2>1. rsp_fifo # <<>> /\ rspid_fifo # <<>>
    BY DEF Delivers
  <2>2. PICK S, T : rsp_fifo \in Seq(S) /\ owed \in Seq(T)
    BY DEF AtomicInv, FabricInv, FabricHolds, RspIsQueue, OwedAgrees
  <2>3. rspid_fifo \in Seq(Masters) /\ Len(owed) = Len(rspid_fifo)
    BY DEF AtomicInv, FabricInv, FabricHolds, FabricTypeOk, OwedAgrees
  <2>4. 1 \in 1..Len(owed) /\ 1 \in 1..Len(rsp_fifo) /\ owed # <<>>
    BY <2>1, <2>2, <2>3, EmptySeq
  <2>5. Head(owed) = owed[1] /\ Head(rspid_fifo) = rspid_fifo[1] /\ Head(rsp_fifo) = rsp_fifo[1]
    BY <2>1, <2>2, <2>3, <2>4
  <2>6. QED BY <2>4, <2>5 DEF AtomicInv, OwedAgrees
<1>3. QED BY <1>1, <1>2, AtomicInit, FabricInvariant, PTL DEF Spec, AtomicInv
=============================================================================
