---------------------------- MODULE FabricOrder ----------------------------
(***************************************************************************)
(* The memory fabric between any two masters, and what they may rely on:   *)
(* the answers come in the order of the commands, to the master that asked *)
(* and with the data an atomic memory would return, although a command     *)
(* passes two FIFOs and a bypass buffer on its way and the SRAM reads its  *)
(* word only when the answer leaves.  A master holds a command until it is *)
(* taken (ICB) and may have several outstanding, more than the CPU's BIU   *)
(* does.                                                                   *)
(***************************************************************************)
EXTENDS MemFabric

CONSTANTS Cmds,      \* the commands the masters send
          Contents   \* of the SRAMs at the start

ASSUME CmdsAssumption == /\ NoCmd \notin Cmds /\ NoTarget \notin Targets
                         /\ \A cmd \in Cmds :
                              /\ cmd.addr.region \in Targets
                              /\ WordOf(cmd.addr) \in 0..(RamWords - 1)
                         /\ DOMAIN Contents = Rams
                         /\ \A t \in Rams : DOMAIN Contents[t] = 0..(RamWords - 1)

VARIABLES cpu, cnn,   \* what the masters hold on their ports
          shadow,     \* history: an atomic memory that has done every accepted command
          owed        \* history: its answers the masters have not received

vars == <<fabricVars, cpu, cnn, shadow, owed>>

-----------------------------------------------------------------------------
AtomicData(cmd) == IF cmd.addr.region = "slow" THEN <<"slow", 0>>
                   ELSE shadow[cmd.addr.region][WordOf(cmd.addr)]

History ==
  LET cmd == Offered(cpu, cnn) IN
  /\ shadow' = IF Accepted(cpu, cnn) /\ ~cmd.read /\ cmd.addr.region \in Rams
               THEN [shadow EXCEPT ![cmd.addr.region][WordOf(cmd.addr)] = cmd.wdata]
               ELSE shadow
  /\ owed' = Moved(owed, Delivers, Accepted(cpu, cnn),
                   [to |-> IF cpu # NoCmd THEN "cpu" ELSE "cnn", read |-> cmd.read, data |-> AtomicData(cmd)])

Init == /\ FabricInit(Contents)
        /\ cpu = NoCmd /\ cnn = NoCmd
        /\ shadow = Contents /\ owed = <<>>

Clock(slow) ==
  /\ FabricClock(cpu, cnn, slow)
  /\ IF cpu = NoCmd \/ CpuReady THEN cpu' \in Cmds \cup {NoCmd} ELSE UNCHANGED cpu
  /\ IF cnn = NoCmd \/ CnnReady(cpu) THEN cnn' \in Cmds \cup {NoCmd} ELSE UNCHANGED cnn
  /\ History

Next == \E slow \in BOOLEAN : Clock(slow)

Spec == Init /\ [][Next]_vars

\* The clock never stops, and a slow slave answers in the end.  The masters
\* need not send anything more.
FairSpec == Spec /\ WF_fabricVars(Clock(TRUE))

-----------------------------------------------------------------------------
\* A response goes to the master that asked, and a read returns the word as
\* the writes accepted before it left it: arbiter, bus FIFOs, splitter and
\* bypass buffer never let a command overtake another.
AnswersAtomic ==
  Delivers =>
    /\ owed # <<>>
    /\ Head(owed).to = Head(rspid_fifo)
    /\ Head(owed).read => Head(rsp_fifo) = Head(owed).data

\* Nothing that was accepted is stuck: full FIFOs always drain.
Answered == owed # <<>> ~> Delivers
=============================================================================
