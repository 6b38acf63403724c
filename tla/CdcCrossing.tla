----------------------------- MODULE CdcCrossing -----------------------------
(***************************************************************************)
(* sirv_gnrl_cdc_tx and sirv_gnrl_cdc_rx: a payload crosses between two     *)
(* clocks (JTAG and the debug module, the always-on domain and the bus) by  *)
(* a four-phase handshake of two levels, each seen by the other side        *)
(* through a chain of SYNC_DP flip-flops.  The clocks are unrelated: a step *)
(* is an edge of either or of both at once, and a chain that samples a      *)
(* level while it changes may see the old or the new one.                   *)
(***************************************************************************)
EXTENDS Integers, Sequences

CONSTANTS SYNC_DP,    \* flip-flops of a synchroniser
          Payloads

ASSUME CdcAssumption == SYNC_DP \in Nat \ {0}

VARIABLES vld_r, dat_r, nrdy_r, o_rdy_sync_r,         \* transmitter
          o_rdy_sync_dat,                             \* its synchroniser
          i_rdy_r, buf_vld_r, buf_dat_r, i_vld_sync_r, \* receiver
          i_vld_sync_dat,                             \* its synchroniser
          sent    \* history: accepted from the sender, not yet taken by the reader

txVars == <<vld_r, dat_r, nrdy_r, o_rdy_sync_r, o_rdy_sync_dat>>
rxVars == <<i_rdy_r, buf_vld_r, buf_dat_r, i_vld_sync_r, i_vld_sync_dat>>
cdcVars == <<txVars, rxVars, sent>>

Chain == [1..SYNC_DP -> BOOLEAN]
CdcTypeOk == /\ {vld_r, nrdy_r, o_rdy_sync_r, i_rdy_r, buf_vld_r, i_vld_sync_r} \subseteq BOOLEAN
             /\ o_rdy_sync_dat \in Chain /\ i_vld_sync_dat \in Chain
             /\ {dat_r, buf_dat_r} \subseteq Payloads

Shifted(chain, din_a) == [n \in 1..SYNC_DP |-> IF n = 1 THEN din_a ELSE chain[n - 1]]

o_rdy_sync == o_rdy_sync_dat[SYNC_DP]
i_vld_sync == i_vld_sync_dat[SYNC_DP]

-----------------------------------------------------------------------------
\* A slip: the transmitter is ready as soon as the request is withdrawn.
ReadyWhenWithdrawn == ~nrdy_r \/ ~vld_r

\* i_rdy of the transmitter: not busy, or the acknowledge falls.
o_rdy_nedge == ~o_rdy_sync /\ o_rdy_sync_r
TxReady == ~nrdy_r \/ o_rdy_nedge

\* One edge of the transmitter's clock, with its inputs in that cycle.
TxEdge(i_vld, i_dat) ==
  LET vld_set == i_vld /\ TxReady
  IN /\ vld_r' = (vld_set \/ (vld_r /\ ~o_rdy_sync))
     /\ dat_r' = IF vld_set THEN i_dat ELSE dat_r
     /\ nrdy_r' = (vld_set \/ (nrdy_r /\ ~o_rdy_nedge))
     /\ o_rdy_sync_r' = o_rdy_sync
     /\ o_rdy_sync_dat' = Shifted(o_rdy_sync_dat, i_rdy_r)

\* Slips: the receiver acknowledges over a full buffer, or looks for the
\* rising edge of the request instead of its level.
TakesBlindly == i_vld_sync /\ ~i_rdy_r
TakesOnEdge  == ~buf_vld_r /\ i_vld_sync /\ ~i_vld_sync_r /\ ~i_rdy_r

\* The request is seen and the buffer is free: i_rdy_set.
Takes == ~buf_vld_r /\ i_vld_sync /\ ~i_rdy_r

RxEdge(o_rdy) ==
  /\ i_rdy_r' = (Takes \/ (i_rdy_r /\ ~(~i_vld_sync /\ i_vld_sync_r)))
  /\ buf_vld_r' = (Takes \/ (buf_vld_r /\ ~o_rdy))
  /\ buf_dat_r' = IF Takes THEN dat_r ELSE buf_dat_r
  /\ i_vld_sync_r' = i_vld_sync
  /\ i_vld_sync_dat' = Shifted(i_vld_sync_dat, vld_r)

CdcInit ==
  /\ vld_r = FALSE /\ nrdy_r = FALSE /\ o_rdy_sync_r = FALSE
  /\ i_rdy_r = FALSE /\ buf_vld_r = FALSE /\ i_vld_sync_r = FALSE
  /\ o_rdy_sync_dat = [n \in 1..SYNC_DP |-> FALSE]
  /\ i_vld_sync_dat = [n \in 1..SYNC_DP |-> FALSE]
  /\ dat_r \in Payloads /\ buf_dat_r \in Payloads
  /\ sent = <<>>

\* The handshakes with the sender and the reader.
Accepts(i_vld, i_dat) == IF i_vld /\ TxReady THEN <<i_dat>> ELSE <<>>
Remains(o_rdy) == IF buf_vld_r /\ o_rdy THEN SubSeq(sent, 2, Len(sent)) ELSE sent

TxOnly(i_vld, i_dat) == /\ TxEdge(i_vld, i_dat)
                        /\ sent' = sent \o Accepts(i_vld, i_dat)
                        /\ UNCHANGED rxVars

RxOnly(o_rdy) == /\ RxEdge(o_rdy)
                 /\ sent' = Remains(o_rdy)
                 /\ UNCHANGED txVars

BothEdges(i_vld, i_dat, o_rdy) ==
  /\ TxEdge(i_vld, i_dat)
  /\ RxEdge(o_rdy)
  /\ sent' = Remains(o_rdy) \o Accepts(i_vld, i_dat)

CdcNext == \E i_vld, o_rdy \in BOOLEAN, i_dat \in Payloads :
             \/ TxOnly(i_vld, i_dat)
             \/ RxOnly(o_rdy)
             \/ BothEdges(i_vld, i_dat, o_rdy)

\* Both clocks run, and what has arrived is taken in the end.  Nobody need
\* send.
CdcFairness == /\ WF_txVars(\E dat \in Payloads : TxEdge(FALSE, dat))
               /\ WF_rxVars(RxEdge(TRUE))

CdcSpec == CdcInit /\ [][CdcNext]_cdcVars /\ CdcFairness

-----------------------------------------------------------------------------
(* The levels along the loop, from the request to the acknowledge as the   *)
(* transmitter sees it.                                                    *)
Loop == [n \in 0..(2 * SYNC_DP + 1) |->
           IF n = 0 THEN vld_r
           ELSE IF n <= SYNC_DP THEN i_vld_sync_dat[n]
           ELSE IF n = SYNC_DP + 1 THEN i_rdy_r
           ELSE o_rdy_sync_dat[n - SYNC_DP - 1]]

\* The four phases alternate: at most one change of level is on its way
\* round the loop, and none is when the transmitter is ready for the next
\* payload (vld_clr, i_rdy_set, i_rdy_clr and nrdy_clr each wait for the
\* other side).
FourPhases ==
  /\ \A a, b, c \in DOMAIN Loop : a < b /\ b < c /\ Loop[a] = Loop[c] => Loop[b] = Loop[a]
  /\ ~nrdy_r => \A n \in DOMAIN Loop : ~Loop[n]
  /\ o_rdy_nedge => \A n \in DOMAIN Loop : ~Loop[n]

\* What the two sides hold: the receiver's buffer, then a payload it has
\* not acknowledged.
Held == (IF buf_vld_r THEN <<buf_dat_r>> ELSE <<>>)
        \o (IF vld_r /\ ~i_rdy_r THEN <<dat_r>> ELSE <<>>)

\* Whatever the two clocks do, no payload is lost, duplicated, reordered or
\* sampled while it changes (buf_dat_ena of cdc_rx samples dat_r of cdc_tx
\* unsynchronised).
NothingLost == sent = Held

\* The transmitter is ready again and again: the handshake never locks up.
ReadyAgain == []<>TxReady
=============================================================================
