------------------------------ MODULE CnnCore ------------------------------
(***************************************************************************)
(* The control part of the accelerator (CNN_core.v): a state machine that  *)
(* reads Words weights and Words image words over its ICB master port,     *)
(* streams them through the systolic array and writes the Words results    *)
(* back.  Every register of the file is a variable; one step is one rising *)
(* edge of clk, in which all of them take their next values at once.  The  *)
(* inputs of a cycle are enable (from CNN_control.v), cnn_icb_cmd_ready    *)
(* and the response channel.                                               *)
(*                                                                         *)
(* Addresses are a region and a byte offset in it.  The GELU of a result   *)
(* is a function of the result alone (module Gelu), so a store carries the *)
(* result itself.                                                          *)
(***************************************************************************)
EXTENDS PeArray, FiniteSets

CONSTANTS Word,     \* what the memories may hold
          NoWord    \* no response in this cycle

ASSUME CoreAssumption == /\ Side > 1
                         /\ Zero \in Word /\ NoWord \notin Word

VARIABLES current_state, mode, done,
          \* the command channel, registered
          cnn_icb_cmd_valid, cnn_icb_cmd_read, cnn_icb_cmd_addr, cnn_icb_cmd_wdata,
          \* LOAD_WEIGHT
          weight_addr_next, weight_addr_send_cnt, weight_addr_send_done,
          weight_data_rcpt_cnt, cur_weight,
          \* LOAD_IMAGE
          image_addr_next, image_addr_send_cnt, image_addr_send_done,
          image_data_rcpt_cnt, image_data,
          \* COMPUTE
          compute_cnt, in_weight, in_data,
          \* STORE
          store_data_send_cnt, store_rsp_rcpt_cnt, store_data_addr_next,
          store_data_send_next_cnt

seqVars    == <<current_state, mode, done>>
busVars    == <<cnn_icb_cmd_valid, cnn_icb_cmd_read, cnn_icb_cmd_addr, cnn_icb_cmd_wdata>>
weightVars == <<weight_addr_next, weight_addr_send_cnt, weight_addr_send_done,
                weight_data_rcpt_cnt, cur_weight>>
imageVars  == <<image_addr_next, image_addr_send_cnt, image_addr_send_done,
                image_data_rcpt_cnt, image_data>>
feedVars   == <<compute_cnt, in_weight, in_data>>
storeVars  == <<store_data_send_cnt, store_rsp_rcpt_cnt, store_data_addr_next,
                store_data_send_next_cnt>>
coreVars   == <<seqVars, busVars, weightVars, imageVars, feedVars, storeVars, peVars>>

Words    == Side * Side          \* 16 words of each kind
LastWord == Words - 1            \* 4'b1111
LastFeed == 3 * Side - 2         \* 4'b1010: the cycle of the last product

States  == {"IDLE", "LOAD_WEIGHT", "LOAD_IMAGE", "COMPUTE", "STORE", "DONE"}
Regions == {"weight", "image", "out"}

NoAddr == [region |-> "none", off |-> 0]
At(region, off) == [region |-> region, off |-> off]

-----------------------------------------------------------------------------
(* Combinational signals. *)

\* ready is cnn_icb_cmd_ready.
CmdHsk(ready) == cnn_icb_cmd_valid /\ ready
RdHsk(ready)  == CmdHsk(ready) /\ cnn_icb_cmd_read
WrHsk(ready)  == CmdHsk(ready) /\ ~cnn_icb_cmd_read
\* A slip: the registers advance although the command is refused.
SendUpdateAlways(ready) == TRUE

SendUpdate(ready) == ~cnn_icb_cmd_valid \/ ready

\* A slip: reads go on until the data has come.
SendUntilReceived == current_state = "LOAD_WEIGHT" /\ weight_data_rcpt_cnt # Words

weight_addr_send_start == current_state = "LOAD_WEIGHT" /\ ~weight_addr_send_done
image_addr_send_start  == current_state = "LOAD_IMAGE" /\ ~image_addr_send_done
weight_data_rcpt_done  == weight_data_rcpt_cnt = Words
image_data_rcpt_done   == image_data_rcpt_cnt = Words

\* Slips: the last handshake is noticed a cycle late; an off-by-one count of
\* the handshakes, and of the responses.
SentOnceCounted(ready) == store_data_send_cnt = Words
SentOneMore(ready)     == store_data_send_cnt = Words + 1
StoredOneMore          == store_rsp_rcpt_cnt = Words + 1

store_data_send_done(ready) == \/ store_data_send_cnt = LastWord /\ ready
                               \/ store_data_send_cnt = Words
store_data_send_start(ready) == current_state = "STORE" /\ ~store_data_send_done(ready)
store_done == store_rsp_rcpt_cnt = Words

\* The result multiplexer: store_data_send_next_cnt counts the results row
\* by row.
store_data_send_next ==
  result[store_data_send_next_cnt \div Side][store_data_send_next_cnt % Side]

-----------------------------------------------------------------------------
(* The state register, mode and done. *)

NextState(enable) ==
  CASE current_state = "IDLE"        -> IF enable THEN "LOAD_WEIGHT" ELSE "IDLE"
    [] current_state = "LOAD_WEIGHT" -> IF weight_data_rcpt_done THEN "LOAD_IMAGE"
                                                                 ELSE "LOAD_WEIGHT"
    [] current_state = "LOAD_IMAGE"  -> IF image_data_rcpt_done THEN "COMPUTE"
                                                                ELSE "LOAD_IMAGE"
    [] current_state = "COMPUTE"     -> IF compute_cnt = Side THEN "STORE" ELSE "COMPUTE"
    [] current_state = "STORE"       -> IF store_done THEN "DONE" ELSE "STORE"
    [] current_state = "DONE"        -> IF enable THEN "DONE" ELSE "IDLE"

\* A slip: the array stops one product early.
ArrayRunsShort == \/ current_state = "LOAD_IMAGE" /\ image_data_rcpt_done
                  \/ current_state = "COMPUTE"
                  \/ current_state = "STORE" /\ compute_cnt \in (Side + 1)..(LastFeed - 2)

ArrayRuns == \/ current_state = "LOAD_IMAGE" /\ image_data_rcpt_done
             \/ current_state = "COMPUTE"
             \/ current_state = "STORE" /\ compute_cnt \in (Side + 1)..(LastFeed - 1)

NextMode ==
  CASE ArrayRuns                                               -> "SINGLE"
    [] ~ArrayRuns /\ store_done
         /\ ~(current_state = "STORE" /\ compute_cnt = LastFeed) -> "CLEAR"
    [] OTHER                                                   -> "DISABLE"

Sequencer(enable) == /\ current_state' = NextState(enable)
                     /\ mode' = NextMode
                     /\ done' = (current_state = "DONE")

-----------------------------------------------------------------------------
(* The registered command channel, shared by the three transfers. *)

SendStart(ready) == \/ weight_addr_send_start
                    \/ image_addr_send_start
                    \/ store_data_send_start(ready)

NextAddr(ready) ==
  CASE weight_addr_send_start /\ SendUpdate(ready) -> At("weight", weight_addr_next)
    [] image_addr_send_start /\ SendUpdate(ready)  -> At("image", image_addr_next)
    [] store_data_send_start(ready) /\ SendUpdate(ready) -> At("out", store_data_addr_next)
    [] SendStart(ready) /\ ~SendUpdate(ready)      -> cnn_icb_cmd_addr
    [] OTHER                                       -> NoAddr

Command(ready) ==
  /\ cnn_icb_cmd_valid' = SendStart(ready)
  /\ cnn_icb_cmd_read' = (weight_addr_send_start \/ image_addr_send_start)
  /\ cnn_icb_cmd_addr' = NextAddr(ready)
  /\ cnn_icb_cmd_wdata' = IF ~store_data_send_start(ready) THEN <<>>
                          ELSE IF SendUpdate(ready) THEN store_data_send_next
                          ELSE cnn_icb_cmd_wdata

-----------------------------------------------------------------------------
(* LOAD_WEIGHT.  send_cnt saturates at its last value and send_done and     *)
(* rcpt_cnt are never reset.                                               *)

LoadWeight(ready, rsp) ==
  /\ weight_addr_next' = CASE current_state = "IDLE" -> 0
                           [] weight_addr_send_start /\ SendUpdate(ready) -> weight_addr_next + 4
                           [] OTHER -> weight_addr_next
  /\ weight_addr_send_cnt' =
       IF weight_addr_send_cnt # LastWord /\ current_state = "LOAD_WEIGHT" /\ RdHsk(ready)
       THEN weight_addr_send_cnt + 1 ELSE weight_addr_send_cnt
  /\ weight_addr_send_done' = (weight_addr_send_done \/ weight_addr_send_cnt = LastWord)
  /\ weight_data_rcpt_cnt' =
       CASE weight_data_rcpt_done              -> weight_data_rcpt_cnt
         [] ~weight_data_rcpt_done /\ current_state # "LOAD_WEIGHT" -> 0
         [] OTHER -> weight_data_rcpt_cnt + (IF rsp # NoWord THEN 1 ELSE 0)
  /\ cur_weight' =
       IF current_state = "LOAD_WEIGHT" /\ rsp # NoWord /\ ~weight_data_rcpt_done
       THEN [cur_weight EXCEPT ![weight_data_rcpt_cnt] = rsp] ELSE cur_weight

\* LOAD_IMAGE.  send_cnt is 4 bits and wraps, rcpt_cnt 5 bits and restarts
\* outside the state; send_done is never reset.
LoadImage(ready, rsp) ==
  /\ image_addr_next' = CASE current_state \in {"IDLE", "LOAD_WEIGHT"} -> 0
                          [] image_addr_send_start /\ SendUpdate(ready) -> image_addr_next + 4
                          [] OTHER -> image_addr_next
  /\ image_addr_send_cnt' = IF current_state = "LOAD_IMAGE" /\ RdHsk(ready)
                            THEN (image_addr_send_cnt + 1) % Words ELSE image_addr_send_cnt
  /\ image_addr_send_done' = (image_addr_send_done \/ image_addr_send_cnt = LastWord)
  /\ image_data_rcpt_cnt' =
       IF current_state # "LOAD_IMAGE" THEN 0
       ELSE (image_data_rcpt_cnt + (IF rsp # NoWord THEN 1 ELSE 0)) % (2 * Words)
  /\ image_data' =
       IF current_state = "LOAD_IMAGE" /\ rsp # NoWord /\ image_data_rcpt_cnt < Words
       THEN [image_data EXCEPT ![image_data_rcpt_cnt] = rsp] ELSE image_data

-----------------------------------------------------------------------------
(* COMPUTE.  Lane k takes its word j in the cycle compute_cnt = k + j, so    *)
(* that the two operands of a product meet in one PE.                        *)

Feed(buffer, k) == IF mode = "SINGLE" /\ compute_cnt \in k..(k + Side - 1)
                   THEN buffer[Side * k + (compute_cnt - k)] ELSE Zero

\* A slip: the count stops when the results start to leave.
CountingInCompute == current_state = "COMPUTE"

Counting == \/ current_state = "COMPUTE"
            \/ current_state = "STORE" /\ compute_cnt # 0

Compute ==
  /\ compute_cnt' = CASE compute_cnt = LastFeed -> 0
                      [] compute_cnt # LastFeed /\ Counting -> compute_cnt + 1
                      [] OTHER -> compute_cnt
  /\ in_weight' = [k \in Lane |-> Feed(cur_weight, k)]
  /\ in_data' = [k \in Lane |-> Feed(image_data, k)]
  /\ PeClock(mode, in_weight, in_data)

-----------------------------------------------------------------------------
(* STORE.  The write address moves by one byte a word. *)

\* The value of a register that advances with each new store command, waits
\* while one is refused, and is otherwise back at its start.
WithStores(ready, next, now, start) ==
  CASE store_data_send_start(ready) /\ SendUpdate(ready)  -> next
    [] store_data_send_start(ready) /\ ~SendUpdate(ready) -> now
    [] OTHER                                              -> start

Store(ready, rsp) ==
  /\ store_data_send_cnt' = IF current_state # "STORE" THEN 0
       ELSE (store_data_send_cnt + (IF WrHsk(ready) THEN 1 ELSE 0)) % (2 * Words)
  /\ store_rsp_rcpt_cnt' = IF current_state # "STORE" THEN 0
       ELSE (store_rsp_rcpt_cnt + (IF rsp # NoWord THEN 1 ELSE 0)) % (2 * Words)
  /\ store_data_addr_next' = WithStores(ready, store_data_addr_next + 1, store_data_addr_next, 0)
  /\ store_data_send_next_cnt' =
       WithStores(ready, (store_data_send_next_cnt + 1) % Words, store_data_send_next_cnt, 0)

-----------------------------------------------------------------------------
CoreInit ==
  /\ current_state = "IDLE" /\ mode = "DISABLE" /\ done = FALSE
  /\ cnn_icb_cmd_valid = FALSE /\ cnn_icb_cmd_read = FALSE
  /\ cnn_icb_cmd_addr = NoAddr /\ cnn_icb_cmd_wdata = <<>>
  /\ weight_addr_next = 0 /\ weight_addr_send_cnt = 0 /\ weight_addr_send_done = FALSE
  /\ weight_data_rcpt_cnt = 0 /\ cur_weight = [k \in 0..LastWord |-> Zero]
  /\ image_addr_next = 0 /\ image_addr_send_cnt = 0 /\ image_addr_send_done = FALSE
  /\ image_data_rcpt_cnt = 0 /\ image_data = [k \in 0..LastWord |-> Zero]
  /\ compute_cnt = 0
  /\ in_weight = [k \in Lane |-> Zero] /\ in_data = [k \in Lane |-> Zero]
  /\ store_data_send_cnt = 0 /\ store_rsp_rcpt_cnt = 0
  /\ store_data_addr_next = 0 /\ store_data_send_next_cnt = 0
  /\ PeInit

\* One clock: rsp is the word of the response accepted in this cycle
\* (cnn_icb_rsp_ready is tied high), or NoWord.
CoreClock(enable, ready, rsp) ==
  /\ Sequencer(enable)
  /\ Command(ready)
  /\ LoadWeight(ready, rsp)
  /\ LoadImage(ready, rsp)
  /\ Compute
  /\ Store(ready, rsp)

\* The core against any bus: ready and responses as they come.
CoreNext == \E enable, ready \in BOOLEAN, rsp \in Word \cup {NoWord} :
              CoreClock(enable, ready, rsp)

CoreSpec == CoreInit /\ [][CoreNext]_coreVars

-----------------------------------------------------------------------------
CoreTypeOk ==
  /\ current_state \in States
  /\ mode \in {"DISABLE", "SINGLE", "CLEAR"}
  /\ done \in BOOLEAN
  /\ cnn_icb_cmd_valid \in BOOLEAN /\ cnn_icb_cmd_read \in BOOLEAN
  /\ weight_addr_next \in Nat /\ weight_addr_send_cnt \in 0..LastWord
  /\ weight_addr_send_done \in BOOLEAN
  /\ weight_data_rcpt_cnt \in 0..Words /\ cur_weight \in [0..LastWord -> Word]
  /\ image_addr_send_done \in BOOLEAN
  /\ image_data \in [0..LastWord -> Word]
  /\ compute_cnt \in 0..LastFeed
  /\ store_data_send_cnt \in 0..Words /\ store_rsp_rcpt_cnt \in 0..(Words + 1)
  /\ store_data_send_next_cnt \in 0..LastWord

\* The array starts aligned: compute_cnt is back at 0 before the next COMPUTE
\* although STORE, which it runs on into, ends on the responses of the bus.
\* Otherwise the skewed feeds would start in the middle of their words.
FeedsAligned ==
  /\ current_state \in {"IDLE", "LOAD_WEIGHT", "LOAD_IMAGE", "DONE"} => compute_cnt = 0
  /\ current_state = "COMPUTE" => compute_cnt \in 0..Side

\* While weights are requested, the command on the bus is the one for the
\* word that follows those already taken: no address is skipped or repeated
\* however long the bus makes the core wait.
WeightReadsInOrder ==
  current_state = "LOAD_WEIGHT" /\ ~weight_addr_send_done /\ ~weight_data_rcpt_done =>
    \/ /\ cnn_icb_cmd_valid /\ cnn_icb_cmd_read
       /\ cnn_icb_cmd_addr = At("weight", 4 * weight_addr_send_cnt)
       /\ weight_addr_next = 4 * (weight_addr_send_cnt + 1)
    \/ ~cnn_icb_cmd_valid /\ weight_addr_send_cnt = 0 /\ weight_addr_next = 0

\* The write on the bus is the one that follows those already taken: command,
\* address, result multiplexer and handshake counter are four registers with
\* four update conditions and stay in step; no read is turned into a write.
StoreInOrder ==
  current_state = "STORE" =>
    \/ /\ ~cnn_icb_cmd_valid /\ store_data_send_cnt = 0
       /\ store_data_addr_next = 0 /\ store_data_send_next_cnt = 0
    \/ /\ cnn_icb_cmd_valid /\ ~cnn_icb_cmd_read /\ store_data_send_cnt < Words
       /\ cnn_icb_cmd_addr = At("out", store_data_send_cnt)
       /\ store_data_addr_next = store_data_send_cnt + 1
       /\ store_data_send_next_cnt = (IF store_data_send_cnt = LastWord THEN 0
                                      ELSE store_data_send_cnt + 1)
    \/ ~cnn_icb_cmd_valid /\ store_data_send_cnt = Words
=============================================================================
