--------------------------- MODULE CnnCore_proofs ---------------------------
(***************************************************************************)
(* The control of CNN_core.v for every array size and every behaviour of   *)
(* the bus.  FeedsAligned, WeightReadsInOrder and StoreInOrder are proved  *)
(* together from CtrlInv, which adds what they need about the cycles       *)
(* before: STORE lasts at least as many cycles as it counts responses.     *)
(* ProductInv follows the operands through the array: a write carries the  *)
(* finished sum of its place, although the store overtakes the array.      *)
(***************************************************************************)
EXTENDS CnnCore, TLAPS

\* The registers the three properties talk about have their widths.
CtrlTypes ==
  /\ current_state \in States
  /\ cnn_icb_cmd_valid \in BOOLEAN
  /\ weight_addr_send_done \in BOOLEAN
  /\ weight_addr_send_cnt \in 0..LastWord
  /\ weight_data_rcpt_cnt \in 0..Words
  /\ compute_cnt \in 0..LastFeed
  /\ store_data_send_cnt \in 0..Words
  /\ store_rsp_rcpt_cnt \in 0..(Words + 1)

\* No command is left over when a state begins that is to send its own.
Quiet == /\ current_state = "LOAD_WEIGHT" /\ cnn_icb_cmd_valid => cnn_icb_cmd_read
         /\ current_state = "IDLE" => ~cnn_icb_cmd_valid
         /\ current_state = "COMPUTE" /\ compute_cnt > 0 => ~cnn_icb_cmd_valid

\* STORE counts at most one response a cycle, the array one step a cycle.
StoreOutlastsArray ==
  current_state = "STORE" =>
    /\ store_rsp_rcpt_cnt <= Words
    /\ compute_cnt = 0 \/ compute_cnt >= Side + 1 + store_rsp_rcpt_cnt

\* Until the weights are loaded nothing but LOAD_WEIGHT has happened.
FirstLoad ==
  ~weight_data_rcpt_done =>
    /\ current_state \in {"IDLE", "LOAD_WEIGHT"}
    /\ current_state = "IDLE" => /\ weight_addr_send_cnt = 0 /\ weight_addr_next = 0
                                 /\ ~weight_addr_send_done

CtrlInv == /\ CtrlTypes /\ Quiet /\ StoreOutlastsArray /\ FirstLoad
           /\ FeedsAligned /\ WeightReadsInOrder /\ StoreInOrder

-----------------------------------------------------------------------------
\* The arithmetic of the bounds: a square array of more than one lane.
LEMMA Sizes ==
  /\ Side \in Nat /\ Side > 1
  /\ Words \in Nat /\ LastWord \in Nat /\ LastWord > 0 /\ LastWord = Words - 1
  /\ LastFeed \in Nat /\ LastFeed >= Side + 1 /\ LastFeed < Words + Side + 1
<1>1. Side \in Nat /\ Side > 1
  BY SideAssumption, CoreAssumption
<1>2. Side * Side \in Nat /\ (Side - 1) * (Side - 1) >= 0
  BY <1>1, SMT
<1>3. (Side - 1) * (Side - 1) = Side * Side - 2 * Side + 1
  BY <1>1, SMT
<1>4. Side * Side >= 2 * Side - 1
  BY <1>1, <1>2, <1>3, SMT
<1> QED BY <1>1, <1>2, <1>4, SMT DEF Words, LastWord, LastFeed

\* A counter below its modulus counts without wrapping.
LEMMA SmallMod ==
  ASSUME NEW m \in Nat, NEW x \in Nat, x < m
  PROVE  x % m = x
BY SMT

LEMMA SelfMod ==
  ASSUME NEW m \in Nat, m > 0
  PROVE  m % m = 0
BY SMT

LEMMA CtrlInit == CoreInit => CtrlInv
<1> SUFFICES ASSUME CoreInit PROVE CtrlInv
  OBVIOUS
<1>1. /\ current_state = "IDLE" /\ cnn_icb_cmd_valid = FALSE /\ compute_cnt = 0
      /\ weight_addr_send_done = FALSE /\ weight_addr_send_cnt = 0
      /\ weight_data_rcpt_cnt = 0
      /\ store_data_send_cnt = 0 /\ store_rsp_rcpt_cnt = 0
  BY DEF CoreInit
<1>2. CtrlTypes
  <2>1. 0 \in 0..LastWord /\ 0 \in 0..Words /\ 0 \in 0..LastFeed /\ 0 \in 0..(Words + 1)
    BY Sizes
  <2> QED BY <1>1, <2>1, Zenon DEF CtrlTypes, States
<1>3. Quiet /\ StoreOutlastsArray /\ FeedsAligned
  BY <1>1 DEF Quiet, StoreOutlastsArray, FeedsAligned
<1>4. FirstLoad
  BY <1>1 DEF FirstLoad, CoreInit
<1>5. WeightReadsInOrder /\ StoreInOrder
  BY <1>1 DEF WeightReadsInOrder, StoreInOrder
<1> QED BY <1>2, <1>3, <1>4, <1>5 DEF CtrlInv

-----------------------------------------------------------------------------
\* Every clock keeps CtrlInv, whatever the bus and the software do in it.
LEMMA CtrlStep ==
  ASSUME CtrlInv, NEW enable \in BOOLEAN, NEW ready \in BOOLEAN, NEW rsp,
         CoreClock(enable, ready, rsp)
  PROVE  CtrlInv'
<1> USE Sizes
<1>1. /\ CtrlTypes /\ Quiet /\ StoreOutlastsArray /\ FirstLoad
      /\ FeedsAligned /\ WeightReadsInOrder /\ StoreInOrder
  BY DEF CtrlInv
<1>2. /\ Sequencer(enable) /\ Command(ready) /\ LoadWeight(ready, rsp)
      /\ Compute /\ Store(ready, rsp)
  BY DEF CoreClock
<1>3. current_state' = NextState(enable)
  BY <1>2 DEF Sequencer
<1>4. /\ cnn_icb_cmd_valid' = SendStart(ready)
      /\ cnn_icb_cmd_read' = (weight_addr_send_start \/ image_addr_send_start)
      /\ cnn_icb_cmd_addr' = NextAddr(ready)
  BY <1>2 DEF Command
<1>5. /\ compute_cnt = LastFeed => compute_cnt' = 0
      /\ compute_cnt # LastFeed /\ Counting => compute_cnt' = compute_cnt + 1
      /\ compute_cnt # LastFeed /\ ~Counting => compute_cnt' = compute_cnt
  BY <1>2 DEF Compute
<1>6. ~(current_state \in {"LOAD_WEIGHT", "LOAD_IMAGE", "STORE"}) => ~cnn_icb_cmd_valid'
  BY <1>4 DEF SendStart, weight_addr_send_start, image_addr_send_start,
              store_data_send_start
\* What STORE counts, and why the responses cannot overtake the array.
<1>7. StoreOutlastsArray' /\ store_rsp_rcpt_cnt' \in 0..(Words + 1)
  <2>1. CASE current_state # "STORE"
    <3>1. store_rsp_rcpt_cnt' = 0
      BY <1>2, <2>1 DEF Store
    <3>2. current_state' = "STORE" => compute_cnt' = Side + 1
      BY <1>1, <1>3, <1>5, <2>1 DEF NextState, CtrlTypes, States, Counting
    <3> QED BY <3>1, <3>2 DEF StoreOutlastsArray
  <2>2. CASE current_state = "STORE"
    <3>1. /\ store_rsp_rcpt_cnt \in 0..Words
          /\ compute_cnt = 0 \/ compute_cnt >= Side + 1 + store_rsp_rcpt_cnt
      BY <1>1, <2>2 DEF StoreOutlastsArray, CtrlTypes
    <3> DEFINE more == IF rsp # NoWord THEN 1 ELSE 0
    <3>2. store_rsp_rcpt_cnt' = (store_rsp_rcpt_cnt + more) % (2 * Words)
      BY <1>2, <2>2 DEF Store
    <3>3. store_rsp_rcpt_cnt + more \in Nat /\ store_rsp_rcpt_cnt + more < 2 * Words
      BY <3>1
    <3>4. store_rsp_rcpt_cnt' = store_rsp_rcpt_cnt + more
      BY <3>2, <3>3, SmallMod
    <3>5. compute_cnt' = 0 \/ (compute_cnt' = compute_cnt + 1 /\ compute_cnt # 0)
      <4>1. Counting <=> compute_cnt # 0
        BY <2>2 DEF Counting
      <4> QED BY <1>5, <4>1
    <3>6. current_state' = "STORE" => store_rsp_rcpt_cnt # Words
      BY <1>3, <2>2 DEF NextState, store_done
    <3> QED BY <1>1, <3>1, <3>4, <3>5, <3>6 DEF StoreOutlastsArray, CtrlTypes
  <2> QED BY <2>1, <2>2
\* The registers keep their widths.
<1>8. CtrlTypes'
  <2>1. current_state' \in States
    BY <1>1, <1>3 DEF NextState, CtrlTypes, States
  <2>2. cnn_icb_cmd_valid' \in BOOLEAN
    BY <1>4 DEF SendStart, weight_addr_send_start, image_addr_send_start,
                store_data_send_start
  <2>3. weight_addr_send_done' \in BOOLEAN
    BY <1>2 DEF LoadWeight
  <2>4. weight_addr_send_cnt' \in 0..LastWord
    BY <1>1, <1>2 DEF LoadWeight, CtrlTypes
  <2>5. weight_data_rcpt_cnt' \in 0..Words
    BY <1>1, <1>2 DEF LoadWeight, CtrlTypes, weight_data_rcpt_done
  <2>6. compute_cnt' \in 0..LastFeed
    BY <1>1, <1>5 DEF CtrlTypes
  <2>7. store_data_send_cnt' \in 0..Words
    <3>1. CASE current_state # "STORE"
      BY <1>2, <3>1 DEF Store
    <3>2. CASE current_state = "STORE"
      <4> DEFINE taken == IF WrHsk(ready) THEN 1 ELSE 0
      <4>1. store_data_send_cnt' = (store_data_send_cnt + taken) % (2 * Words)
        BY <1>2, <3>2 DEF Store
      <4>2. WrHsk(ready) => store_data_send_cnt < Words
        BY <1>1, <3>2 DEF StoreInOrder, WrHsk, CmdHsk
      <4>3. store_data_send_cnt + taken \in 0..Words
        BY <1>1, <4>2 DEF CtrlTypes
      <4>4. store_data_send_cnt + taken \in Nat /\ store_data_send_cnt + taken < 2 * Words
        BY <4>3
      <4> QED BY <4>1, <4>3, <4>4, SmallMod
    <3> QED BY <3>1, <3>2
  <2> QED BY <1>7, <2>1, <2>2, <2>3, <2>4, <2>5, <2>6, <2>7 DEF CtrlTypes
<1>9. Quiet'
  <2>1. current_state' = "IDLE" => current_state \in {"IDLE", "DONE"}
    BY <1>1, <1>3 DEF NextState, CtrlTypes, States
  <2>2. current_state' = "COMPUTE" /\ compute_cnt' > 0 => current_state = "COMPUTE"
    BY <1>1, <1>3, <1>5 DEF NextState, CtrlTypes, States, FeedsAligned, Counting
  <2>3. current_state' = "LOAD_WEIGHT" => current_state \in {"IDLE", "LOAD_WEIGHT"}
    BY <1>1, <1>3 DEF NextState, CtrlTypes, States
  <2>4. current_state = "LOAD_WEIGHT" /\ cnn_icb_cmd_valid' => cnn_icb_cmd_read'
    BY <1>4 DEF SendStart, weight_addr_send_start, image_addr_send_start,
                store_data_send_start
  <2> QED BY <1>6, <2>1, <2>2, <2>3, <2>4 DEF Quiet
<1>10. FirstLoad'
  <2> SUFFICES ASSUME ~weight_data_rcpt_done'
               PROVE  /\ current_state' \in {"IDLE", "LOAD_WEIGHT"}
                      /\ current_state' = "IDLE" => /\ weight_addr_send_cnt' = 0
                                                    /\ weight_addr_next' = 0
                                                    /\ ~weight_addr_send_done'
    BY DEF FirstLoad
  <2>1. ~weight_data_rcpt_done
    BY <1>2 DEF LoadWeight, weight_data_rcpt_done
  <2>2. current_state \in {"IDLE", "LOAD_WEIGHT"}
    BY <1>1, <2>1 DEF FirstLoad
  <2>3. current_state' \in {"IDLE", "LOAD_WEIGHT"} /\ (current_state' = "IDLE" => current_state = "IDLE")
    BY <1>3, <2>1, <2>2 DEF NextState
  <2>4. current_state = "IDLE" => /\ weight_addr_send_cnt = 0 /\ ~weight_addr_send_done
                                  /\ weight_addr_send_cnt # LastWord
    BY <1>1, <2>1 DEF FirstLoad
  <2>5. current_state = "IDLE" => /\ weight_addr_send_cnt' = 0 /\ weight_addr_next' = 0
                                  /\ ~weight_addr_send_done'
    <3>1. CASE current_state = "IDLE"
      <4>1. weight_addr_send_cnt' = weight_addr_send_cnt
        BY <1>2, <3>1 DEF LoadWeight
      <4>2. weight_addr_next' = 0
        BY <1>2, <3>1 DEF LoadWeight, weight_addr_send_start
      <4>3. weight_addr_send_done' = (weight_addr_send_done \/ weight_addr_send_cnt = LastWord)
        BY <1>2 DEF LoadWeight
      <4> QED BY <2>4, <3>1, <4>1, <4>2, <4>3
    <3> QED BY <3>1
  <2> QED BY <2>3, <2>5
<1>11. FeedsAligned'
  <2>1. CASE current_state = "STORE"
    <3>1. current_state' = "DONE" => store_rsp_rcpt_cnt = Words
      BY <1>3, <2>1 DEF NextState, store_done
    <3>2. current_state' = "DONE" => compute_cnt = 0
      BY <1>1, <2>1, <3>1 DEF StoreOutlastsArray, CtrlTypes
    <3>3. current_state' = "DONE" => compute_cnt' = 0
      BY <1>5, <3>2, <2>1 DEF Counting
    <3>4. current_state' \in {"STORE", "DONE"}
      BY <1>3, <2>1 DEF NextState
    <3> QED BY <3>3, <3>4 DEF FeedsAligned
  <2>2. CASE current_state = "COMPUTE"
    <3>1. compute_cnt \in 0..Side
      BY <1>1, <2>2 DEF FeedsAligned
    <3>2. IF compute_cnt = Side THEN current_state' = "STORE" ELSE current_state' = "COMPUTE"
      BY <1>3, <2>2 DEF NextState
    <3>3. compute_cnt' = compute_cnt + 1
      BY <1>5, <2>2, <3>1 DEF Counting
    <3> QED BY <3>1, <3>2, <3>3 DEF FeedsAligned
  <2>3. CASE current_state \notin {"STORE", "COMPUTE"}
    <3>1. compute_cnt = 0
      BY <1>1, <2>3 DEF FeedsAligned, CtrlTypes, States
    <3>2. compute_cnt' = 0
      BY <1>5, <2>3, <3>1 DEF Counting
    <3> QED BY <3>2 DEF FeedsAligned
  <2> QED BY <2>1, <2>2, <2>3
<1>12. WeightReadsInOrder'
  <2> SUFFICES ASSUME current_state' = "LOAD_WEIGHT", ~weight_addr_send_done',
                      ~weight_data_rcpt_done'
               PROVE  \/ /\ cnn_icb_cmd_valid' /\ cnn_icb_cmd_read'
                         /\ cnn_icb_cmd_addr' = At("weight", 4 * weight_addr_send_cnt')
                         /\ weight_addr_next' = 4 * (weight_addr_send_cnt' + 1)
                      \/ /\ ~cnn_icb_cmd_valid' /\ weight_addr_send_cnt' = 0
                         /\ weight_addr_next' = 0
    BY DEF WeightReadsInOrder, At
  <2>1. ~weight_data_rcpt_done
    BY <1>2 DEF LoadWeight, weight_data_rcpt_done
  <2>2. ~weight_addr_send_done /\ weight_addr_send_cnt # LastWord
    BY <1>2 DEF LoadWeight
  <2>3. current_state \in {"IDLE", "LOAD_WEIGHT"}
    BY <1>1, <2>1 DEF FirstLoad
  <2>4. weight_addr_next' = CASE current_state = "IDLE" -> 0
                              [] weight_addr_send_start /\ SendUpdate(ready) -> weight_addr_next + 4
                              [] OTHER -> weight_addr_next
    BY <1>2 DEF LoadWeight
  <2>5. weight_addr_send_cnt' =
          IF weight_addr_send_cnt # LastWord /\ current_state = "LOAD_WEIGHT" /\ RdHsk(ready)
          THEN weight_addr_send_cnt + 1 ELSE weight_addr_send_cnt
    BY <1>2 DEF LoadWeight
  <2>6. CASE current_state = "IDLE"
    <3>1. weight_addr_next' = 0
      BY <2>4, <2>6 DEF weight_addr_send_start
    <3>2. weight_addr_send_cnt' = 0
      BY <1>1, <2>1, <2>5, <2>6 DEF FirstLoad
    <3> QED BY <1>6, <2>6, <3>1, <3>2
  <2>7. CASE current_state = "LOAD_WEIGHT"
    <3>1. weight_addr_send_start
      BY <2>2, <2>7 DEF weight_addr_send_start
    <3>2. cnn_icb_cmd_valid' /\ cnn_icb_cmd_read'
      BY <1>4, <3>1 DEF SendStart
    <3>3. CASE ~cnn_icb_cmd_valid
      <4>1. weight_addr_send_cnt = 0 /\ weight_addr_next = 0
        BY <1>1, <2>1, <2>2, <2>7, <3>3 DEF WeightReadsInOrder
      <4>2. SendUpdate(ready) /\ ~RdHsk(ready)
        BY <3>3 DEF SendUpdate, RdHsk, CmdHsk
      <4>3. cnn_icb_cmd_addr' = At("weight", weight_addr_next)
        BY <1>4, <2>7, <3>1, <4>2 DEF NextAddr, image_addr_send_start, store_data_send_start
      <4>4. weight_addr_send_cnt' = 0
        BY <2>5, <4>1, <4>2
      <4>5. weight_addr_next' = 4
        BY <2>4, <2>7, <3>1, <4>1, <4>2
      <4>6. 4 * 0 = 0 /\ 4 * (0 + 1) = 4
        OBVIOUS
      <4> QED BY <3>2, <4>1, <4>3, <4>4, <4>5, <4>6
    <3>4. CASE cnn_icb_cmd_valid
      <4>1. /\ cnn_icb_cmd_read
            /\ cnn_icb_cmd_addr = At("weight", 4 * weight_addr_send_cnt)
            /\ weight_addr_next = 4 * (weight_addr_send_cnt + 1)
        BY <1>1, <2>1, <2>2, <2>7, <3>4 DEF WeightReadsInOrder
      <4>2. weight_addr_send_cnt \in Nat
        BY <1>1 DEF CtrlTypes
      <4>3. CASE ready
        <5>1. SendUpdate(ready) /\ RdHsk(ready)
          BY <3>4, <4>1, <4>3 DEF SendUpdate, RdHsk, CmdHsk
        <5>2. cnn_icb_cmd_addr' = At("weight", weight_addr_next)
          BY <1>4, <2>7, <3>1, <5>1 DEF NextAddr, image_addr_send_start, store_data_send_start
        <5>3. weight_addr_send_cnt' = weight_addr_send_cnt + 1
          BY <2>2, <2>5, <2>7, <5>1
        <5>4. weight_addr_next' = weight_addr_next + 4
          BY <2>4, <2>7, <3>1, <5>1
        <5>5. weight_addr_next' = 4 * (weight_addr_send_cnt' + 1)
          BY <4>1, <4>2, <5>3, <5>4
        <5> QED BY <3>2, <4>1, <5>2, <5>3, <5>5
      <4>4. CASE ~ready
        <5>1. ~SendUpdate(ready) /\ ~RdHsk(ready)
          BY <3>4, <4>4 DEF SendUpdate, RdHsk, CmdHsk
        <5>2. cnn_icb_cmd_addr' = cnn_icb_cmd_addr
          BY <1>4, <3>1, <5>1 DEF NextAddr, SendStart
        <5>3. weight_addr_send_cnt' = weight_addr_send_cnt
          BY <2>5, <5>1
        <5>4. weight_addr_next' = weight_addr_next
          BY <2>4, <2>7, <5>1
        <5> QED BY <3>2, <4>1, <5>2, <5>3, <5>4
      <4> QED BY <4>3, <4>4
    <3> QED BY <3>3, <3>4
  <2> QED BY <2>3, <2>6, <2>7
<1>13. StoreInOrder'
  <2> SUFFICES ASSUME current_state' = "STORE"
               PROVE  \/ /\ ~cnn_icb_cmd_valid' /\ store_data_send_cnt' = 0
                         /\ store_data_addr_next' = 0 /\ store_data_send_next_cnt' = 0
                      \/ /\ cnn_icb_cmd_valid' /\ ~cnn_icb_cmd_read'
                         /\ store_data_send_cnt' < Words
                         /\ cnn_icb_cmd_addr' = At("out", store_data_send_cnt')
                         /\ store_data_addr_next' = store_data_send_cnt' + 1
                         /\ store_data_send_next_cnt' =
                              (IF store_data_send_cnt' = LastWord THEN 0
                               ELSE store_data_send_cnt' + 1)
                      \/ ~cnn_icb_cmd_valid' /\ store_data_send_cnt' = Words
    BY DEF StoreInOrder, At
  <2>1. current_state \in {"COMPUTE", "STORE"}
    BY <1>1, <1>3 DEF NextState, CtrlTypes, States
  <2>2. ~weight_addr_send_start /\ ~image_addr_send_start
    BY <2>1 DEF weight_addr_send_start, image_addr_send_start
  <2>3. /\ (cnn_icb_cmd_valid' <=> store_data_send_start(ready))
        /\ ~cnn_icb_cmd_read'
        /\ store_data_send_start(ready) /\ SendUpdate(ready)
             => cnn_icb_cmd_addr' = At("out", store_data_addr_next)
        /\ store_data_send_start(ready) /\ ~SendUpdate(ready)
             => cnn_icb_cmd_addr' = cnn_icb_cmd_addr
    <3>1. (cnn_icb_cmd_valid' <=> store_data_send_start(ready)) /\ ~cnn_icb_cmd_read'
      BY <1>4, <2>2 DEF SendStart
    <3>2. store_data_send_start(ready) /\ SendUpdate(ready)
             => cnn_icb_cmd_addr' = At("out", store_data_addr_next)
      BY <1>4, <2>2 DEF NextAddr
    <3>3. store_data_send_start(ready) /\ ~SendUpdate(ready)
             => cnn_icb_cmd_addr' = cnn_icb_cmd_addr
      BY <1>4, <2>2 DEF NextAddr, SendStart
    <3> QED BY <3>1, <3>2, <3>3
  <2>4. /\ store_data_addr_next' =
             WithStores(ready, store_data_addr_next + 1, store_data_addr_next, 0)
        /\ store_data_send_next_cnt' =
             WithStores(ready, (store_data_send_next_cnt + 1) % Words,
                        store_data_send_next_cnt, 0)
    BY <1>2 DEF Store
  <2>5. /\ store_data_send_start(ready) /\ SendUpdate(ready)
             => /\ store_data_addr_next' = store_data_addr_next + 1
                /\ store_data_send_next_cnt' = (store_data_send_next_cnt + 1) % Words
        /\ store_data_send_start(ready) /\ ~SendUpdate(ready)
             => /\ store_data_addr_next' = store_data_addr_next
                /\ store_data_send_next_cnt' = store_data_send_next_cnt
        /\ ~store_data_send_start(ready)
             => store_data_addr_next' = 0 /\ store_data_send_next_cnt' = 0
    BY <2>4 DEF WithStores
  <2>6. CASE current_state = "COMPUTE"
    <3>1. ~store_data_send_start(ready)
      BY <2>6 DEF store_data_send_start
    <3>2. store_data_send_cnt' = 0
      BY <1>2, <2>6 DEF Store
    <3> QED BY <2>3, <2>5, <3>1, <3>2
  <2>7. CASE current_state = "STORE"
    <3> DEFINE taken == IF WrHsk(ready) THEN 1 ELSE 0
    <3>1. store_data_send_cnt \in 0..Words
      BY <1>1, <2>7 DEF CtrlTypes
    <3>2. store_data_send_cnt' = (store_data_send_cnt + taken) % (2 * Words)
      BY <1>2, <2>7 DEF Store
    <3>3. store_data_send_cnt + taken \in Nat /\ store_data_send_cnt + taken < 2 * Words
      BY <3>1
    <3>4. store_data_send_cnt' = store_data_send_cnt + taken
      BY <3>2, <3>3, SmallMod
    <3>5. store_data_send_start(ready) <=>
            /\ store_data_send_cnt # Words
            /\ ~(store_data_send_cnt = LastWord /\ ready)
      BY <2>7 DEF store_data_send_start, store_data_send_done
    \* Nothing is on the bus yet.
    <3>6. CASE /\ ~cnn_icb_cmd_valid /\ store_data_send_cnt = 0
               /\ store_data_addr_next = 0 /\ store_data_send_next_cnt = 0
      <4>1. SendUpdate(ready) /\ ~WrHsk(ready) /\ store_data_send_start(ready)
        BY <3>5, <3>6 DEF SendUpdate, WrHsk, CmdHsk
      <4>2. (0 + 1) % Words = 1
        <5>1. 1 \in Nat /\ 1 < Words
          OBVIOUS
        <5> QED BY <5>1, SmallMod
      <4>3. /\ cnn_icb_cmd_valid' /\ ~cnn_icb_cmd_read' /\ store_data_send_cnt' = 0
            /\ cnn_icb_cmd_addr' = At("out", 0)
            /\ store_data_addr_next' = 1 /\ store_data_send_next_cnt' = 1
        BY <2>3, <2>5, <3>4, <3>6, <4>1, <4>2
      <4> QED BY <4>3
    \* A write is on the bus.
    <3>7. CASE /\ cnn_icb_cmd_valid /\ ~cnn_icb_cmd_read /\ store_data_send_cnt < Words
               /\ cnn_icb_cmd_addr = At("out", store_data_send_cnt)
               /\ store_data_addr_next = store_data_send_cnt + 1
               /\ store_data_send_next_cnt = (IF store_data_send_cnt = LastWord THEN 0
                                              ELSE store_data_send_cnt + 1)
      <4>1. CASE ~ready
        <5>1. ~SendUpdate(ready) /\ ~WrHsk(ready) /\ store_data_send_start(ready)
          BY <3>1, <3>5, <3>7, <4>1 DEF SendUpdate, WrHsk, CmdHsk
        <5>2. store_data_send_cnt' = store_data_send_cnt
          BY <3>1, <3>4, <5>1
        <5> QED BY <2>3, <2>5, <3>7, <5>1, <5>2
      <4>2. CASE ready /\ store_data_send_cnt = LastWord
        <5>1. WrHsk(ready) /\ ~store_data_send_start(ready)
          BY <3>5, <3>7, <4>2 DEF WrHsk, CmdHsk
        <5>2. store_data_send_cnt' = Words
          BY <3>4, <4>2, <5>1
        <5> QED BY <2>3, <5>1, <5>2
      <4>3. CASE ready /\ store_data_send_cnt # LastWord
        <5>1. SendUpdate(ready) /\ WrHsk(ready) /\ store_data_send_start(ready)
          <6>1. SendUpdate(ready) /\ WrHsk(ready)
            BY <3>7, <4>3 DEF SendUpdate, WrHsk, CmdHsk
          <6>2. store_data_send_cnt # Words
            BY <3>7
          <6> QED BY <3>5, <4>3, <6>1, <6>2
        <5>2. store_data_send_cnt' = store_data_send_cnt + 1 /\ store_data_send_cnt' < Words
          BY <3>1, <3>4, <3>7, <4>3, <5>1
        <5>3. /\ cnn_icb_cmd_valid' /\ ~cnn_icb_cmd_read'
              /\ cnn_icb_cmd_addr' = At("out", store_data_send_cnt')
              /\ store_data_addr_next' = store_data_send_cnt' + 1
          BY <2>3, <2>5, <3>7, <5>1, <5>2
        <5>4. store_data_send_next_cnt' = (store_data_send_cnt' + 1) % Words
          BY <2>5, <3>7, <4>3, <5>1, <5>2
        <5>5. CASE store_data_send_cnt' = LastWord
          <6>1. store_data_send_next_cnt' = 0
            BY <5>4, <5>5, SelfMod
          <6> QED BY <5>2, <5>3, <5>5, <6>1
        <5>6. CASE store_data_send_cnt' # LastWord
          <6>1. store_data_send_cnt' + 1 \in Nat /\ store_data_send_cnt' + 1 < Words
            BY <3>1, <5>2, <5>6
          <6>2. store_data_send_next_cnt' = store_data_send_cnt' + 1
            BY <5>4, <6>1, SmallMod
          <6> QED BY <5>2, <5>3, <5>6, <6>2
        <5> QED BY <5>5, <5>6
      <4> QED BY <4>1, <4>2, <4>3
    \* All writes have been taken.
    <3>8. CASE ~cnn_icb_cmd_valid /\ store_data_send_cnt = Words
      <4>1. ~WrHsk(ready) /\ ~store_data_send_start(ready)
        BY <3>5, <3>8 DEF WrHsk, CmdHsk
      <4> QED BY <2>3, <3>4, <3>8, <4>1
    <3> QED BY <1>1, <2>7, <3>6, <3>7, <3>8 DEF StoreInOrder
  <2> QED BY <2>1, <2>6, <2>7
<1> QED BY <1>7, <1>8, <1>9, <1>10, <1>11, <1>12, <1>13 DEF CtrlInv

-----------------------------------------------------------------------------
LEMMA CtrlStutter ==
  ASSUME CtrlInv, UNCHANGED coreVars
  PROVE  CtrlInv'
<1>1. UNCHANGED <<current_state, cnn_icb_cmd_valid, cnn_icb_cmd_read, cnn_icb_cmd_addr,
                  weight_addr_next, weight_addr_send_cnt, weight_addr_send_done,
                  weight_data_rcpt_cnt, compute_cnt, store_data_send_cnt,
                  store_rsp_rcpt_cnt, store_data_addr_next, store_data_send_next_cnt>>
  BY DEF coreVars, seqVars, busVars, weightVars, feedVars, storeVars
<1>2. CtrlTypes' /\ Quiet' /\ StoreOutlastsArray' /\ FeedsAligned'
  BY <1>1 DEF CtrlInv, CtrlTypes, Quiet, StoreOutlastsArray, FeedsAligned
<1>3. FirstLoad' /\ WeightReadsInOrder'
  BY <1>1 DEF CtrlInv, FirstLoad, WeightReadsInOrder, weight_data_rcpt_done, At
<1>4. StoreInOrder'
  BY <1>1 DEF CtrlInv, StoreInOrder, At
<1> QED BY <1>2, <1>3, <1>4 DEF CtrlInv

\* Control stays consistent for every array size and every bus.
THEOREM CoreCtrlInv == CoreSpec => []CtrlInv
<1>1. CoreInit => CtrlInv
  BY CtrlInit
<1>2. CtrlInv /\ [CoreNext]_coreVars => CtrlInv'
  BY CtrlStep, CtrlStutter DEF CoreNext
<1> QED BY <1>1, <1>2, PTL DEF CoreSpec

\* The array has run out (compute_cnt is 0) whenever the next job may feed it.
THEOREM CoreFeedsAligned == CoreSpec => []FeedsAligned
<1>1. CtrlInv => FeedsAligned
  BY DEF CtrlInv
<1> QED BY <1>1, CoreCtrlInv, PTL

\* Weight reads leave in address order, none skipped and none repeated.
THEOREM CoreWeightReadsInOrder == CoreSpec => []WeightReadsInOrder
<1>1. CtrlInv => WeightReadsInOrder
  BY DEF CtrlInv
<1> QED BY <1>1, CoreCtrlInv, PTL

\* Stores leave in order: command, address, multiplexer and counter agree.
THEOREM CoreStoreInOrder == CoreSpec => []StoreInOrder
<1>1. CtrlInv => StoreInOrder
  BY DEF CtrlInv
<1> QED BY <1>1, CoreCtrlInv, PTL

-----------------------------------------------------------------------------
\* Every register keeps its width and the buffers hold words.
LEMMA TypeStep ==
  ASSUME CtrlInv, CtrlTypes', CoreTypeOk,
         NEW enable \in BOOLEAN, NEW ready \in BOOLEAN, NEW rsp,
         current_state \in {"LOAD_WEIGHT", "LOAD_IMAGE"} => rsp \in Word \cup {NoWord},
         CoreClock(enable, ready, rsp)
  PROVE  CoreTypeOk'
<1> USE Sizes
<1>1. /\ Sequencer(enable) /\ Command(ready) /\ LoadWeight(ready, rsp)
      /\ LoadImage(ready, rsp) /\ Store(ready, rsp)
  BY DEF CoreClock
<1>2. mode' \in {"DISABLE", "SINGLE", "CLEAR"} /\ done' \in BOOLEAN
  BY <1>1 DEF Sequencer, NextMode
<1>3. cnn_icb_cmd_read' \in BOOLEAN
  BY <1>1 DEF Command, weight_addr_send_start, image_addr_send_start
<1>4. weight_addr_next' \in Nat
  <2>1. weight_addr_next \in Nat
    BY DEF CoreTypeOk
  <2>2. weight_addr_next' \in {0, weight_addr_next + 4, weight_addr_next}
    BY <1>1 DEF LoadWeight
  <2>3. QED BY <2>1, <2>2
<1>5. cur_weight' \in [0..LastWord -> Word]
  BY <1>1 DEF LoadWeight, CoreTypeOk
<1>6. image_addr_send_done' \in BOOLEAN
  BY <1>1 DEF LoadImage
<1>7. image_data' \in [0..LastWord -> Word]
  BY <1>1 DEF LoadImage, CoreTypeOk
<1>8. store_data_send_next_cnt' \in 0..LastWord
  <2>1. store_data_send_next_cnt \in 0..LastWord
    BY DEF CoreTypeOk
  <2>2. store_data_send_next_cnt' \in
          {(store_data_send_next_cnt + 1) % Words, store_data_send_next_cnt, 0}
    BY <1>1 DEF Store, WithStores
  <2>3. (store_data_send_next_cnt + 1) % Words \in 0..LastWord
    <3>1. CASE store_data_send_next_cnt = LastWord
      BY <3>1, SelfMod
    <3>2. CASE store_data_send_next_cnt # LastWord
      <4>1. store_data_send_next_cnt + 1 \in Nat /\ store_data_send_next_cnt + 1 < Words
        BY <2>1, <3>2
      <4> QED BY <4>1, SmallMod
    <3> QED BY <3>1, <3>2
  <2> QED BY <2>1, <2>2, <2>3
<1> QED BY <1>2, <1>3, <1>4, <1>5, <1>6, <1>7, <1>8 DEF CoreTypeOk, CtrlTypes

LEMMA TypeInit == CoreInit => CoreTypeOk
<1> SUFFICES ASSUME CoreInit PROVE CoreTypeOk
  OBVIOUS
<1>1. CtrlTypes
  BY CtrlInit DEF CtrlInv
<1>2. mode = "DISABLE" /\ done = FALSE /\ cnn_icb_cmd_read = FALSE
      /\ weight_addr_next = 0 /\ image_addr_send_done = FALSE
      /\ store_data_send_next_cnt = 0
  BY DEF CoreInit
<1>3. cur_weight \in [0..LastWord -> Word] /\ image_data \in [0..LastWord -> Word]
  BY CoreAssumption DEF CoreInit
<1>4. 0 \in Nat /\ 0 \in 0..LastWord
  BY Sizes
<1> QED BY <1>1, <1>2, <1>3, <1>4, Zenon DEF CoreTypeOk, CtrlTypes

LEMMA TypeStutter ==
  ASSUME CoreTypeOk, UNCHANGED coreVars
  PROVE  CoreTypeOk'
BY DEF coreVars, seqVars, busVars, weightVars, imageVars, feedVars, storeVars, CoreTypeOk

\* The registers never leave their widths, the buffers hold only what the
\* memories returned.
THEOREM CoreTypeCorrect == CoreSpec => []CoreTypeOk
<1>1. CoreInit => CoreTypeOk
  BY TypeInit
<1>2. CoreTypeOk /\ CtrlInv /\ CtrlInv' /\ [CoreNext]_coreVars => CoreTypeOk'
  BY TypeStep, TypeStutter DEF CoreNext, CtrlInv
<1> QED BY <1>1, <1>2, CoreCtrlInv, PTL DEF CoreSpec

-----------------------------------------------------------------------------
(* What the array computes from its buffers.                                *)

\* Lane k is fed word j of its row: 0 before the first and after the last.
Fed(buffer, k, j) == IF j \in 0..(Side - 1) THEN buffer[Side * k + j] ELSE Zero

\* A result after x of its products.
Places(x)  == IF x < 0 THEN 0 ELSE IF x > Side THEN Side ELSE x
Partial(r, c, x) ==
  [j \in 1..Places(x) |-> <<cur_weight[Side * c + j - 1], image_data[Side * r + j - 1]>>]

\* A product with the word 0 adds nothing to a sum.
Loaded == \A k \in 0..LastWord : cur_weight[k] # Zero /\ image_data[k] # Zero

\* The array computes, into STORE.
Flowing == \/ current_state = "COMPUTE"
           \/ current_state = "STORE" /\ compute_cnt # 0

\* Where the words are: lane k got word compute_cnt - 1 - k last, PE (r, c)
\* handed on word compute_cnt - 2 - r - c of its row and of its column.
Feeding == /\ mode = "SINGLE"
           /\ \A k \in Lane : /\ in_weight[k] = Fed(cur_weight, k, compute_cnt - 1 - k)
                              /\ in_data[k] = Fed(image_data, k, compute_cnt - 1 - k)
           /\ \A r, c \in Lane :
                /\ data_out[r][c] = Fed(image_data, r, compute_cnt - 2 - r - c)
                /\ weight_out[r][c] = Fed(cur_weight, c, compute_cnt - 2 - r - c)

Summed  == \A r, c \in Lane : result[r][c] = Partial(r, c, compute_cnt - 1 - r - c)
Full    == \A r, c \in Lane : result[r][c] = Partial(r, c, Side)

ArrayInv ==
  /\ Flowing => Feeding /\ (Loaded => Summed)
  /\ current_state = "STORE" /\ compute_cnt = 0 => mode = "DISABLE" /\ (Loaded => Full)
  /\ current_state \in {"IDLE", "LOAD_WEIGHT", "LOAD_IMAGE"} =>
       mode # "SINGLE" /\ result = Array(<<>>)
  /\ current_state = "DONE" => mode = "CLEAR" \/ (mode = "DISABLE" /\ result = Array(<<>>))

\* The multiplexer trails the array: the result it selects is finished.
Trails == current_state = "STORE" =>
            compute_cnt = 0 \/ compute_cnt >= Side + 1 + store_data_send_next_cnt

\* A write carries the finished product of its place, row by row.
Finished(k) == Product(image_data, cur_weight)[k \div Side][k % Side]
StoresProduct ==
  current_state = "STORE" /\ cnn_icb_cmd_valid /\ Loaded =>
    cnn_icb_cmd_wdata = Finished(store_data_send_cnt)

ProductInv == ArrayInv /\ Trails /\ StoresProduct

LEMMA InBuffer ==
  ASSUME NEW k \in Lane, NEW j \in 0..(Side - 1)
  PROVE  Side * k + j \in 0..LastWord
<1>1. /\ Side \in Nat /\ Side > 1 /\ k \in Nat /\ k <= Side - 1
      /\ LastWord = Side * Side - 1
  BY Sizes DEF Lane, Words
<1>2. PICK p \in Nat : Side - 1 = k + p
  <2>1. Side - 1 - k \in Nat /\ Side - 1 = k + (Side - 1 - k)
    BY <1>1
  <2> QED BY <2>1
<1>3. Side * (Side - 1) = Side * k + Side * p /\ Side * p \in Nat /\ Side * k \in Nat
  BY <1>1, <1>2, SMT
<1>4. Side * (Side - 1) = Side * Side - Side
  BY <1>1, SMT
<1> QED BY <1>1, <1>3, <1>4

\* A place of the row-by-row count is a place of the array.
LEMMA InArray ==
  ASSUME NEW k \in 0..LastWord
  PROVE  /\ k \div Side \in Lane /\ k % Side \in Lane
         /\ k >= (k \div Side) + (k % Side)
<1>1. Side \in Nat /\ Side > 1 /\ k \in Nat /\ k < Side * Side
  BY Sizes DEF Words
<1>2. k % Side \in 0..(Side - 1)
  BY <1>1
<1>3. k = Side * (k \div Side) + (k % Side) /\ k \div Side \in Nat
  BY <1>1, SMT
<1>4. k \div Side < Side
  <2> SUFFICES ASSUME k \div Side >= Side PROVE FALSE
    BY <1>1, <1>3
  <2>1. PICK q \in Nat : q = k \div Side
    BY <1>3
  <2>2. PICK p \in Nat : q = Side + p
    <3>1. q - Side \in Nat /\ q = Side + (q - Side)
      BY <1>1, <2>1
    <3> QED BY <3>1
  <2>3. Side * q = Side * Side + Side * p /\ Side * p \in Nat
    BY <1>1, <2>2, SMT
  <2> QED BY <1>1, <1>2, <1>3, <2>1, <2>3
<1>5. Side * (k \div Side) >= k \div Side
  <2>1. PICK q \in Nat, s \in Nat : q = k \div Side /\ Side = s + 1
    <3>1. Side - 1 \in Nat /\ Side = (Side - 1) + 1
      BY <1>1
    <3> QED BY <1>3, <3>1
  <2>2. (s + 1) * q = s * q + q /\ s * q \in Nat
    BY <2>1, SMT
  <2> QED BY <2>1, <2>2
<1> QED BY <1>1, <1>2, <1>3, <1>4, <1>5 DEF Lane

\* One more product, or none.
LEMMA OneMore ==
  ASSUME NEW r \in Lane, NEW c \in Lane, NEW x \in Int, Loaded, NEW sum, sum = Partial(r, c, x)
  PROVE  Accumulate(sum, Fed(cur_weight, c, x), Fed(image_data, r, x)) = Partial(r, c, x + 1)
<1> USE Sizes
<1>1. CASE x \in 0..(Side - 1)
  <2>1. Side * c + x \in 0..LastWord /\ Side * r + x \in 0..LastWord
    BY <1>1, InBuffer
  <2>2. PICK w, v : /\ w = cur_weight[Side * c + x] /\ v = image_data[Side * r + x]
    OBVIOUS
  <2>3. w # Zero /\ v # Zero /\ Fed(cur_weight, c, x) = w /\ Fed(image_data, r, x) = v
    BY <1>1, <2>1, <2>2 DEF Loaded, Fed
  <2>4. Places(x) = x /\ Places(x + 1) = x + 1 /\ x \in Nat
    BY <1>1 DEF Places
  <2> DEFINE pair(j) == <<cur_weight[Side * c + j - 1], image_data[Side * r + j - 1]>>
  <2>5. sum = [j \in 1..x |-> pair(j)] /\ Partial(r, c, x + 1) = [j \in 1..(x + 1) |-> pair(j)]
    BY <2>4 DEF Partial
  <2>6. pair(x + 1) = <<w, v>>
    <3>1. Side * c \in Int /\ Side * r \in Int
      <4>1. c \in Int /\ r \in Int /\ Side \in Int
        BY DEF Lane
      <4> QED BY <4>1, SMT
    <3>2. Side * c + (x + 1) - 1 = Side * c + x /\ Side * r + (x + 1) - 1 = Side * r + x
      BY <1>1, <3>1
    <3> QED BY <2>2, <3>2
  <2> HIDE DEF pair
  <2>7. Append(sum, pair(x + 1)) = [j \in 1..(x + 1) |-> pair(j)]
    BY <2>4, <2>5
  <2> QED BY <2>3, <2>5, <2>6, <2>7 DEF Accumulate
<1>2. CASE x \notin 0..(Side - 1)
  <2>1. Places(x + 1) = Places(x)
    BY <1>2 DEF Places
  <2>2. Fed(cur_weight, c, x) = Zero
    BY <1>2 DEF Fed
  <2>3. Partial(r, c, x + 1) = sum
    BY <2>1 DEF Partial
  <2> QED BY <2>2, <2>3 DEF Accumulate
<1> QED BY <1>1, <1>2


LEMMA FeedIsFed ==
  ASSUME mode = "SINGLE", compute_cnt \in Nat, NEW buffer, NEW k \in Lane
  PROVE  Feed(buffer, k) = Fed(buffer, k, compute_cnt - k)
<1>1. Side \in Nat /\ k \in Nat
  BY Sizes DEF Lane
<1>2. compute_cnt \in k..(k + Side - 1) <=> compute_cnt - k \in 0..(Side - 1)
  BY <1>1
<1> QED BY <1>2 DEF Feed, Fed

\* While it computes, each PE takes what its neighbours handed on and adds
\* the next product of its place.
LEMMA FlowStep ==
  ASSUME Feeding, compute_cnt \in Nat, Compute
  PROVE  /\ \A k \in Lane : /\ in_weight'[k] = Fed(cur_weight, k, compute_cnt - k)
                            /\ in_data'[k] = Fed(image_data, k, compute_cnt - k)
         /\ \A r, c \in Lane :
              /\ data_out'[r][c] = Fed(image_data, r, compute_cnt - 1 - r - c)
              /\ weight_out'[r][c] = Fed(cur_weight, c, compute_cnt - 1 - r - c)
         /\ Loaded /\ Summed =>
              \A r, c \in Lane : result'[r][c] = Partial(r, c, compute_cnt - r - c)
<1>1. mode = "SINGLE" /\ Single(in_weight, in_data)
  BY DEF Feeding, Compute, PeClock
<1>2. ASSUME NEW k \in Lane
      PROVE  /\ in_weight'[k] = Fed(cur_weight, k, compute_cnt - k)
             /\ in_data'[k] = Fed(image_data, k, compute_cnt - k)
  BY <1>1, FeedIsFed DEF Compute
<1>3. ASSUME NEW r \in Lane, NEW c \in Lane
      PROVE  /\ DataIn(in_data, r, c) = Fed(image_data, r, compute_cnt - 1 - r - c)
             /\ WeightIn(in_weight, r, c) = Fed(cur_weight, c, compute_cnt - 1 - r - c)
  <2>1. /\ r \in Nat /\ c \in Nat /\ (c # 0 => c - 1 \in Lane) /\ (r # 0 => r - 1 \in Lane)
    BY Sizes DEF Lane
  <2>2. DataIn(in_data, r, c) = Fed(image_data, r, compute_cnt - 1 - r - c)
    <3>1. CASE c = 0
      <4>1. in_data[r] = Fed(image_data, r, compute_cnt - 1 - r)
        BY DEF Feeding
      <4>2. compute_cnt - 1 - r = compute_cnt - 1 - r - c
        BY <2>1, <3>1
      <4> QED BY <3>1, <4>1, <4>2 DEF DataIn
    <3>2. CASE c # 0
      <4>1. data_out[r][c - 1] = Fed(image_data, r, compute_cnt - 2 - r - (c - 1))
        BY <2>1, <3>2 DEF Feeding
      <4>2. compute_cnt - 2 - r - (c - 1) = compute_cnt - 1 - r - c
        BY <2>1
      <4> QED BY <3>2, <4>1, <4>2 DEF DataIn
    <3> QED BY <3>1, <3>2
  <2>3. WeightIn(in_weight, r, c) = Fed(cur_weight, c, compute_cnt - 1 - r - c)
    <3>1. CASE r = 0
      <4>1. in_weight[c] = Fed(cur_weight, c, compute_cnt - 1 - c)
        BY DEF Feeding
      <4>2. compute_cnt - 1 - c = compute_cnt - 1 - r - c
        BY <2>1, <3>1
      <4> QED BY <3>1, <4>1, <4>2 DEF WeightIn
    <3>2. CASE r # 0
      <4>1. weight_out[r - 1][c] = Fed(cur_weight, c, compute_cnt - 2 - (r - 1) - c)
        BY <2>1, <3>2 DEF Feeding
      <4>2. compute_cnt - 2 - (r - 1) - c = compute_cnt - 1 - r - c
        BY <2>1
      <4> QED BY <3>2, <4>1, <4>2 DEF WeightIn
    <3> QED BY <3>1, <3>2
  <2> QED BY <2>2, <2>3
<1>4. ASSUME NEW r \in Lane, NEW c \in Lane
      PROVE  /\ data_out'[r][c] = Fed(image_data, r, compute_cnt - 1 - r - c)
             /\ weight_out'[r][c] = Fed(cur_weight, c, compute_cnt - 1 - r - c)
  BY <1>1, <1>3 DEF Single
<1>5. ASSUME NEW r \in Lane, NEW c \in Lane, Loaded, Summed
      PROVE  result'[r][c] = Partial(r, c, compute_cnt - r - c)
  <2>1. PICK x \in Int : x = compute_cnt - 1 - r - c
    BY DEF Lane
  <2>2. x + 1 = compute_cnt - r - c
    BY <2>1 DEF Lane
  <2>3. result[r][c] = Partial(r, c, x)
    BY <1>5, <2>1 DEF Summed
  <2>4. result'[r][c] = Accumulate(result[r][c], WeightIn(in_weight, r, c), DataIn(in_data, r, c))
    BY <1>1 DEF Single
  <2>5. Accumulate(result[r][c], Fed(cur_weight, c, x), Fed(image_data, r, x)) = Partial(r, c, x + 1)
    BY <1>5, <2>3, OneMore
  <2> QED BY <1>3, <2>1, <2>2, <2>4, <2>5
<1> QED BY <1>2, <1>4, <1>5

\* In any other mode nothing flows and nothing is added.
LEMMA RestStep ==
  ASSUME Compute, mode \in {"DISABLE", "CLEAR"}
  PROVE  /\ \A k \in Lane : in_weight'[k] = Zero /\ in_data'[k] = Zero
         /\ \A r, c \in Lane : data_out'[r][c] = Zero /\ weight_out'[r][c] = Zero
         /\ result' = IF mode = "CLEAR" THEN Array(<<>>) ELSE result
BY DEF Compute, Feed, PeClock, Disable, Clear, Array

\* Before its first word a place has got nothing.
LEMMA NothingYet ==
  ASSUME NEW buffer, NEW r \in Lane, NEW c \in Lane
  PROVE  /\ Fed(buffer, r, 0 - 1 - c) = Zero /\ Fed(buffer, r, 0 - 2 - r - c) = Zero
         /\ Fed(buffer, c, 0 - 2 - r - c) = Zero
         /\ Partial(r, c, 0 - 1 - r - c) = <<>>
<1>1. r \in Nat /\ c \in Nat
  BY Sizes DEF Lane
<1>2. 0 - 1 - c < 0 /\ 0 - 2 - r - c < 0 /\ 0 - 1 - r - c < 0
  BY <1>1
<1>3. Places(0 - 1 - r - c) = 0
  BY <1>2 DEF Places
<1> QED BY <1>2, <1>3 DEF Fed, Partial

LEMMA ArrayClock ==
  ASSUME CtrlInv, ArrayInv, NEW enable \in BOOLEAN, NEW ready \in BOOLEAN, NEW rsp,
         mode \in {"DISABLE", "SINGLE", "CLEAR"}, CoreClock(enable, ready, rsp)
  PROVE  ArrayInv'
<1> USE Sizes
<1>1. /\ CtrlTypes /\ StoreOutlastsArray /\ FeedsAligned
      /\ Sequencer(enable) /\ Compute /\ LoadWeight(ready, rsp) /\ LoadImage(ready, rsp)
  BY DEF CtrlInv, CoreClock
<1>2. /\ current_state \in States /\ compute_cnt \in 0..LastFeed /\ compute_cnt \in Nat
      /\ store_rsp_rcpt_cnt \in 0..(Words + 1)
  BY <1>1 DEF CtrlTypes
<1>3. current_state' = NextState(enable) /\ mode' = NextMode
  BY <1>1 DEF Sequencer
<1>4. /\ compute_cnt = LastFeed => compute_cnt' = 0
      /\ compute_cnt # LastFeed /\ Counting => compute_cnt' = compute_cnt + 1
      /\ compute_cnt # LastFeed /\ ~Counting => compute_cnt' = compute_cnt
  BY <1>1 DEF Compute
<1>5. CASE current_state \in {"IDLE", "LOAD_WEIGHT"} \/ (current_state = "LOAD_IMAGE" /\ ~image_data_rcpt_done)
  <2>1. mode \in {"DISABLE", "CLEAR"} /\ result = Array(<<>>)
    BY <1>5 DEF ArrayInv
  <2>2. result' = Array(<<>>)
    BY <1>1, <2>1, RestStep
  <2>3. mode' # "SINGLE"
    BY <1>3, <1>5 DEF NextMode, ArrayRuns
  <2>4. current_state' \in {"IDLE", "LOAD_WEIGHT", "LOAD_IMAGE"}
    BY <1>3, <1>5 DEF NextState
  <2> QED BY <2>2, <2>3, <2>4 DEF ArrayInv, Flowing, Array
<1>6. CASE current_state = "LOAD_IMAGE" /\ image_data_rcpt_done
  <2>1. mode \in {"DISABLE", "CLEAR"} /\ result = Array(<<>>)
    BY <1>6 DEF ArrayInv
  <2>2. /\ result' = Array(<<>>)
        /\ \A k \in Lane : in_weight'[k] = Zero /\ in_data'[k] = Zero
        /\ \A r, c \in Lane : data_out'[r][c] = Zero /\ weight_out'[r][c] = Zero
    BY <1>1, <2>1, RestStep
  <2>3. mode' = "SINGLE" /\ current_state' = "COMPUTE"
    BY <1>3, <1>6 DEF NextMode, ArrayRuns, NextState
  <2>4. compute_cnt' = 0
    BY <1>1, <1>4, <1>6 DEF FeedsAligned, Counting
  <2>5. Feeding'
    <3>1. ASSUME NEW k \in Lane
          PROVE  /\ in_weight'[k] = Fed(cur_weight', k, compute_cnt' - 1 - k)
                 /\ in_data'[k] = Fed(image_data', k, compute_cnt' - 1 - k)
      BY <2>2, <2>4, NothingYet
    <3>2. ASSUME NEW r \in Lane, NEW c \in Lane
          PROVE  /\ data_out'[r][c] = Fed(image_data', r, compute_cnt' - 2 - r - c)
                 /\ weight_out'[r][c] = Fed(cur_weight', c, compute_cnt' - 2 - r - c)
      BY <2>2, <2>4, NothingYet
    <3> QED BY <2>3, <3>1, <3>2 DEF Feeding, Fed
  <2>6. Summed'
    <3>1. ASSUME NEW r \in Lane, NEW c \in Lane
          PROVE  result'[r][c] = Partial(r, c, compute_cnt - 1 - r - c)'
      <4>1. result'[r][c] = <<>>
        BY <2>2 DEF Array
      <4>2. Places(compute_cnt' - 1 - r - c) = 0
        BY <2>4 DEF Places, Lane
      <4> QED BY <4>1, <4>2 DEF Partial, Places
    <3> QED BY <3>1 DEF Summed
  <2> QED BY <2>3, <2>5, <2>6 DEF ArrayInv, Flowing
<1>7. CASE Flowing
  <2>1. Feeding /\ (Loaded => Summed)
    BY <1>7 DEF ArrayInv
  <2>2. /\ \A k \in Lane : /\ in_weight'[k] = Fed(cur_weight, k, compute_cnt - k)
                           /\ in_data'[k] = Fed(image_data, k, compute_cnt - k)
        /\ \A r, c \in Lane :
             /\ data_out'[r][c] = Fed(image_data, r, compute_cnt - 1 - r - c)
             /\ weight_out'[r][c] = Fed(cur_weight, c, compute_cnt - 1 - r - c)
        /\ Loaded =>
             \A r, c \in Lane : result'[r][c] = Partial(r, c, compute_cnt - r - c)
    BY <1>1, <1>2, <2>1, FlowStep
  <2>3. current_state \in {"COMPUTE", "STORE"}
    BY <1>7 DEF Flowing
  <2>4. cur_weight' = cur_weight /\ image_data' = image_data
    BY <1>1, <2>3 DEF LoadWeight, LoadImage
  <2>5. Loaded' <=> Loaded
    BY <2>4 DEF Loaded
  <2>6. current_state = "STORE" => compute_cnt >= Side + 1 + store_rsp_rcpt_cnt
    BY <1>1, <1>7 DEF Flowing, StoreOutlastsArray
  <2>7. current_state = "STORE" => ~store_done /\ current_state' = "STORE"
    BY <1>2, <1>3, <2>6 DEF store_done, NextState
  <2>8. current_state = "COMPUTE" => compute_cnt \in 0..Side /\ current_state' \in {"COMPUTE", "STORE"}
    BY <1>1, <1>3 DEF FeedsAligned, NextState
  <2>9. CASE compute_cnt # LastFeed
    <3>1. compute_cnt' = compute_cnt + 1
      BY <1>4, <1>7, <2>9 DEF Flowing, Counting
    <3>2. mode' = "SINGLE"
      BY <1>2, <1>3, <2>3, <2>6, <2>9 DEF NextMode, ArrayRuns
    <3>3. current_state' \in {"COMPUTE", "STORE"}
      BY <2>3, <2>7, <2>8
    <3>4. Feeding'
      <4>1. ASSUME NEW k \in Lane
            PROVE  /\ in_weight'[k] = Fed(cur_weight', k, compute_cnt' - 1 - k)
                   /\ in_data'[k] = Fed(image_data', k, compute_cnt' - 1 - k)
        <5>1. compute_cnt' - 1 - k = compute_cnt - k
          BY <1>2, <3>1 DEF Lane
        <5> QED BY <2>2, <2>4, <5>1
      <4>2. ASSUME NEW r \in Lane, NEW c \in Lane
            PROVE  /\ data_out'[r][c] = Fed(image_data', r, compute_cnt' - 2 - r - c)
                   /\ weight_out'[r][c] = Fed(cur_weight', c, compute_cnt' - 2 - r - c)
        <5>1. compute_cnt' - 2 - r - c = compute_cnt - 1 - r - c
          BY <1>2, <3>1 DEF Lane
        <5> QED BY <2>2, <2>4, <5>1
      <4> QED BY <3>2, <4>1, <4>2 DEF Feeding, Fed
    <3>5. Loaded => Summed'
      <4> SUFFICES ASSUME Loaded, NEW r \in Lane, NEW c \in Lane
                   PROVE  result'[r][c] = Partial(r, c, compute_cnt - 1 - r - c)'
        BY DEF Summed
      <4>1. compute_cnt' - 1 - r - c = compute_cnt - r - c
        BY <1>2, <3>1 DEF Lane
      <4> QED BY <2>2, <2>4, <4>1 DEF Partial, Places
    <3>6. compute_cnt' # 0
      BY <1>2, <3>1
    <3> QED BY <2>5, <3>3, <3>4, <3>5, <3>6 DEF ArrayInv
  <2>10. CASE compute_cnt = LastFeed
    <3>1. current_state = "STORE"
      BY <2>3, <2>8, <2>10
    <3>2. compute_cnt' = 0 /\ current_state' = "STORE"
      BY <1>4, <2>7, <2>10, <3>1
    <3>3. mode' = "DISABLE"
      <4>1. ~ArrayRuns /\ ~store_done
        BY <2>7, <2>10, <3>1 DEF ArrayRuns
      <4> QED BY <1>3, <4>1 DEF NextMode
    <3>4. Loaded => Full'
      <4> SUFFICES ASSUME Loaded, NEW r \in Lane, NEW c \in Lane
                   PROVE  result'[r][c] = Partial(r, c, Side)'
        BY DEF Full
      <4>1. result'[r][c] = Partial(r, c, compute_cnt - r - c)
        BY <2>2
      <4>2. compute_cnt - r - c \in Int /\ compute_cnt - r - c >= Side
        BY <1>2, <2>10 DEF LastFeed, Lane
      <4>3. Places(compute_cnt - r - c) = Side /\ Places(Side) = Side
        BY <4>2 DEF Places
      <4> QED BY <2>4, <4>1, <4>3 DEF Partial, Places
    <3> QED BY <2>5, <3>2, <3>3, <3>4 DEF ArrayInv, Flowing
  <2> QED BY <2>9, <2>10
<1>8. CASE current_state = "STORE" /\ compute_cnt = 0
  <2>1. mode = "DISABLE" /\ (Loaded => Full)
    BY <1>8 DEF ArrayInv
  <2>2. result' = result
    BY <1>1, <2>1, RestStep
  <2>3. compute_cnt' = 0
    BY <1>4, <1>8 DEF Counting
  <2>4. cur_weight' = cur_weight /\ image_data' = image_data
    BY <1>1, <1>8 DEF LoadWeight, LoadImage
  <2>5. ~ArrayRuns
    BY <1>8 DEF ArrayRuns
  <2>6. CASE store_done
    <3>1. current_state' = "DONE" /\ mode' = "CLEAR"
      BY <1>3, <1>8, <2>5, <2>6 DEF NextState, NextMode
    <3> QED BY <3>1 DEF ArrayInv, Flowing
  <2>7. CASE ~store_done
    <3>1. current_state' = "STORE" /\ mode' = "DISABLE"
      BY <1>3, <1>8, <2>5, <2>7 DEF NextState, NextMode
    <3>2. Loaded' => Full'
      <4> SUFFICES ASSUME Loaded', NEW r \in Lane, NEW c \in Lane
                   PROVE  result'[r][c] = Partial(r, c, Side)'
        BY DEF Full
      <4>1. Loaded
        BY <2>4 DEF Loaded
      <4>2. result[r][c] = Partial(r, c, Side)
        BY <2>1, <4>1 DEF Full
      <4> QED BY <2>2, <2>4, <4>2 DEF Partial, Places
    <3> QED BY <2>3, <3>1, <3>2 DEF ArrayInv, Flowing
  <2> QED BY <2>6, <2>7
<1>9. CASE current_state = "DONE"
  <2>1. mode = "CLEAR" \/ (mode = "DISABLE" /\ result = Array(<<>>))
    BY <1>9 DEF ArrayInv
  <2>2. result' = Array(<<>>)
    BY <1>1, <2>1, RestStep
  <2>3. mode' \in {"CLEAR", "DISABLE"}
    BY <1>3, <1>9 DEF NextMode, ArrayRuns
  <2>4. current_state' \in {"DONE", "IDLE"}
    BY <1>3, <1>9 DEF NextState
  <2> QED BY <2>2, <2>3, <2>4 DEF ArrayInv, Flowing, Array
<1> QED BY <1>2, <1>5, <1>6, <1>7, <1>8, <1>9 DEF States, Flowing


\* What the multiplexer selects is finished, whenever STORE offers a write.
LEMMA Selected ==
  ASSUME CtrlInv, CoreTypeOk, ArrayInv, Trails, Loaded, current_state = "STORE"
  PROVE  store_data_send_next = Finished(store_data_send_next_cnt)
<1> USE Sizes
<1>1. store_data_send_next_cnt \in 0..LastWord /\ compute_cnt \in 0..LastFeed
  BY DEF CoreTypeOk
<1>2. PICK r \in Lane, c \in Lane : /\ r = store_data_send_next_cnt \div Side
                                    /\ c = store_data_send_next_cnt % Side
                                    /\ store_data_send_next_cnt >= r + c
  BY <1>1, InArray
<1>3. result[r][c] = Partial(r, c, Side)
  <2>1. CASE compute_cnt = 0
    BY <2>1 DEF ArrayInv, Full
  <2>2. CASE compute_cnt # 0
    <3>1. result[r][c] = Partial(r, c, compute_cnt - 1 - r - c)
      BY <2>2 DEF ArrayInv, Flowing, Summed
    <3>2. compute_cnt - 1 - r - c >= Side
      BY <1>1, <1>2, <2>2 DEF Trails, Lane
    <3>3. Places(compute_cnt - 1 - r - c) = Places(Side)
      BY <1>1, <1>2, <3>2 DEF Places, Lane
    <3> QED BY <3>1, <3>3 DEF Partial
  <2> QED BY <2>1, <2>2
<1>4. Partial(r, c, Side) = Product(image_data, cur_weight)[r][c]
  <2>1. Places(Side) = Side
    BY DEF Places
  <2> QED BY <2>1 DEF Partial, Product
<1> QED BY <1>2, <1>3, <1>4 DEF store_data_send_next, Finished

LEMMA ProductInit == CoreInit => ProductInv
BY DEF CoreInit, PeInit, ProductInv, ArrayInv, Trails, StoresProduct, Flowing, Array

LEMMA ProductStep ==
  ASSUME CtrlInv, CtrlInv', CoreTypeOk, CoreTypeOk', ProductInv,
         NEW enable \in BOOLEAN, NEW ready \in BOOLEAN, NEW rsp, CoreClock(enable, ready, rsp)
  PROVE  ProductInv'
<1> USE Sizes
<1>1. /\ CtrlTypes /\ StoreInOrder /\ Quiet /\ StoreOutlastsArray /\ FeedsAligned
      /\ ArrayInv /\ Trails /\ StoresProduct
  BY DEF CtrlInv, ProductInv
<1>2. /\ Sequencer(enable) /\ Command(ready) /\ Compute /\ LoadWeight(ready, rsp)
      /\ LoadImage(ready, rsp) /\ Store(ready, rsp)
  BY DEF CoreClock
<1>3. /\ current_state' = NextState(enable) /\ cnn_icb_cmd_valid' = SendStart(ready)
      /\ current_state \in States /\ compute_cnt \in 0..LastFeed
      /\ cnn_icb_cmd_valid \in BOOLEAN /\ store_data_send_cnt \in 0..Words
      /\ store_data_send_next_cnt \in 0..LastWord /\ store_data_send_next_cnt' \in 0..LastWord
  BY <1>1, <1>2 DEF Sequencer, Command, CtrlTypes, CoreTypeOk
<1>4. ArrayInv'
  BY <1>1, ArrayClock DEF CoreTypeOk
<1>5. /\ compute_cnt = LastFeed => compute_cnt' = 0
      /\ compute_cnt # LastFeed /\ Counting => compute_cnt' = compute_cnt + 1
      /\ compute_cnt # LastFeed /\ ~Counting => compute_cnt' = compute_cnt
  BY <1>2 DEF Compute
<1>6. current_state' = "STORE" => current_state \in {"COMPUTE", "STORE"}
  BY <1>3 DEF NextState, States
<1>7. Trails'
  <2> SUFFICES ASSUME current_state' = "STORE"
               PROVE  compute_cnt' = 0 \/ compute_cnt' >= Side + 1 + store_data_send_next_cnt'
    BY DEF Trails
  <2>1. CASE current_state = "COMPUTE"
    <3>1. compute_cnt' = Side + 1
      BY <1>1, <1>3, <1>5, <2>1 DEF NextState, FeedsAligned, Counting
    <3>2. store_data_send_next_cnt' = 0
      BY <1>2, <2>1 DEF Store, WithStores, store_data_send_start
    <3> QED BY <3>1, <3>2
  <2>2. CASE current_state = "STORE"
    <3>1. store_data_send_next_cnt' <= store_data_send_next_cnt + 1
      <4>1. store_data_send_next_cnt' \in
              {(store_data_send_next_cnt + 1) % Words, store_data_send_next_cnt, 0}
        BY <1>2 DEF Store, WithStores
      <4>2. (store_data_send_next_cnt + 1) % Words <= store_data_send_next_cnt + 1
        <5>1. CASE store_data_send_next_cnt = LastWord
          BY <5>1, SelfMod
        <5>2. CASE store_data_send_next_cnt # LastWord
          <6>1. store_data_send_next_cnt + 1 \in Nat /\ store_data_send_next_cnt + 1 < Words
            BY <1>3, <5>2
          <6>2. (store_data_send_next_cnt + 1) % Words = store_data_send_next_cnt + 1
            BY <6>1, SmallMod
          <6> QED BY <1>3, <6>2
        <5> QED BY <5>1, <5>2
      <4> QED BY <1>3, <4>1, <4>2
    <3>2. compute_cnt' = 0 \/ (compute_cnt' = compute_cnt + 1 /\ compute_cnt # 0)
      BY <1>3, <1>5, <2>2 DEF Counting
    <3> QED BY <1>1, <1>3, <2>2, <3>1, <3>2 DEF Trails
  <2> QED BY <1>6, <2>1, <2>2
<1>8. StoresProduct'
  <2> SUFFICES ASSUME current_state' = "STORE", cnn_icb_cmd_valid', Loaded'
               PROVE  cnn_icb_cmd_wdata' = Finished(store_data_send_cnt)'
    BY DEF StoresProduct
  <2>1. current_state = "STORE" /\ store_data_send_start(ready)
    BY <1>3, <1>6 DEF SendStart, weight_addr_send_start, image_addr_send_start,
                      store_data_send_start
  <2>2. cur_weight' = cur_weight /\ image_data' = image_data
    BY <1>2, <2>1 DEF LoadWeight, LoadImage
  <2>3. Loaded
    BY <2>2 DEF Loaded
  <2>4. PICK m : m = store_data_send_cnt'
    OBVIOUS
  <2>5. Finished(store_data_send_cnt)' = Finished(m)
    BY <2>2, <2>4 DEF Finished, Product
  <2>6. cnn_icb_cmd_wdata' = IF SendUpdate(ready) THEN store_data_send_next ELSE cnn_icb_cmd_wdata
    BY <1>2, <2>1 DEF Command
  <2>7. ~store_data_send_done(ready)
    BY <2>1 DEF store_data_send_start
  <2>8. \/ /\ ~cnn_icb_cmd_valid /\ store_data_send_cnt = 0 /\ store_data_send_next_cnt = 0
        \/ /\ cnn_icb_cmd_valid /\ ~cnn_icb_cmd_read /\ store_data_send_cnt < Words
           /\ store_data_send_next_cnt = (IF store_data_send_cnt = LastWord THEN 0
                                          ELSE store_data_send_cnt + 1)
    BY <1>1, <2>1, <2>7 DEF StoreInOrder, store_data_send_done
  <2>9. store_data_send_cnt' = (store_data_send_cnt + (IF WrHsk(ready) THEN 1 ELSE 0)) % (2 * Words)
    BY <1>2, <2>1 DEF Store
  <2>10. CASE ~cnn_icb_cmd_valid
    <3>1. SendUpdate(ready) /\ ~WrHsk(ready)
      BY <2>10 DEF SendUpdate, WrHsk, CmdHsk
    <3>2. store_data_send_cnt' = 0
      BY <2>8, <2>9, <2>10, <3>1, SmallMod
    <3> QED BY <1>1, <2>1, <2>3, <2>4, <2>5, <2>6, <2>8, <2>10, <3>1, <3>2, Selected
  <2>11. CASE cnn_icb_cmd_valid /\ ready
    <3>1. SendUpdate(ready) /\ WrHsk(ready)
      BY <2>8, <2>11 DEF SendUpdate, WrHsk, CmdHsk
    <3>2. store_data_send_cnt # LastWord
      BY <2>7, <2>11 DEF store_data_send_done
    <3>3. store_data_send_next_cnt = store_data_send_cnt + 1
      BY <2>8, <2>11, <3>2
    <3>4. store_data_send_cnt' = store_data_send_cnt + 1
      <4>1. /\ store_data_send_cnt + 1 \in Nat /\ 2 * Words \in Nat
            /\ store_data_send_cnt + 1 < 2 * Words
        BY <1>3, <2>8, <2>11
      <4> QED BY <2>9, <3>1, <4>1, SmallMod
    <3> QED BY <1>1, <2>1, <2>3, <2>4, <2>5, <2>6, <3>1, <3>3, <3>4, Selected
  <2>12. CASE cnn_icb_cmd_valid /\ ~ready
    <3>1. ~SendUpdate(ready) /\ ~WrHsk(ready)
      BY <2>12 DEF SendUpdate, WrHsk, CmdHsk
    <3>2. store_data_send_cnt' = store_data_send_cnt
      <4>1. /\ store_data_send_cnt + 0 \in Nat /\ 2 * Words \in Nat
            /\ store_data_send_cnt + 0 < 2 * Words /\ store_data_send_cnt + 0 = store_data_send_cnt
        BY <1>3
      <4> QED BY <2>9, <3>1, <4>1, SmallMod
    <3> QED BY <1>1, <2>1, <2>3, <2>4, <2>5, <2>6, <2>12, <3>1, <3>2 DEF StoresProduct
  <2> QED BY <2>10, <2>11, <2>12
<1> QED BY <1>4, <1>7, <1>8 DEF ProductInv

LEMMA ProductStutter ==
  ASSUME ProductInv, UNCHANGED coreVars
  PROVE  ProductInv'
<1>1. /\ UNCHANGED <<current_state, mode, cnn_icb_cmd_valid, cnn_icb_cmd_wdata, cur_weight,
                     image_data, compute_cnt, in_weight, in_data, store_data_send_cnt,
                     store_data_send_next_cnt>>
      /\ UNCHANGED <<result, data_out, weight_out>>
  BY DEF coreVars, seqVars, busVars, weightVars, imageVars, feedVars, storeVars, peVars
<1>2. ArrayInv'
  <2>1. Feeding => Feeding'
    BY <1>1 DEF Feeding, Fed
  <2>2. Loaded' <=> Loaded
    BY <1>1 DEF Loaded
  <2>3. \A r, c, x : Partial(r, c, x)' = Partial(r, c, x)
    BY <1>1 DEF Partial, Places
  <2>4. Summed => Summed'
    BY <1>1, <2>3 DEF Summed, Partial, Places
  <2>5. Full => Full'
    BY <1>1, <2>3 DEF Full, Partial, Places
  <2> QED BY <1>1, <2>1, <2>2, <2>4, <2>5 DEF ProductInv, ArrayInv, Flowing, Array
<1>3. Trails' /\ StoresProduct'
  BY <1>1 DEF ProductInv, Trails, StoresProduct, Finished, Product, Loaded
<1> QED BY <1>2, <1>3 DEF ProductInv

\* Whatever the bus does, and although the writes begin while the array still
\* computes: a write carries the finished sum of its place, all Side products
\* of its row and column, unless a word of a buffer is 0.
THEOREM CoreStoresProduct == CoreSpec => []StoresProduct
<1>1. CoreInit => ProductInv
  BY ProductInit
<1>2. ProductInv /\ CtrlInv /\ CtrlInv' /\ CoreTypeOk /\ CoreTypeOk' /\ [CoreNext]_coreVars
        => ProductInv'
  BY ProductStep, ProductStutter DEF CoreNext
<1>3. ProductInv => StoresProduct
  BY DEF ProductInv
<1> QED BY <1>1, <1>2, <1>3, CoreCtrlInv, CoreTypeCorrect, PTL DEF CoreSpec

=============================================================================
