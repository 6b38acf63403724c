----------------------------- MODULE Exu_proofs -----------------------------
(* The OITF at every depth: the table stays well formed, and its two views, *)
(* the valid bits and the pointers, describe the same entries.              *)
(* The execution stage for every program, OITF depth and set of registers:  *)
(* each entry has one owner, an AMO is alone, traps are precise, and the    *)
(* pipeline with its two write-backs implements in-order execution.         *)
EXTENDS Exu, SequenceTheorems, TLAPS

-----------------------------------------------------------------------------
(* The OITF by itself. *)

\* The next position after a tag is a tag.
LEMMA NextTagType == ASSUME NEW p \in Tags PROVE NextTag(p) \in Tags
  BY OitfAssumption DEF Tags, NextTag, Wraps

\* A clock edge keeps the table well formed.
LEMMA ClockTypes ==
  ASSUME OitfTypeOk,
         NEW dis_ena \in BOOLEAN, NEW ret_ena \in BOOLEAN, NEW r \in Destinations,
         OitfClock(dis_ena, ret_ena, r)
  PROVE  OitfTypeOk'
  <1>1. alc_ptr' \in Tags /\ ret_ptr' \in Tags
    BY NextTagType DEF OitfTypeOk, OitfClock
  <1>2. alc_ptr_flg' \in BOOLEAN /\ ret_ptr_flg' \in BOOLEAN
    BY DEF OitfClock
  <1>3. vld' \in [Tags -> BOOLEAN]
    BY DEF OitfClock, VldNext, OitfTypeOk
  <1>4. rd' \in [Tags -> Destinations]
    BY DEF OitfClock, OitfTypeOk
  <1>5. QED BY <1>1, <1>2, <1>3, <1>4 DEF OitfTypeOk

\* The table is empty and well formed at the start.
LEMMA InitTypes == OitfInit => OitfTypeOk
  <1> SUFFICES ASSUME OitfInit PROVE OitfTypeOk
    OBVIOUS
  <1>1. 0 \in Tags
    BY OitfAssumption DEF Tags
  <1>2. vld \in [Tags -> BOOLEAN] /\ rd \in [Tags -> Destinations]
    BY DEF OitfInit, Destinations
  <1>3. QED BY <1>1, <1>2 DEF OitfInit, OitfTypeOk

\* The table is well formed: e203_exu_oitf's pointers stay inside it.
THEOREM OitfTypeCorrect == OitfSpec => []OitfTypeOk
<1>1. OitfTypeOk /\ [OitfNext]_oitfVars => OitfTypeOk'
  <2> SUFFICES ASSUME OitfTypeOk, [OitfNext]_oitfVars PROVE OitfTypeOk'
    OBVIOUS
  <2>1. CASE OitfNext
    BY <2>1, ClockTypes DEF OitfNext
  <2>2. CASE UNCHANGED oitfVars
    BY <2>2 DEF oitfVars, OitfTypeOk
  <2>3. QED BY <2>1, <2>2
<1>2. QED BY <1>1, InitTypes, PTL DEF OitfSpec

-----------------------------------------------------------------------------
\* The entries between the pointers, by how the pointers move.  The wrap flags
\* are kept as one fact: whether they differ.
Between(lo, hi, wrapped) == IF wrapped THEN {t \in Tags : lo <= t \/ t < hi}
                                       ELSE {t \in Tags : lo <= t /\ t < hi}
Ordered(lo, hi, wrapped) == IF wrapped THEN hi <= lo ELSE lo <= hi

LEMMA AgreesBetween ==
  ASSUME OitfTypeOk
  PROVE  OitfAgrees <=> /\ \A t \in Tags : vld[t] <=> t \in Between(ret_ptr, alc_ptr, alc_ptr_flg # ret_ptr_flg)
                        /\ Ordered(ret_ptr, alc_ptr, alc_ptr_flg # ret_ptr_flg)
  BY DEF OitfAgrees, Outstanding, Between, Ordered, OitfTypeOk, Tags

\* An entry is allocated at the upper end, if there is room.
LEMMA Allocated ==
  ASSUME NEW lo \in Tags, NEW hi \in Tags, NEW w \in BOOLEAN,
         Ordered(lo, hi, w), ~(lo = hi /\ w)
  PROVE  /\ Between(lo, NextTag(hi), w # Wraps(hi)) = Between(lo, hi, w) \cup {hi}
         /\ Ordered(lo, NextTag(hi), w # Wraps(hi))
         /\ hi \notin Between(lo, hi, w)
  <1>1. CASE Wraps(hi) BY <1>1, OitfAssumption DEF Between, Ordered, NextTag, Wraps, Tags
  <1>2. CASE ~Wraps(hi) BY <1>2, OitfAssumption DEF Between, Ordered, NextTag, Wraps, Tags
  <1>3. QED BY <1>1, <1>2

\* An entry leaves at the lower end, if there is one.
LEMMA Retired ==
  ASSUME NEW lo \in Tags, NEW hi \in Tags, NEW w \in BOOLEAN,
         Ordered(lo, hi, w), ~(lo = hi /\ ~w)
  PROVE  /\ Between(NextTag(lo), hi, w # Wraps(lo)) = Between(lo, hi, w) \ {lo}
         /\ Ordered(NextTag(lo), hi, w # Wraps(lo))
         /\ lo \in Between(lo, hi, w)
         /\ ~(NextTag(lo) = hi /\ (w # Wraps(lo)))
  <1>1. CASE Wraps(lo) BY <1>1, OitfAssumption DEF Between, Ordered, NextTag, Wraps, Tags
  <1>2. CASE ~Wraps(lo) BY <1>2, OitfAssumption DEF Between, Ordered, NextTag, Wraps, Tags
  <1>3. QED BY <1>1, <1>2

\* One clock edge keeps the two views together.  Wrapping of a flag that is
\* enabled is written d /\ Wraps, so that the four cases are one.
LEMMA ClockAgrees ==
  ASSUME OitfTypeOk, OitfAgrees,
         NEW dis_ena \in BOOLEAN, NEW ret_ena \in BOOLEAN, NEW r \in Destinations,
         ret_ena => ~oitf_empty, dis_ena => (dis_ready \/ ret_ena),
         OitfClock(dis_ena, ret_ena, r), OitfTypeOk'
  PROVE  OitfAgrees'
PROOF
  <1> DEFINE w == alc_ptr_flg # ret_ptr_flg
             old == Between(ret_ptr, alc_ptr, w)
             w1 == IF ret_ena THEN w # Wraps(ret_ptr) ELSE w
             mid == Between(ret_ptr', alc_ptr, w1)
             w2 == IF dis_ena THEN w1 # Wraps(alc_ptr) ELSE w1
             new == Between(ret_ptr', alc_ptr', w2)
  <1>1. /\ ret_ptr \in Tags /\ alc_ptr \in Tags /\ w \in BOOLEAN /\ w1 \in BOOLEAN
        /\ \A t \in Tags : vld[t] <=> t \in old
        /\ Ordered(ret_ptr, alc_ptr, w)
    BY AgreesBetween DEF OitfTypeOk
  <1>2. ret_ena => ~(ret_ptr = alc_ptr /\ ~w)
    BY DEF oitf_empty, OitfTypeOk
  <1>3. /\ Ordered(ret_ptr', alc_ptr, w1)
        /\ mid = IF ret_ena THEN old \ {ret_ptr} ELSE old
        /\ ret_ena => ~(ret_ptr' = alc_ptr /\ w1)
    <2>1. CASE ret_ena
      BY <2>1, <1>1, <1>2, Retired DEF OitfClock
    <2>2. CASE ~ret_ena
      BY <2>2, <1>1 DEF OitfClock
    <2>3. QED BY <2>1, <2>2
  <1>4. dis_ena => ~(ret_ptr' = alc_ptr /\ w1)
    BY <1>3 DEF dis_ready, oitf_full, OitfClock, OitfTypeOk
  <1>5. ret_ptr' \in Tags
    BY DEF OitfTypeOk
  <1>6. /\ Ordered(ret_ptr', alc_ptr', w2)
        /\ new = IF dis_ena THEN mid \cup {alc_ptr} ELSE mid
    <2>1. CASE dis_ena
      BY <2>1, <1>1, <1>3, <1>4, <1>5, Allocated DEF OitfClock
    <2>2. CASE ~dis_ena
      BY <2>2, <1>3 DEF OitfClock
    <2>3. QED BY <2>1, <2>2
  <1>7. (alc_ptr_flg' # ret_ptr_flg') <=> w2
    <2> DEFINE up == dis_ena /\ Wraps(alc_ptr)
               low == ret_ena /\ Wraps(ret_ptr)
    <2>1. /\ alc_ptr_flg' = (alc_ptr_flg # up) /\ ret_ptr_flg' = (ret_ptr_flg # low)
          /\ alc_ptr_flg \in BOOLEAN /\ ret_ptr_flg \in BOOLEAN
      BY DEF OitfClock, OitfTypeOk
    <2>2. up \in BOOLEAN /\ low \in BOOLEAN
      BY DEF Wraps
    <2>3. (w2 <=> (w # (low # up)))
      BY DEF Wraps
    <2> HIDE DEF up, low, w2
    <2>4. QED BY <2>1, <2>2, <2>3
  <1>8. \A t \in Tags : vld'[t] <=> t \in new
    BY <1>1, <1>3, <1>6 DEF OitfClock, VldNext
  <1>9. QED
    BY <1>6, <1>7, <1>8 DEF OitfAgrees, Outstanding, Between, Ordered, OitfTypeOk, Tags

LEMMA InitAgrees == OitfInit => OitfAgrees
  <1> SUFFICES ASSUME OitfInit PROVE OitfAgrees
    OBVIOUS
  <1>1. alc_ptr = 0 /\ ret_ptr = 0 /\ alc_ptr_flg = ret_ptr_flg
    BY DEF OitfInit
  <1>2. \A t \in Tags : ~vld[t] /\ ~(t < 0)
    BY DEF OitfInit, Tags
  <1>3. QED BY <1>1, <1>2 DEF OitfAgrees, Outstanding

\* Theorem: at every depth the valid bits, which stall the instructions that
\* depend on outstanding ones, and the pointers, which order the write-back,
\* describe the same entries of e203_exu_oitf.
THEOREM OitfAgreement == OitfSpec => []OitfAgrees
<1>1. OitfTypeOk /\ OitfTypeOk' /\ OitfAgrees /\ [OitfNext]_oitfVars => OitfAgrees'
  <2> SUFFICES ASSUME OitfTypeOk, OitfTypeOk', OitfAgrees, [OitfNext]_oitfVars PROVE OitfAgrees'
    OBVIOUS
  <2>1. CASE OitfNext
    BY <2>1, ClockAgrees DEF OitfNext
  <2>2. CASE UNCHANGED oitfVars
    BY <2>2 DEF oitfVars, OitfAgrees, Outstanding
  <2>3. QED BY <2>1, <2>2
<1>2. QED BY <1>1, InitAgrees, OitfTypeCorrect, PTL DEF OitfSpec

-----------------------------------------------------------------------------
(* The execution unit. *)


\* The co-processor's FSM and the tag FIFO of e203_exu_nice agree: one
\* instruction at a time, and its result is offered while it is under way.
NiceAgrees ==
  /\ Len(itag_fifo) <= 1
  /\ nice_busy <=> itag_fifo # <<>>
  /\ nice_rsp => nice_busy

\* At most one outstanding instruction writes a given register (waw_dep).
OneWriter ==
  \A t, u \in Tags : (vld[t] /\ vld[u] /\ rd[t] = rd[u] /\ rd[t] # NoRegister) => t = u

\* An access that will write a register brings a value for it.
LoadsBringValues == \A t \in LsuTags : rd[t] # NoRegister => lsu.data \in Values

ExuInv == ExuTypeOk /\ EveryEntryOwned /\ AmoAlone /\ NiceAgrees /\ OneWriter /\ LoadsBringValues

-----------------------------------------------------------------------------
(* The OITF, as the units see it.                                           *)

\* The position behind the last entry is free unless the table is full.
LEMMA FreeBehind ==
  ASSUME OitfTypeOk, OitfAgrees, ~oitf_full
  PROVE  ~vld[alc_ptr]
  BY OitfAssumption DEF OitfTypeOk, OitfAgrees, Outstanding, oitf_full, Tags

\* The oldest entry is valid unless the table is empty, and then none is.
LEMMA OldestValid ==
  ASSUME OitfTypeOk, OitfAgrees
  PROVE  /\ ~oitf_empty => vld[ret_ptr]
         /\ oitf_empty => \A t \in Tags : ~vld[t]
  BY OitfAssumption DEF OitfTypeOk, OitfAgrees, Outstanding, oitf_empty, Tags

\* A full table has two valid entries.
LEMMA FullHasTwo ==
  ASSUME OitfTypeOk, OitfAgrees, oitf_full
  PROVE  0 \in Tags /\ 1 \in Tags /\ vld[0] /\ vld[1]
  BY OitfAssumption DEF OitfTypeOk, OitfAgrees, Outstanding, oitf_full, Tags

\* Who owns an access is read off lsu, who a result, off the tag FIFO.
LEMMA NiceTagIsHead ==
  ASSUME ExuTypeOk, NiceAgrees
  PROVE  /\ ~nice_busy => NiceTags = {}
         /\ nice_busy => NiceTags = {Head(itag_fifo).itag}
         /\ nice_busy => Head(itag_fifo) \in [itag : Tags, data : Values]
         /\ nice_busy => Tail(itag_fifo) = <<>>
  <1> DEFINE Entry == [itag : Tags, data : Values]
  <1>1. itag_fifo \in Seq(Entry) /\ Len(itag_fifo) \in Nat
    BY DEF ExuTypeOk
  <1> HIDE DEF Entry
  <1>2. CASE itag_fifo = <<>>
    BY <1>2, <1>1 DEF NiceAgrees, NiceTags
  <1>3. CASE itag_fifo # <<>>
    <2>1. Len(itag_fifo) = 1
      BY <1>3, <1>1, EmptySeq DEF NiceAgrees
    <2>2. Head(itag_fifo) = itag_fifo[1] /\ DOMAIN itag_fifo = {1}
      BY <1>3, <1>1, <2>1
    <2>3. Head(itag_fifo) \in Entry /\ Tail(itag_fifo) \in Seq(Entry) /\ Len(Tail(itag_fifo)) = 0
      BY <1>3, <1>1, <2>1, HeadTailProperties
    <2>4. Tail(itag_fifo) = <<>>
      BY <2>3, EmptySeq
    <2>5. NiceTags = {Head(itag_fifo).itag}
      BY <2>2 DEF NiceTags
    <2>6. QED BY <1>3, <2>3, <2>4, <2>5 DEF NiceAgrees, Entry
  <1>4. QED BY <1>2, <1>3

LEMMA LsuAccessTyped ==
  ASSUME ExuTypeOk, lsu # NoAccess, lsu # NiceAccess
  PROVE  lsu \in AccessType /\ lsu.back2agu \in BOOLEAN /\ lsu.itag \in Tags /\ lsu.err \in BOOLEAN
  BY DEF ExuTypeOk, AccessType

-----------------------------------------------------------------------------
(* What an edge does.                                                       *)

\* An instruction that leaves dispatch is committed: nothing else traps.
LEMMA IssueCommits ==
  ASSUME ExuInv, Issues
  PROVE  /\ ir \in Program /\ ir.op \in Ops /\ ir.rs \in Destinations /\ ir.rd \in Destinations
         /\ ir.op = "store" => ir.rd = NoRegister
         /\ DispCondition(ir) /\ OutReady(ir)
         /\ ir.op \in {"load", "store"} => AguSends
         /\ IsNice(ir) => NiceTakes
         /\ ir.op = "amo" => AmoEnds
  <1>1. Dispatched /\ ir \in Program
    BY DEF Issues, Dispatched, ExuInv, ExuTypeOk
  <1>2. OutReady(ir)
    <2>1. CASE ir.op \in {"load", "store"}
      <3>1. AguSends
        BY <2>1 DEF Issues, IsNice
      <3>2. icb_state # "WAIT2ND"
        BY <2>1 DEF ExuInv, AmoAlone
      <3>3. QED BY <2>1, <3>1, <3>2 DEF AguSends, AguCmdValid
    <2>2. CASE ir.op = "unalgn" BY <2>2 DEF Issues, IsNice
    <2>3. CASE ir.op = "amo" BY <2>3 DEF Issues, IsNice, AmoEnds
    <2>4. CASE IsNice(ir) BY <2>4 DEF Issues, IsNice, NiceTakes, NiceRequest
    <2>5. QED BY <2>1, <2>2, <2>3, <2>4 DEF Issues
  <1>3. QED BY <1>1, <1>2, ProgramAssumption DEF Issues, IsNice, Dispatched

\* The write-back port serves the owner of the oldest entry, one at a time.
LEMMA OneRetires ==
  ASSUME ExuInv
  PROVE  /\ sel_lsu => LsuTags = {ret_ptr} /\ AccessDone
         /\ sel_nice => NiceTags = {ret_ptr} /\ nice_busy
         /\ ~(sel_lsu /\ sel_nice)
         /\ oitf_ret_ena => ~oitf_empty /\ vld[ret_ptr]
         /\ AccessDone => LsuTags = IF sel_lsu THEN {ret_ptr} ELSE {}
  <1>1. sel_lsu => LsuTags = {ret_ptr} /\ AccessDone
    BY DEF sel_lsu, lsu_o_valid, IsHead, LsuTags, AccessDone
  <1>2. sel_nice => NiceTags = {ret_ptr} /\ nice_busy
    BY NiceTagIsHead DEF sel_nice, IsHead, ExuInv, NiceAgrees
  <1>3. ~(sel_lsu /\ sel_nice)
    BY <1>1, <1>2 DEF ExuInv, EveryEntryOwned
  <1>4. oitf_ret_ena => ~oitf_empty /\ vld[ret_ptr]
    BY OldestValid DEF oitf_ret_ena, sel_lsu, sel_nice, IsHead, ExuInv, ExuTypeOk, EveryEntryOwned
  <1>5. AccessDone => LsuTags = IF sel_lsu THEN {ret_ptr} ELSE {}
    BY <1>1 DEF AccessDone, sel_lsu, lsu_o_valid, IsHead, LsuTags
  <1>6. QED BY <1>1, <1>2, <1>3, <1>4, <1>5

\* There is an entry for whoever needs one, although the co-processor does
\* not ask: while it is idle at most the LSU holds one.
LEMMA RoomToEnter ==
  ASSUME ExuInv, Issues, IsLongPipe(ir)
  PROVE  /\ dis_ready /\ ~vld[alc_ptr]
         /\ ~nice_busy
         /\ ir.op \in {"load", "store"} => (lsu = NoAccess \/ AccessDone)
  <1>1. ~nice_busy
    <2>1. CASE IsNice(ir)
      BY <2>1, IssueCommits DEF NiceTakes
    <2>2. CASE ir.op \in {"load", "store"}
      BY <2>2, IssueCommits DEF AguSends, AguCmdReady, nice_mem_holdup
    <2>3. QED BY <2>1, <2>2 DEF IsLongPipe
  <1>2. dis_ready
    <2>1. CASE IsNice(ir)
      <3>1. {t \in Tags : vld[t]} = LsuTags
        BY <1>1, NiceTagIsHead DEF ExuInv, EveryEntryOwned
      <3>2. \A t, u \in LsuTags : t = u
        BY DEF LsuTags
      <3>3. ~oitf_full
        BY <3>1, <3>2, FullHasTwo DEF ExuInv, ExuTypeOk, EveryEntryOwned
      <3>4. QED BY <3>3 DEF dis_ready
    <2>2. CASE ir.op \in {"load", "store"}
      BY <2>2, IssueCommits DEF DispCondition, IsAgu
    <2>3. QED BY <2>1, <2>2 DEF IsLongPipe
  <1>3. ir.op \in {"load", "store"} => (lsu = NoAccess \/ AccessDone)
    BY IssueCommits DEF AguSends, AguCmdReady, LsuReady
  <1>4. QED BY <1>1, <1>2, <1>3, FreeBehind DEF dis_ready, ExuInv, ExuTypeOk, EveryEntryOwned

\* The LSU sends for the AGU: a load or store that leaves dispatch, or an AMO.
LEMMA AguSendsWhat ==
  ASSUME ExuInv, AguSends
  PROVE  /\ ir.op \in {"load", "store"} => Issues
         /\ ir.op \in {"load", "store", "amo"}
         /\ ~nice_busy /\ (lsu = NoAccess \/ AccessDone)
  <1>1. \/ Dispatched /\ ir.op \in {"load", "store"}
        \/ ir.op = "amo"
    BY DEF AguSends, AguCmdValid, ExuInv, AmoAlone
  <1>2. ir.op \in {"load", "store"} => Issues
    BY <1>1 DEF Issues, IsNice
  <1>3. QED BY <1>1, <1>2 DEF AguSends, AguCmdReady, LsuReady, nice_mem_holdup

\* The accesses with a tag: one is sent for a load or store that leaves
\* dispatch, and it stays until it is the oldest and its response is there.
LEMMA LsuStep ==
  ASSUME ExuInv, LsuAccess
  PROVE  /\ lsu' \in AccessType \cup {NoAccess, NiceAccess}
         /\ LsuTags' = IF Issues /\ ir.op \in {"load", "store"} THEN {alc_ptr}
                       ELSE IF sel_lsu THEN {} ELSE LsuTags
         /\ Issues /\ ir.op \in {"load", "store"} => lsu' \in AguAccesses
         /\ LsuTags' # {} /\ ~(Issues /\ ir.op \in {"load", "store"}) => lsu' = lsu
  <1> DEFINE Enters == Issues /\ ir.op \in {"load", "store"}
  <1> USE AccessAssumption
  <1>0. alc_ptr \in Tags /\ lsu \in AccessType \cup {NoAccess, NiceAccess}
    BY DEF ExuInv, ExuTypeOk, OitfTypeOk
  <1>1. CASE AguSends
    <2>1. lsu' \in AguAccesses /\ AguAccesses \subseteq AccessType
      BY <1>1, <1>0 DEF LsuAccess, AguAccesses, AccessType
    <2>2. lsu' # NoAccess /\ lsu' # NiceAccess
      BY <2>1
    <2>3. LsuTags' = IF lsu'.back2agu THEN {} ELSE {lsu'.itag}
      BY <2>2 DEF LsuTags
    <2>4. lsu'.back2agu = (ir.op = "amo") /\ lsu'.itag = alc_ptr
      BY <2>1 DEF AguAccesses
    <2>5. CASE Enters
      BY <2>5, <2>1, <2>3, <2>4
    <2>6. CASE ~Enters
      <3>1. ir.op = "amo"
        BY <2>6, <1>1, AguSendsWhat
      <3>2. LsuTags = IF sel_lsu THEN {ret_ptr} ELSE {}
        BY <1>1, AguSendsWhat, OneRetires DEF LsuTags, sel_lsu, lsu_o_valid
      <3>3. QED BY <2>1, <2>3, <2>4, <2>6, <3>1, <3>2
    <2>7. QED BY <2>5, <2>6
  <1>2. CASE ~AguSends
    <2>0. ~Enters
      BY <1>2, IssueCommits
    <2>1. CASE NiceCmdValid /\ LsuReady
      <3>1. lsu' = NiceAccess /\ LsuTags' = {}
        BY <1>2, <2>1 DEF LsuAccess, LsuTags
      <3>2. LsuTags = IF sel_lsu THEN {ret_ptr} ELSE {}
        BY <2>1, OneRetires DEF LsuReady, LsuTags, sel_lsu, lsu_o_valid
      <3>3. QED BY <2>0, <3>1, <3>2
    <2>2. CASE ~(NiceCmdValid /\ LsuReady) /\ AccessDone
      <3>1. lsu' = NoAccess /\ LsuTags' = {}
        BY <1>2, <2>2 DEF LsuAccess, LsuTags
      <3>2. QED BY <2>0, <2>2, <3>1, OneRetires
    <2>3. CASE ~(NiceCmdValid /\ LsuReady) /\ ~AccessDone
      <3>1. lsu' = lsu
        BY <1>2, <2>3 DEF LsuAccess
      <3>2. LsuTags' = LsuTags
        BY <3>1 DEF LsuTags
      <3>3. QED BY <2>0, <2>3, <1>0, <3>1, <3>2, OneRetires
    <2>4. QED BY <2>1, <2>2, <2>3
  <1>3. QED BY <1>1, <1>2

\* The co-processor's tag enters with the instruction and leaves with its
\* result.
LEMMA NiceStep ==
  ASSUME ExuInv, CoProcessor, LsuAccess
  PROVE  /\ itag_fifo' \in Seq([itag : Tags, data : Values]) /\ NiceAgrees'
         /\ NiceTags' = IF NiceTakes THEN {alc_ptr} ELSE IF sel_nice THEN {} ELSE NiceTags
         /\ NiceTakes => \E v \in Values : itag_fifo' = <<[itag |-> alc_ptr, data |-> v]>>
         /\ ~NiceTakes /\ ~sel_nice => itag_fifo' = itag_fifo
         /\ nice_left' \in 0..MoreAccesses /\ nice_busy' \in BOOLEAN /\ nice_rsp' \in BOOLEAN
  <1> DEFINE Entry == [itag : Tags, data : Values]
  <1>0. /\ alc_ptr \in Tags /\ itag_fifo \in Seq(Entry)
        /\ nice_busy \in BOOLEAN /\ nice_left \in 0..MoreAccesses /\ nice_rsp \in BOOLEAN
    BY DEF ExuInv, ExuTypeOk, OitfTypeOk
  <1>1. CASE NiceTakes
    <2>1. ~nice_busy /\ itag_fifo = <<>> /\ ~sel_nice
      BY <1>1 DEF NiceTakes, ExuInv, NiceAgrees, sel_nice
    <2>2. PICK v \in Values : itag_fifo' = Append(itag_fifo, [itag |-> alc_ptr, data |-> v])
      BY <1>1, <2>1 DEF CoProcessor
    <2>3. itag_fifo' = <<[itag |-> alc_ptr, data |-> v]>>
      BY <2>1, <2>2
    <2>4. itag_fifo' \in Seq(Entry) /\ Len(itag_fifo') = 1 /\ itag_fifo' # <<>>
      BY <2>3, <1>0
    <2>5. NiceTags' = {alc_ptr}
      BY <2>3 DEF NiceTags
    <2>6. nice_busy' /\ (nice_rsp' => nice_busy')
      BY <1>1 DEF CoProcessor
    <2>7. nice_left' \in 0..MoreAccesses /\ nice_busy' \in BOOLEAN /\ nice_rsp' \in BOOLEAN
      BY <1>1, <1>0 DEF CoProcessor
    <2>8. NiceAgrees'
      BY <2>4, <2>6 DEF NiceAgrees
    <2>9. QED BY <1>1, <2>3, <2>4, <2>5, <2>7, <2>8
  <1>2. CASE ~NiceTakes /\ sel_nice
    <2>1. itag_fifo' = <<>>
      BY <1>2, OneRetires, NiceTagIsHead DEF CoProcessor, ExuInv
    <2>2. NiceTags' = {}
      BY <2>1 DEF NiceTags
    <2>3. ~nice_busy' /\ ~nice_rsp'
      BY <1>2 DEF CoProcessor
    <2>4. nice_left' \in 0..MoreAccesses
      BY <1>2, <1>0, ProgramAssumption DEF CoProcessor, NiceCmdValid
    <2>5. QED BY <1>2, <2>1, <2>2, <2>3, <2>4 DEF CoProcessor, NiceAgrees
  <1>3. CASE ~NiceTakes /\ ~sel_nice
    <2>1. itag_fifo' = itag_fifo /\ NiceTags' = NiceTags
      BY <1>3 DEF CoProcessor, NiceTags
    <2>2. nice_busy' = nice_busy /\ nice_rsp' \in BOOLEAN /\ (nice_rsp' => nice_busy')
      BY <1>3, <1>0 DEF CoProcessor, ExuInv, NiceAgrees
    <2>3. nice_left' \in 0..MoreAccesses
      BY <1>3, <1>0, ProgramAssumption DEF CoProcessor, NiceCmdValid
    <2>4. QED BY <1>3, <1>0, <2>1, <2>2, <2>3 DEF NiceAgrees, ExuInv
  <1>4. QED BY <1>1, <1>2, <1>3

\* The OITF: what dispatch and write-back do to it.
LEMMA TrackStep ==
  ASSUME ExuInv, Track
  PROVE  /\ OitfTypeOk' /\ OitfAgrees'
         /\ \A t \in Tags :
              /\ vld'[t] <=> \/ Issues /\ IsLongPipe(ir) /\ t = alc_ptr
                             \/ vld[t] /\ ~(oitf_ret_ena /\ t = ret_ptr)
              /\ rd'[t] = IF Issues /\ IsLongPipe(ir) /\ t = alc_ptr THEN ir.rd ELSE rd[t]
         /\ ~(Issues /\ IsLongPipe(ir)) => alc_ptr' = alc_ptr
         /\ oitf_empty /\ ~(Issues /\ IsLongPipe(ir)) => oitf_empty'
  <1> DEFINE Enters == Issues /\ IsLongPipe(ir)
             dest == IF Enters THEN ir.rd ELSE NoRegister
  <1>0. OitfTypeOk /\ OitfAgrees
    BY DEF ExuInv, ExuTypeOk, EveryEntryOwned
  <1>1. dest \in Destinations
    BY IssueCommits DEF Destinations
  <1>2. OitfClock(Enters, oitf_ret_ena, ir.rd)
    BY DEF Track
  <1>3. OitfClock(Enters, oitf_ret_ena, dest)
    BY <1>2 DEF OitfClock
  <1>4. /\ Enters \in BOOLEAN /\ oitf_ret_ena \in BOOLEAN
        /\ oitf_ret_ena => ~oitf_empty
        /\ Enters => dis_ready
    BY OneRetires, RoomToEnter DEF oitf_ret_ena
  <1> HIDE DEF dest
  <1>5. OitfTypeOk'
    BY <1>0, <1>1, <1>3, <1>4, ClockTypes
  <1>6. OitfAgrees'
    BY <1>0, <1>1, <1>3, <1>4, <1>5, ClockAgrees
  <1>7. \A t \in Tags :
          /\ vld'[t] <=> (Enters /\ t = alc_ptr) \/ (vld[t] /\ ~(oitf_ret_ena /\ t = ret_ptr))
          /\ rd'[t] = IF Enters /\ t = alc_ptr THEN ir.rd ELSE rd[t]
    BY <1>0, <1>2 DEF OitfClock, VldNext, OitfTypeOk
  <1>8. ~Enters => alc_ptr' = alc_ptr
    BY <1>2 DEF OitfClock
  <1>9. oitf_empty /\ ~Enters => oitf_empty'
    BY <1>0, <1>2, <1>4 DEF OitfClock, oitf_empty, OitfTypeOk
  <1>10. QED BY <1>5, <1>6, <1>7, <1>8, <1>9

LEMMA OwnedStep ==
  ASSUME ExuInv, Track, LsuAccess, CoProcessor
  PROVE  EveryEntryOwned'
  <1> DEFINE valid == {t \in Tags : vld[t]}
             loads == Issues /\ ir.op \in {"load", "store"}
  <1>0. /\ valid = LsuTags \cup NiceTags /\ LsuTags \cap NiceTags = {}
        /\ alc_ptr \in Tags /\ ret_ptr \in Tags
    BY DEF ExuInv, EveryEntryOwned, ExuTypeOk, OitfTypeOk
  <1>1. /\ LsuTags' = IF loads THEN {alc_ptr} ELSE IF sel_lsu THEN {} ELSE LsuTags
        /\ NiceTags' = IF NiceTakes THEN {alc_ptr} ELSE IF sel_nice THEN {} ELSE NiceTags
    BY LsuStep, NiceStep
  <1>2. Issues /\ IsLongPipe(ir) <=> loads \/ NiceTakes
    BY IssueCommits DEF IsLongPipe, NiceTakes, NiceRequest, Issues, IsNice
  <1>3. ~(loads /\ NiceTakes)
    BY DEF NiceTakes, NiceRequest, IsNice
  <1>4. loads \/ NiceTakes => /\ alc_ptr \notin valid
                              /\ ~nice_busy
                              /\ loads => (lsu = NoAccess \/ AccessDone)
    BY <1>2, RoomToEnter
  <1> HIDE DEF loads
  <1>5. loads => LsuTags = IF sel_lsu THEN {ret_ptr} ELSE {}
    <2>1. lsu = NoAccess => LsuTags = {} /\ ~sel_lsu
      BY DEF LsuTags, sel_lsu, lsu_o_valid
    <2>2. AccessDone => LsuTags = IF sel_lsu THEN {ret_ptr} ELSE {}
      BY OneRetires
    <2>3. QED BY <1>4, <2>1, <2>2
  <1>6. loads \/ NiceTakes => NiceTags = {} /\ ~sel_nice
    <2>1. ~nice_busy => NiceTags = {}
      BY NiceTagIsHead DEF ExuInv
    <2>2. ~nice_busy => ~sel_nice
      BY OneRetires
    <2>3. QED BY <1>4, <2>1, <2>2
  <1>7. /\ sel_lsu => LsuTags = {ret_ptr}
        /\ sel_nice => NiceTags = {ret_ptr}
        /\ oitf_ret_ena <=> sel_lsu \/ sel_nice
    BY OneRetires DEF oitf_ret_ena
  <1>8. {t \in Tags : vld'[t]} =
          (IF Issues /\ IsLongPipe(ir) THEN {alc_ptr} ELSE {})
            \cup (valid \ IF oitf_ret_ena THEN {ret_ptr} ELSE {})
    <2>1. \A t \in Tags : vld'[t] <=> \/ Issues /\ IsLongPipe(ir) /\ t = alc_ptr
                                      \/ vld[t] /\ ~(oitf_ret_ena /\ t = ret_ptr)
      BY TrackStep
    <2>2. QED BY <1>0, <2>1
  <1> HIDE DEF valid
  <1>9. {t \in Tags : vld'[t]} = LsuTags' \cup NiceTags'
    <2>1. CASE loads
      BY <2>1, <1>0, <1>1, <1>2, <1>3, <1>5, <1>6, <1>7, <1>8
    <2>2. CASE NiceTakes
      BY <2>2, <1>0, <1>1, <1>2, <1>3, <1>6, <1>7, <1>8
    <2>3. CASE ~loads /\ ~NiceTakes
      BY <2>3, <1>0, <1>1, <1>2, <1>7, <1>8
    <2>4. QED BY <2>1, <2>2, <2>3
  <1>10. LsuTags' \cap NiceTags' = {}
    <2>1. CASE loads
      BY <2>1, <1>1, <1>3, <1>6
    <2>2. CASE NiceTakes
      <3>1. alc_ptr \notin LsuTags
        BY <2>2, <1>0, <1>4
      <3>2. LsuTags' \subseteq LsuTags /\ NiceTags' = {alc_ptr}
        BY <2>2, <1>1, <1>3
      <3>3. QED BY <3>1, <3>2
    <2>3. CASE ~loads /\ ~NiceTakes
      BY <2>3, <1>0, <1>1
    <2>4. QED BY <2>1, <2>2, <2>3
  <1>11. \A j, k \in DOMAIN itag_fifo' : j = k
    <2>1. /\ itag_fifo' \in Seq([itag : Tags, data : Values])
          /\ Len(itag_fifo') <= 1 /\ DOMAIN itag_fifo' = 1..Len(itag_fifo')
          /\ Len(itag_fifo') \in Nat
      BY NiceStep, LenProperties DEF NiceAgrees
    <2>2. QED BY <2>1
  <1>12. OitfAgrees'
    BY TrackStep
  <1>13. QED BY <1>9, <1>10, <1>11, <1>12 DEF EveryEntryOwned, Tags

\* While an AMO's sequence runs nothing else does.
LEMMA AmoStep ==
  ASSUME ExuInv, ExuNext
  PROVE  AmoAlone' /\ icb_state' \in {"IDLE", "1ST", "AMOALU", "AMORDY", "WAIT2ND", "2ND", "WBCK"}
  <1> USE DEF ExuNext
  <1>0. icb_state \in {"IDLE", "1ST", "AMOALU", "AMORDY", "WAIT2ND", "2ND", "WBCK"}
    BY DEF ExuInv, ExuTypeOk
  <1>1. CASE Flush
    BY <1>1 DEF AmoSequence, AmoAlone
  <1>2. CASE ~Flush /\ icb_state = "IDLE" /\ ~StartsAmo
    BY <1>2 DEF AmoSequence, AmoAlone
  <1>3. CASE ~Flush /\ icb_state = "IDLE" /\ StartsAmo
    <2>1. icb_state' = "1ST"
      BY <1>3 DEF AmoSequence
    <2>2. AguSends /\ ir.op = "amo" /\ oitf_empty /\ ir # NoInstr /\ ~nice_busy
      BY <1>3, AguSendsWhat DEF StartsAmo, AguSends
    <2>3. ~Issues
      BY <2>2, <1>3, IssueCommits DEF AmoEnds
    <2>4. ir' = ir
      BY <1>3, <2>2, <2>3 DEF Fetch
    <2>5. oitf_empty'
      BY <2>2, <2>3, TrackStep
    <2>6. lsu' \in AguAccesses
      BY <2>2 DEF LsuAccess
    <2>7. lsu' # NoAccess /\ lsu' # NiceAccess /\ lsu'.back2agu
      <3>1. AguAccesses \subseteq AccessType
        BY <2>2 DEF AguAccesses, AccessType, ExuInv, ExuTypeOk, OitfTypeOk
      <3>2. lsu'.back2agu
        BY <2>2, <2>6 DEF AguAccesses
      <3>3. QED BY <2>6, <3>1, <3>2, AccessAssumption
    <2>8. ~NiceTakes /\ ~nice_busy'
      BY <2>2 DEF NiceTakes, NiceRequest, IsNice, CoProcessor
    <2>9. QED BY <2>1, <2>2, <2>4, <2>5, <2>7, <2>8 DEF AmoAlone
  <1>4. CASE ~Flush /\ icb_state # "IDLE" /\ Issues
    <2>1. AmoEnds
      BY <1>4, IssueCommits DEF ExuInv, AmoAlone
    <2>2. icb_state' = "IDLE"
      BY <1>4, <2>1 DEF AmoEnds, AmoSequence
    <2>3. QED BY <2>2 DEF AmoAlone
  <1>5. CASE ~Flush /\ icb_state # "IDLE" /\ ~Issues
    <2>1. /\ oitf_empty /\ ~nice_busy /\ ir # NoInstr /\ ir.op = "amo"
          /\ lsu # NoAccess <=> icb_state \in {"1ST", "2ND"}
          /\ lsu # NoAccess => lsu # NiceAccess /\ lsu.back2agu
      BY <1>5 DEF ExuInv, AmoAlone
    <2>2. ir' = ir /\ oitf_empty'
      BY <1>5, <2>1, TrackStep DEF Fetch
    <2>3. ~NiceTakes /\ ~NiceCmdValid /\ ~nice_busy'
      BY <2>1 DEF NiceTakes, NiceRequest, NiceCmdValid, IsNice, CoProcessor
    <2>4. AguSends <=> icb_state = "WAIT2ND" /\ AguCmdReady
      BY <1>5, <2>1 DEF AguSends, AguCmdValid
    <2>5. AccessDone => icb_state \in {"1ST", "2ND"} /\ lsu # NiceAccess /\ lsu.back2agu
      BY <2>1 DEF AccessDone
    <2>6. CASE AguSends
      <3>1. icb_state' = "2ND"
        BY <2>4, <2>6, <1>5 DEF AmoSequence
      <3>2. lsu' \in AguAccesses /\ lsu' \in AccessType
        BY <2>6 DEF LsuAccess, AguAccesses, AccessType, ExuInv, ExuTypeOk, OitfTypeOk
      <3>3. lsu' # NoAccess /\ lsu' # NiceAccess /\ lsu'.back2agu
        BY <2>1, <3>2, AccessAssumption DEF AguAccesses
      <3>4. QED BY <2>1, <2>2, <2>3, <3>1, <3>3 DEF AmoAlone
    <2>7. CASE ~AguSends /\ AccessDone
      <3>1. icb_state' \in {"AMOALU", "WBCK"}
        BY <2>5, <2>7, <1>5 DEF AmoSequence
      <3>2. lsu' = NoAccess
        BY <2>3, <2>7 DEF LsuAccess
      <3>3. QED BY <2>1, <2>2, <2>3, <3>1, <3>2 DEF AmoAlone
    <2>8. CASE ~AguSends /\ ~AccessDone
      <3>1. lsu' = lsu
        BY <2>3, <2>8 DEF LsuAccess
      <3>2. icb_state' \in {"1ST", "2ND"} <=> icb_state \in {"1ST", "2ND"}
        BY <1>0, <1>5, <2>4, <2>8 DEF AmoSequence
      <3>3. icb_state' \in {"IDLE", "1ST", "AMOALU", "AMORDY", "WAIT2ND", "2ND", "WBCK"}
        BY <1>0, <1>5 DEF AmoSequence
      <3>4. QED BY <2>1, <2>2, <2>3, <3>1, <3>2, <3>3 DEF AmoAlone
    <2>9. QED BY <2>6, <2>7, <2>8, <1>5, <1>0 DEF AmoSequence
  <1>6. icb_state' \in {"IDLE", "1ST", "AMOALU", "AMORDY", "WAIT2ND", "2ND", "WBCK"}
    BY <1>0 DEF AmoSequence
  <1>7. QED BY <1>1, <1>2, <1>3, <1>4, <1>5, <1>6

\* An instruction whose destination is outstanding waits in dispatch.
LEMMA OneWriterStep ==
  ASSUME ExuInv, Track
  PROVE  OneWriter'
  <1> DEFINE Enters == Issues /\ IsLongPipe(ir)
  <1>1. Enters => \A t \in Tags : vld[t] => rd[t] # ir.rd \/ ir.rd = NoRegister
    BY IssueCommits DEF DispCondition, Dependent, Match
  <1>2. \A t \in Tags : /\ vld'[t] => (Enters /\ t = alc_ptr) \/ vld[t]
                        /\ rd'[t] = IF Enters /\ t = alc_ptr THEN ir.rd ELSE rd[t]
    BY TrackStep
  <1> HIDE DEF Enters
  <1>3. QED BY <1>1, <1>2 DEF OneWriter, ExuInv, Tags

\* A load brings a value for its register, a store has none.
LEMMA LoadsStep ==
  ASSUME ExuInv, Track, LsuAccess
  PROVE  LoadsBringValues'
  <1>0. alc_ptr \in Tags /\ \A t \in LsuTags : t \in Tags /\ vld[t]
    BY DEF ExuInv, ExuTypeOk, OitfTypeOk, EveryEntryOwned
  <1>1. CASE Issues /\ ir.op \in {"load", "store"}
    <2>1. LsuTags' = {alc_ptr} /\ lsu' \in AguAccesses
      BY <1>1, LsuStep
    <2>2. rd'[alc_ptr] = ir.rd
      BY <1>0, <1>1, TrackStep DEF IsLongPipe
    <2>3. ir.op = "store" => ir.rd = NoRegister
      BY <1>1, IssueCommits
    <2>4. ir.op = "load" => lsu'.data \in Values
      BY <2>1 DEF AguAccesses
    <2>5. QED BY <1>1, <2>1, <2>2, <2>3, <2>4 DEF LoadsBringValues
  <1>2. CASE ~(Issues /\ ir.op \in {"load", "store"})
    <2>1. LsuTags' \subseteq LsuTags /\ (LsuTags' # {} => lsu' = lsu)
      BY <1>2, LsuStep
    <2>2. \A t \in LsuTags : rd'[t] = rd[t]
      <3>1. Issues /\ IsLongPipe(ir) => ~vld[alc_ptr]
        BY RoomToEnter
      <3>2. QED BY <1>0, <3>1, TrackStep
    <2>3. QED BY <2>1, <2>2 DEF LoadsBringValues, ExuInv
  <1>3. QED BY <1>1, <1>2

\* What the port writes is the result of the entry it serves.
LEMMA PortWrites ==
  ASSUME ExuInv, longp_wbck
  PROVE  /\ rd[ret_ptr] \in Registers /\ ret_ptr \in Tags /\ vld[ret_ptr]
         /\ longp_data \in Values
         /\ sel_lsu => LsuTags = {ret_ptr} /\ longp_data = lsu.data /\ ~lsu.err
         /\ ~sel_lsu => sel_nice /\ NiceTags = {ret_ptr} /\ longp_data = Head(itag_fifo).data
  <1>1. /\ ret_ptr \in Tags /\ rd \in [Tags -> Destinations]
        /\ rd[ret_ptr] # NoRegister /\ oitf_ret_ena /\ ~wbck_err /\ vld[ret_ptr]
    BY OneRetires DEF ExuInv, ExuTypeOk, OitfTypeOk, longp_wbck
  <1>2. rd[ret_ptr] \in Registers
    BY <1>1 DEF Destinations
  <1>3. sel_lsu => LsuTags = {ret_ptr} /\ longp_data = lsu.data /\ lsu.data \in Values /\ ~lsu.err
    BY <1>1, OneRetires DEF ExuInv, LoadsBringValues, longp_data, wbck_err
  <1>4. ~sel_lsu => /\ sel_nice /\ NiceTags = {ret_ptr} /\ longp_data = Head(itag_fifo).data
                    /\ Head(itag_fifo) \in [itag : Tags, data : Values]
    BY <1>1, OneRetires, NiceTagIsHead DEF ExuInv, oitf_ret_ena, longp_data
  <1>5. QED BY <1>1, <1>2, <1>3, <1>4

LEMMA TypeStep ==
  ASSUME ExuInv, ExuNext
  PROVE  ExuTypeOk'
  <1> USE DEF ExuNext
  <1>1. OitfTypeOk'
    BY TrackStep
  <1>2. ir' \in Program \cup {NoInstr} /\ pc_vld' \in BOOLEAN
    BY DEF Fetch, ExuInv, ExuTypeOk
  <1>3. regs' \in [Registers -> Values]
    <2>0. regs \in [Registers -> Values]
      BY DEF ExuInv, ExuTypeOk
    <2>1. CASE longp_wbck
      BY <2>0, <2>1, PortWrites DEF WriteBack
    <2>2. CASE ~longp_wbck /\ Issues /\ NeedsWriteBack(ir)
      <3>1. PICK v \in Values : regs' = [regs EXCEPT ![ir.rd] = v]
        BY <2>2 DEF WriteBack
      <3>2. QED BY <2>0, <3>1
    <2>3. CASE ~longp_wbck /\ ~(Issues /\ NeedsWriteBack(ir))
      BY <2>0, <2>3 DEF WriteBack
    <2>4. QED BY <2>1, <2>2, <2>3
  <1>4. operand' \in Values \cup {NoValue}
    <2>1. CASE Issues /\ ir.rs # NoRegister
      <3>1. ir.rs \in Registers /\ operand' = regs[ir.rs]
        BY <2>1, IssueCommits DEF WriteBack, Destinations
      <3>2. QED BY <3>1 DEF ExuInv, ExuTypeOk
    <2>2. CASE ~(Issues /\ ir.rs # NoRegister)
      BY <2>2 DEF WriteBack, ExuInv, ExuTypeOk
    <2>3. QED BY <2>1, <2>2
  <1>5. lsu' \in AccessType \cup {NoAccess, NiceAccess} /\ rsp_vld' \in BOOLEAN
    BY LsuStep DEF LsuAccess
  <1>6. /\ itag_fifo' \in Seq([itag : Tags, data : Values]) /\ Len(itag_fifo') <= ItagFifoSlots
        /\ nice_busy' \in BOOLEAN /\ nice_left' \in 0..MoreAccesses /\ nice_rsp' \in BOOLEAN
    <2>1. /\ itag_fifo' \in Seq([itag : Tags, data : Values]) /\ NiceAgrees'
          /\ nice_busy' \in BOOLEAN /\ nice_left' \in 0..MoreAccesses /\ nice_rsp' \in BOOLEAN
      BY NiceStep
    <2>2. Len(itag_fifo') <= 1 /\ Len(itag_fifo') \in Nat
      BY <2>1, LenProperties DEF NiceAgrees
    <2>3. QED BY <2>1, <2>2 DEF ItagFifoSlots
  <1>7. mem_rdy' \in BOOLEAN
    BY DEF LsuAccess
  <1>8. leftover_err' \in BOOLEAN
    BY LsuAccessTyped DEF AmoSequence, ExuInv, ExuTypeOk, AccessDone
  <1>9. mie' \in BOOLEAN /\ mpie' \in BOOLEAN /\ irq' \in BOOLEAN
    BY DEF Status, ExuInv, ExuTypeOk
  <1>10. halt_req' \in BOOLEAN /\ wfi_flag' \in BOOLEAN
    BY DEF Sleep, ExuInv, ExuTypeOk
  <1>11. QED
    BY <1>1, <1>2, <1>3, <1>4, <1>5, <1>6, <1>7, <1>8, <1>9, <1>10, AmoStep DEF ExuTypeOk

LEMMA ExuInvStep == ExuInv /\ [ExuNext]_exuVars => ExuInv'
  <1>1. ASSUME ExuInv, ExuNext PROVE ExuInv'
    BY <1>1, TypeStep, OwnedStep, AmoStep, NiceStep, OneWriterStep, LoadsStep DEF ExuInv, ExuNext
  <1>2. ASSUME ExuInv, UNCHANGED exuVars PROVE ExuInv'
    <2> USE <1>2 DEF exuVars, oitfVars, unitVars, ExuInv
    <2>1. ExuTypeOk'
      BY DEF ExuTypeOk, OitfTypeOk
    <2>2. LsuTags' = LsuTags /\ NiceTags' = NiceTags
      BY DEF LsuTags, NiceTags
    <2>3. EveryEntryOwned'
      BY <2>2 DEF EveryEntryOwned, OitfAgrees, Outstanding
    <2>4. AmoAlone'
      BY DEF AmoAlone, oitf_empty
    <2>5. NiceAgrees' /\ OneWriter' /\ LoadsBringValues'
      BY <2>2 DEF NiceAgrees, OneWriter, LoadsBringValues
    <2>6. QED BY <2>1, <2>3, <2>4, <2>5
  <1>3. QED BY <1>1, <1>2

LEMMA ExuInvInit == ExuInit => ExuInv
  <1> SUFFICES ASSUME ExuInit PROVE ExuInv
    OBVIOUS
  <1> USE DEF ExuInit
  <1>1. OitfTypeOk /\ OitfAgrees
    BY InitTypes, InitAgrees
  <1>2. ExuTypeOk
    <2> DEFINE Entry == [itag : Tags, data : Values]
    <2>1. itag_fifo \in Seq(Entry) /\ Len(itag_fifo) = 0
      OBVIOUS
    <2>2. nice_left \in 0..MoreAccesses
      BY ProgramAssumption
    <2>3. lsu \in AccessType \cup {NoAccess, NiceAccess} /\ ir \in Program \cup {NoInstr}
      OBVIOUS
    <2>4. {mem_rdy, leftover_err, irq, mie, mpie, halt_req, wfi_flag} \subseteq BOOLEAN
      OBVIOUS
    <2>5. /\ icb_state \in {"IDLE", "1ST", "AMOALU", "AMORDY", "WAIT2ND", "2ND", "WBCK"}
          /\ regs \in [Registers -> Values] /\ operand \in Values \cup {NoValue}
          /\ {pc_vld, rsp_vld, nice_busy, nice_rsp} \subseteq BOOLEAN
      OBVIOUS
    <2> HIDE DEF ExuInit
    <2>6. QED BY <1>1, <2>1, <2>2, <2>3, <2>4, <2>5 DEF ExuTypeOk, ItagFifoSlots
  <1>3. LsuTags = {} /\ NiceTags = {}
    BY DEF LsuTags, NiceTags
  <1>4. \A t \in Tags : ~vld[t]
    BY DEF OitfInit
  <1>5. EveryEntryOwned
    BY <1>1, <1>3, <1>4 DEF EveryEntryOwned
  <1>6. AmoAlone /\ NiceAgrees /\ OneWriter /\ LoadsBringValues
    BY <1>3, <1>4 DEF AmoAlone, NiceAgrees, OneWriter, LoadsBringValues
  <1>7. QED BY <1>2, <1>5, <1>6 DEF ExuInv


-----------------------------------------------------------------------------
(* The invariants, and what a trap leaves alone.                            *)

\* Theorem: the inductive invariant.  None of its parts holds by itself: who
\* may enter the OITF without asking depends on the co-processor and its tag
\* FIFO agreeing, what retires on the AMO being alone.
THEOREM ExuInvariant == ExuSpec => []ExuInv
  BY ExuInvInit, ExuInvStep, PTL DEF ExuSpec

\* Theorem: the units of the execution stage keep their types, for every
\* program and OITF; with it, the one instruction of the co-processor never
\* overruns the tag FIFO of e203_exu_nice.
THEOREM ExuTypeCorrect == ExuSpec => []ExuTypeOk
<1>1. ExuInv => ExuTypeOk
  BY DEF ExuInv
<1>2. QED BY <1>1, ExuInvariant, PTL

\* Theorem: for every depth of e203_exu_oitf, each of its entries is the tag
\* of exactly one instruction under way in the LSU or the co-processor,
\* although e203_exu_disp lets a co-processor instruction in without asking
\* for room.
THEOREM EntriesOwned == ExuSpec => []EveryEntryOwned
<1>1. ExuInv => EveryEntryOwned
  BY DEF ExuInv
<1>2. QED BY <1>1, ExuInvariant, PTL

\* Theorem: in every reachable state of the execution stage the pointers and
\* valid bits of its OITF agree, so dispatch and write-back respect the
\* interface OitfAgreement takes for granted.
THEOREM TableAgrees == ExuSpec => []OitfAgrees
<1>1. ExuInv => OitfAgrees
  BY DEF ExuInv, EveryEntryOwned
<1>2. QED BY <1>1, ExuInvariant, PTL

\* Theorem: whatever traps, write-backs and accesses of the co-processor
\* happen at the same time, an AMO of e203_exu_alu_lsuagu has the memory to
\* itself from its read to its last step.
THEOREM AmoIsAlone == ExuSpec => []AmoAlone
<1>1. ExuInv => AmoAlone
  BY DEF ExuInv
<1>2. QED BY <1>1, ExuInvariant, PTL

\* In the cycle of a trap that is not its own the instruction in dispatch does
\* not issue, sends nothing and does not start an AMO.
LEMMA NothingStarts ==
  ASSUME ExuInv, wbck_err \/ irq_flush_req
  PROVE  ~Issues /\ ~AguSends /\ ~NiceTakes /\ ~longp_wbck
  <1>1. ~OutReady(ir)
    BY DEF OutReady, CommitReady, irq_flush_req
  <1>2. ~Issues
    BY <1>1, IssueCommits
  <1>3. icb_state = "IDLE"
    <2>1. wbck_err => ~oitf_empty
      BY DEF wbck_err, sel_lsu, IsHead
    <2>2. QED BY <2>1 DEF ExuInv, AmoAlone, irq_flush_req, irq_req, amo_wait
  <1>4. ~AguSends
    BY <1>1, <1>3 DEF AguSends, AguCmdValid
  <1>5. ~NiceTakes
    BY <1>1 DEF NiceTakes, NiceRequest
  <1>6. ~longp_wbck
    BY DEF longp_wbck, irq_flush_req, oitf_ret_ena, sel_lsu, sel_nice, IsHead
  <1>7. QED BY <1>2, <1>4, <1>5, <1>6

\* Theorem: traps spare the instruction in dispatch.  In the cycle in which
\* e203_exu_excp takes an interrupt or the access fault of an older load,
\* nothing of the instruction in dispatch happens.
THEOREM TrapsPrecise == ExuSpec => TrapsArePrecise
<1> DEFINE Precise == wbck_err \/ irq_flush_req =>
                        /\ regs' = regs /\ alc_ptr' = alc_ptr
                        /\ lsu' # lsu => lsu' \in {NoAccess, NiceAccess}
                        /\ nice_busy' => nice_busy
                        /\ icb_state = "IDLE" /\ icb_state' = "IDLE"
                        /\ ir' = NoInstr
<1>1. ExuInv /\ [ExuNext]_exuVars => [Precise]_exuVars
  <2> SUFFICES ASSUME ExuInv, ExuNext, wbck_err \/ irq_flush_req
               PROVE  Precise
    OBVIOUS
  <2> USE DEF ExuNext
  <2>1. regs' = regs
    BY NothingStarts DEF WriteBack
  <2>2. alc_ptr' = alc_ptr
    BY NothingStarts, TrackStep
  <2>3. lsu' # lsu => lsu' \in {NoAccess, NiceAccess}
    BY NothingStarts DEF LsuAccess
  <2>4. nice_busy' => nice_busy
    BY NothingStarts DEF CoProcessor, ExuInv, ExuTypeOk
  <2>5. Flush
    BY DEF Flush, Trap
  <2>6. icb_state = "IDLE" /\ icb_state' = "IDLE" /\ ir' = NoInstr
    <3>1. wbck_err => ~oitf_empty
      BY DEF wbck_err, sel_lsu, IsHead
    <3>2. icb_state = "IDLE"
      BY <3>1 DEF ExuInv, AmoAlone, irq_flush_req, irq_req, amo_wait
    <3>3. QED BY <2>5, <3>2 DEF AmoSequence, Fetch
  <2>7. QED BY <2>1, <2>2, <2>3, <2>4, <2>6
<1>2. QED BY <1>1, ExuInvariant, PTL DEF ExuSpec, TrapsArePrecise


-----------------------------------------------------------------------------
(* The pipeline implements in-order execution.                              *)

\* What the registers will hold, read off the units: the value of the LSU's
\* access, of the co-processor's result, or of the register file.
SettledReads ==
  \A r \in Registers :
    /\ \A t \in LsuTags : rd[t] = r /\ ~lsu.err => Settled[r] = lsu.data
    /\ \A t \in NiceTags : rd[t] = r => Settled[r] = Head(itag_fifo).data
    /\ \/ \E t \in LsuTags : rd[t] = r /\ ~lsu.err
       \/ \E t \in NiceTags : rd[t] = r
       \/ Settled[r] = regs[r]

LEMMA Settles == ExuInv => SettledReads
  <1> SUFFICES ASSUME ExuInv, NEW r \in Registers
               PROVE  /\ \A t \in LsuTags : rd[t] = r /\ ~lsu.err => Settled[r] = lsu.data
                      /\ \A t \in NiceTags : rd[t] = r => Settled[r] = Head(itag_fifo).data
                      /\ \/ \E t \in LsuTags : rd[t] = r /\ ~lsu.err
                         \/ \E t \in NiceTags : rd[t] = r
                         \/ Settled[r] = regs[r]
    BY DEF SettledReads
  <1>0. r # NoRegister
    BY OitfAssumption
  <1>1. \A t \in Tags : vld[t] <=> t \in LsuTags \/ t \in NiceTags
    BY DEF ExuInv, EveryEntryOwned
  <1>2. LsuTags \cap NiceTags = {} /\ LsuTags \subseteq Tags /\ NiceTags \subseteq Tags
    BY DEF ExuInv, EveryEntryOwned
  <1>3. ASSUME NEW t \in Tags, WillWrite(t, r) PROVE Settled[r] = Result(t)
    <2>1. \A u \in Tags : WillWrite(u, r) => u = t
      BY <1>0, <1>3 DEF WillWrite, ExuInv, OneWriter
    <2>2. (CHOOSE u \in Tags : WillWrite(u, r)) = t
      BY <1>3, <2>1
    <2>3. QED BY <1>3, <2>2 DEF Settled
  <1>4. ASSUME NEW t \in LsuTags, rd[t] = r, ~lsu.err PROVE Settled[r] = lsu.data
    <2>1. t \in Tags /\ WillWrite(t, r)
      BY <1>1, <1>2, <1>4 DEF WillWrite
    <2>2. QED BY <1>3, <2>1 DEF Result
  <1>5. ASSUME NEW t \in NiceTags, rd[t] = r PROVE Settled[r] = Head(itag_fifo).data
    <2>1. t \in Tags /\ WillWrite(t, r) /\ t \notin LsuTags
      BY <1>1, <1>2, <1>5 DEF WillWrite
    <2>2. PICK k \in DOMAIN itag_fifo : itag_fifo[k].itag = t
      BY DEF NiceTags
    <2>3. k = 1 /\ DOMAIN itag_fifo = {1} /\ Head(itag_fifo) = itag_fifo[1]
      <3> DEFINE Entry == [itag : Tags, data : Values]
      <3>1. itag_fifo \in Seq(Entry) /\ Len(itag_fifo) <= 1
        BY DEF ExuInv, ExuTypeOk, NiceAgrees
      <3> HIDE DEF Entry
      <3>2. DOMAIN itag_fifo = 1..Len(itag_fifo) /\ Len(itag_fifo) \in Nat
        BY <3>1, LenProperties
      <3>3. k = 1 /\ Len(itag_fifo) = 1
        BY <3>1, <3>2
      <3>4. Head(itag_fifo) = itag_fifo[1]
        BY <3>1, <3>3
      <3>5. QED BY <3>2, <3>3, <3>4
    <2>4. (CHOOSE j \in DOMAIN itag_fifo : itag_fifo[j].itag = t) = 1
      BY <2>2, <2>3
    <2>5. QED BY <1>3, <2>1, <2>3, <2>4 DEF Result
  <1>6. (\A t \in Tags : ~WillWrite(t, r)) => Settled[r] = regs[r]
    BY DEF Settled
  <1>7. ASSUME NEW t \in Tags, WillWrite(t, r)
        PROVE  \/ \E u \in LsuTags : rd[u] = r /\ ~lsu.err
               \/ \E u \in NiceTags : rd[u] = r
    BY <1>1, <1>7 DEF WillWrite
  <1>8. QED BY <1>4, <1>5, <1>6, <1>7

LEMMA SettlesNext == ExuInv' => SettledReads'
  BY Settles, PTL


\* The instruction that leaves dispatch, and writes a register now or later.
Writes(r) == Issues /\ ir.rd = r /\ (IsLongPipe(ir) \/ NeedsWriteBack(ir))

\* An instruction that leaves dispatch finds its registers settled: no
\* outstanding one will write them.
LEMMA NotDependent ==
  ASSUME ExuInv, Issues, NEW r \in Registers, r \in {ir.rs, ir.rd}
  PROVE  /\ \A t \in Tags : vld[t] => rd[t] # r
         /\ Settled[r] = regs[r]
  <1>1. \A t \in Tags : vld[t] => rd[t] # r
    BY IssueCommits, OitfAssumption DEF DispCondition, Dependent, Match
  <1>2. \A t \in LsuTags \cup NiceTags : t \in Tags /\ vld[t]
    BY DEF ExuInv, EveryEntryOwned
  <1>3. QED BY <1>1, <1>2, Settles DEF SettledReads

\* An entry that stays keeps its owner, its register and its result.
LEMMA EntryStays ==
  ASSUME ExuInv, ExuNext, NEW t \in Tags, vld[t], ~(oitf_ret_ena /\ t = ret_ptr)
  PROVE  /\ rd'[t] = rd[t]
         /\ t \in LsuTags => t \in LsuTags' /\ lsu' = lsu
         /\ t \in NiceTags => t \in NiceTags' /\ Head(itag_fifo)' = Head(itag_fifo)
  <1> USE DEF ExuNext
  <1>1. Issues /\ IsLongPipe(ir) => t # alc_ptr /\ ~nice_busy
    BY RoomToEnter
  <1>2. rd'[t] = rd[t]
    BY <1>1, TrackStep
  <1>3. ASSUME t \in LsuTags PROVE t \in LsuTags' /\ lsu' = lsu
    <2>1. ~sel_lsu
      BY <1>3, OneRetires DEF oitf_ret_ena
    <2>2. ~AccessDone /\ lsu # NoAccess
      BY <1>3, <2>1, OneRetires DEF LsuTags
    <2>3. ~(Issues /\ ir.op \in {"load", "store"})
      BY <2>2, IssueCommits, AguSendsWhat
    <2>4. QED BY <1>3, <2>1, <2>3, LsuStep
  <1>4. ASSUME t \in NiceTags PROVE t \in NiceTags' /\ Head(itag_fifo)' = Head(itag_fifo)
    <2>1. ~sel_nice
      BY <1>4, OneRetires DEF oitf_ret_ena
    <2>2. nice_busy
      BY <1>4, NiceTagIsHead DEF ExuInv
    <2>3. ~NiceTakes
      BY <2>2 DEF NiceTakes
    <2>4. QED BY <1>4, <2>1, <2>3, NiceStep
  <1>5. QED BY <1>2, <1>3, <1>4

\* Who owns an entry after an edge owned it before, or has just left dispatch.
LEMMA OwnersComeFrom ==
  ASSUME ExuInv, ExuNext
  PROVE  /\ \A t \in LsuTags' : \/ Issues /\ ir.op \in {"load", "store"} /\ t = alc_ptr
                                \/ t \in LsuTags /\ ~sel_lsu
         /\ \A t \in NiceTags' : \/ Issues /\ IsNice(ir) /\ t = alc_ptr
                                 \/ t \in NiceTags /\ ~sel_nice
         /\ LsuTags \cup NiceTags \subseteq {t \in Tags : vld[t]}
  <1> USE DEF ExuNext
  <1>1. \A t \in LsuTags' : \/ Issues /\ ir.op \in {"load", "store"} /\ t = alc_ptr
                            \/ t \in LsuTags /\ ~sel_lsu
    BY LsuStep
  <1>2. NiceTakes => Issues /\ IsNice(ir)
    BY DEF NiceTakes, NiceRequest, Issues, IsNice
  <1>3. QED BY <1>1, <1>2, NiceStep DEF ExuInv, EveryEntryOwned

\* What is written back was settled: only an instruction that leaves dispatch
\* changes what a register will hold.
LEMMA OthersSettled ==
  ASSUME ExuInv, ExuNext, ExuInv', NEW r \in Registers, ~Writes(r)
  PROVE  Settled'[r] = Settled[r]
  <1> USE DEF ExuNext
  <1>0. SettledReads /\ SettledReads'
    BY Settles, SettlesNext
  <1>1. r # NoRegister /\ (Issues /\ IsLongPipe(ir) => rd'[alc_ptr] = ir.rd)
    BY OitfAssumption, TrackStep DEF ExuInv, ExuTypeOk, OitfTypeOk
  <1>2. \A t \in LsuTags' : rd'[t] = r => t \in LsuTags /\ ~sel_lsu /\ rd[t] = r /\ vld[t] /\ t \in Tags
    BY <1>1, OwnersComeFrom, TrackStep, RoomToEnter DEF Writes, IsLongPipe
  <1>3. \A t \in NiceTags' : rd'[t] = r => t \in NiceTags /\ ~sel_nice /\ rd[t] = r /\ vld[t] /\ t \in Tags
    BY <1>1, OwnersComeFrom, TrackStep, RoomToEnter DEF Writes, IsLongPipe
  <1>4. CASE \E t \in LsuTags : rd[t] = r /\ ~lsu.err
    <2>1. PICK t \in LsuTags : rd[t] = r /\ ~lsu.err
      BY <1>4
    <2>2. t \in Tags /\ vld[t] /\ Settled[r] = lsu.data
      BY <1>0, <2>1, OwnersComeFrom DEF SettledReads
    <2>3. CASE sel_lsu
      <3>1. t = ret_ptr /\ oitf_ret_ena /\ longp_wbck /\ longp_data = lsu.data
        BY <1>1, <2>1, <2>3, OneRetires DEF longp_wbck, wbck_err, oitf_ret_ena, longp_data
      <3>2. regs'[r] = lsu.data
        BY <2>1, <3>1 DEF WriteBack, ExuInv, ExuTypeOk
      <3>3. \A u \in LsuTags' \cup NiceTags' : rd'[u] # r
        BY <1>1, <1>2, <1>3, <2>1, <2>2, <2>3, OneRetires, OwnersComeFrom DEF ExuInv, OneWriter, EveryEntryOwned
      <3>4. QED BY <1>0, <2>2, <3>2, <3>3 DEF SettledReads
    <2>4. CASE ~sel_lsu
      <3>1. ~(oitf_ret_ena /\ t = ret_ptr)
        BY <2>1, <2>4, OneRetires DEF oitf_ret_ena, ExuInv, EveryEntryOwned
      <3>2. t \in LsuTags' /\ lsu' = lsu /\ rd'[t] = r
        BY <2>1, <2>2, <3>1, EntryStays
      <3>3. QED BY <1>0, <2>1, <2>2, <3>2 DEF SettledReads
    <2>5. QED BY <2>3, <2>4
  <1>5. CASE \E t \in NiceTags : rd[t] = r
    <2>1. PICK t \in NiceTags : rd[t] = r
      BY <1>5
    <2>2. t \in Tags /\ vld[t] /\ Settled[r] = Head(itag_fifo).data
      BY <1>0, <2>1, OwnersComeFrom DEF SettledReads
    <2>3. CASE sel_nice
      <3>1. t = ret_ptr /\ ~sel_lsu /\ longp_wbck /\ longp_data = Head(itag_fifo).data
        BY <1>1, <2>1, <2>3, OneRetires DEF longp_wbck, wbck_err, oitf_ret_ena, longp_data
      <3>2. regs'[r] = Head(itag_fifo).data
        BY <2>1, <3>1 DEF WriteBack, ExuInv, ExuTypeOk
      <3>3. \A u \in LsuTags' \cup NiceTags' : rd'[u] # r
        BY <1>1, <1>2, <1>3, <2>1, <2>2, <2>3, OneRetires, OwnersComeFrom DEF ExuInv, OneWriter, EveryEntryOwned
      <3>4. QED BY <1>0, <2>2, <3>2, <3>3 DEF SettledReads
    <2>4. CASE ~sel_nice
      <3>1. ~(oitf_ret_ena /\ t = ret_ptr)
        BY <2>1, <2>4, OneRetires DEF oitf_ret_ena, ExuInv, EveryEntryOwned
      <3>2. t \in NiceTags' /\ Head(itag_fifo)' = Head(itag_fifo) /\ rd'[t] = r
        BY <2>1, <2>2, <3>1, EntryStays
      <3>3. QED BY <1>0, <2>1, <2>2, <3>2 DEF SettledReads
    <2>5. QED BY <2>3, <2>4
  <1>6. CASE /\ ~\E t \in LsuTags : rd[t] = r /\ ~lsu.err
             /\ ~\E t \in NiceTags : rd[t] = r
    <2>1. Settled[r] = regs[r]
      BY <1>0, <1>6 DEF SettledReads
    <2>2. ~(longp_wbck /\ rd[ret_ptr] = r)
      BY <1>6, PortWrites
    <2>3. regs'[r] = regs[r]
      <3>1. CASE longp_wbck
        BY <2>2, <3>1, PortWrites DEF WriteBack, ExuInv, ExuTypeOk
      <3>2. CASE ~longp_wbck /\ Issues /\ NeedsWriteBack(ir)
        <4>1. ir.rd # r
          BY <3>2 DEF Writes
        <4>2. QED BY <3>2, <4>1 DEF WriteBack, ExuInv, ExuTypeOk
      <3>3. QED BY <3>1, <3>2 DEF WriteBack
    <2>4. ASSUME NEW t \in LsuTags', rd'[t] = r, ~lsu'.err PROVE FALSE
      <3>1. t \in LsuTags /\ rd[t] = r /\ ~sel_lsu /\ vld[t] /\ t \in Tags
        BY <1>2, <2>4
      <3>2. ~(oitf_ret_ena /\ t = ret_ptr)
        BY <3>1, OneRetires DEF oitf_ret_ena, ExuInv, EveryEntryOwned
      <3>3. lsu' = lsu
        BY <3>1, <3>2, EntryStays
      <3>4. QED BY <1>6, <2>4, <3>1, <3>3
    <2>5. \A t \in NiceTags' : rd'[t] # r
      BY <1>3, <1>6
    <2>6. QED BY <1>0, <2>1, <2>3, <2>4, <2>5 DEF SettledReads
  <1>7. QED BY <1>4, <1>5, <1>6


\* The register of the instruction that leaves dispatch holds the one value it
\* will write, or keeps its own because the access will fail.
LEMMA WriterSettled ==
  ASSUME ExuInv, ExuNext, ExuInv', NEW r \in Registers, Writes(r)
  PROVE  Settled'[r] \in Values \/ Settled'[r] = Settled[r]
  <1> USE DEF ExuNext
  <1>0. SettledReads'
    BY SettlesNext
  <1>1. Issues /\ ir.rd = r /\ r # NoRegister /\ alc_ptr \in Tags
    BY OitfAssumption DEF Writes, ExuInv, ExuTypeOk, OitfTypeOk
  <1>2. Settled[r] = regs[r] /\ \A t \in Tags : vld[t] => rd[t] # r
    BY <1>1, NotDependent
  <1>3. \A t \in Tags : vld[t] /\ t # alc_ptr => rd'[t] # r
    BY <1>2, TrackStep
  <1>4. CASE ir.op \in {"load", "store"}
    <2>1. lsu' \in AguAccesses /\ LsuTags' = {alc_ptr} /\ rd'[alc_ptr] = r /\ ~vld[alc_ptr]
      BY <1>1, <1>4, LsuStep, TrackStep, RoomToEnter DEF IsLongPipe
    <2>2. \A t \in NiceTags' : rd'[t] # r
      BY <1>3, <1>4, <2>1, OwnersComeFrom DEF IsNice
    <2>3. ir.op = "load"
      BY <1>1, <1>4, IssueCommits
    <2>4. lsu'.data \in Values /\ lsu'.err \in BOOLEAN
      BY <2>1, <2>3 DEF AguAccesses
    <2>5. CASE lsu'.err
      <3>1. Settled'[r] = regs'[r]
        BY <1>0, <2>2, <2>5 DEF SettledReads
      <3>2. regs'[r] = regs[r]
        <4>1. ~NeedsWriteBack(ir)
          BY <1>4 DEF NeedsWriteBack, IsLongPipe
        <4>2. longp_wbck => rd[ret_ptr] # r /\ rd[ret_ptr] \in Registers
          BY <1>2, PortWrites
        <4>3. QED BY <4>1, <4>2 DEF WriteBack, ExuInv, ExuTypeOk
      <3>3. QED BY <1>2, <3>1, <3>2
    <2>6. CASE ~lsu'.err
      BY <1>0, <2>1, <2>4, <2>6 DEF SettledReads
    <2>7. QED BY <2>5, <2>6
  <1>5. CASE IsNice(ir)
    <2>1. rd'[alc_ptr] = r /\ NiceTags' = {alc_ptr}
      BY <1>1, <1>5, IssueCommits, TrackStep, NiceStep DEF IsLongPipe
    <2>2. \E v \in Values : itag_fifo' = <<[itag |-> alc_ptr, data |-> v]>>
      BY <1>1, <1>5, IssueCommits, NiceStep
    <2>3. Head(itag_fifo)' \in [itag : Tags, data : Values]
      BY <1>1, <2>2
    <2>4. QED BY <1>0, <2>1, <2>3 DEF SettledReads
  <1>6. CASE NeedsWriteBack(ir)
    <2>1. ~IsLongPipe(ir) /\ ~longp_wbck
      BY <1>1, <1>6, IssueCommits DEF NeedsWriteBack, OutReady
    <2>2. \A t \in LsuTags' \cup NiceTags' : rd'[t] # r
      BY <1>2, <2>1, OwnersComeFrom, TrackStep DEF IsLongPipe
    <2>3. PICK v \in Values : regs' = [regs EXCEPT ![r] = v]
      BY <1>1, <1>6, <2>1 DEF WriteBack
    <2>4. regs'[r] = v
      BY <2>3 DEF ExuInv, ExuTypeOk
    <2>5. QED BY <1>0, <2>2, <2>4 DEF SettledReads
  <1>7. QED BY <1>4, <1>5, <1>6 DEF Writes, IsLongPipe

\* Theorem: the pipeline runs every program in order.  With the registers that
\* the instructions under way will write taken as written, each edge executes
\* the instruction that leaves dispatch, on the operand the instructions before
\* it left, or nothing: write-backs out of two units, faults and traps are not
\* to be seen.
THEOREM PipelineRunsInOrder == ExuSpec => RunsInOrder
<1>1. ExuInit => Program_!Init
  <2> SUFFICES ASSUME ExuInit PROVE Settled \in [Registers -> Values] /\ operand = NoValue
    BY DEF Program_!Init
  <2>1. \A t \in Tags : ~vld[t]
    BY DEF ExuInit, OitfInit
  <2>2. Settled = [r \in Registers |-> regs[r]]
    BY <2>1 DEF Settled, WillWrite
  <2>3. QED BY <2>2 DEF ExuInit
<1>2. ExuInv /\ ExuInv' /\ [ExuNext]_exuVars => [Program_!Next]_(Program_!vars)
  <2>1. ASSUME ExuInv, ExuInv', ExuNext PROVE [Program_!Next]_(Program_!vars)
    <3> USE <2>1
    <3>0. /\ Settled = [r \in Registers |-> Settled[r]]
          /\ Settled' = [r \in Registers |-> Settled'[r]]
      BY DEF Settled
    <3>1. CASE ~Issues
      <4>1. Settled' = Settled
        BY <3>0, <3>1, OthersSettled DEF Writes
      <4>2. operand' = operand
        BY <3>1 DEF ExuNext, WriteBack
      <4>3. QED BY <4>1, <4>2 DEF Program_!vars
    <3>2. CASE Issues
      <4>1. ir.rs \in Destinations /\ ir.rd \in Destinations
        BY <3>2, IssueCommits
      <4>2. operand' = IF ir.rs = NoRegister THEN NoValue ELSE Settled[ir.rs]
        BY <3>2, <4>1, NotDependent DEF ExuNext, WriteBack, Destinations
      <4>3. CASE ir.rd \in Registers /\ Writes(ir.rd) /\ Settled'[ir.rd] \in Values
        <5>1. \A r \in Registers : r # ir.rd => Settled'[r] = Settled[r]
          BY OthersSettled DEF Writes
        <5>2. Settled' = [Settled EXCEPT ![ir.rd] = Settled'[ir.rd]]
          BY <3>0, <4>3, <5>1
        <5>3. Program_!Execute(ir.rs, ir.rd, Settled'[ir.rd])
          BY <4>2, <4>3, <5>2, OitfAssumption DEF Program_!Execute
        <5>4. QED BY <4>1, <4>3, <5>3 DEF Program_!Next, Destinations
      <4>4. CASE ~(ir.rd \in Registers /\ Writes(ir.rd) /\ Settled'[ir.rd] \in Values)
        <5>1. \A r \in Registers : Settled'[r] = Settled[r]
          BY <4>4, OthersSettled, WriterSettled DEF Writes
        <5>2. Settled' = Settled
          BY <3>0, <5>1
        <5>3. PICK v \in Values : TRUE
          BY ProgramAssumption
        <5>4. Program_!Execute(ir.rs, NoRegister, v)
          BY <4>2, <5>2 DEF Program_!Execute
        <5>5. QED BY <4>1, <5>3, <5>4 DEF Program_!Next, Destinations
      <4>5. QED BY <4>3, <4>4
    <3>3. QED BY <3>1, <3>2
  <2>2. ASSUME UNCHANGED exuVars PROVE UNCHANGED Program_!vars
    <3> USE <2>2 DEF exuVars, oitfVars, unitVars
    <3>1. LsuTags' = LsuTags
      BY DEF LsuTags
    <3>2. Settled' = Settled
      BY <3>1 DEF Settled, WillWrite, Result
    <3>3. QED BY <3>2 DEF Program_!vars
  <2>3. QED BY <2>1, <2>2
<1>3. QED BY <1>1, <1>2, ExuInvariant, PTL DEF ExuSpec, RunsInOrder, Program_!Spec
=============================================================================
