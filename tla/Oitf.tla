-------------------------------- MODULE Oitf --------------------------------
(***************************************************************************)
(* The outstanding-instructions track FIFO of the core: one entry for each *)
(* instruction that has left the ALU for the LSU or the co-processor and   *)
(* has not written back.  An entry's position is the instruction's tag     *)
(* (itag).  Full and empty come from two pointers and their wrap flags,    *)
(* the dependency check from one valid bit per entry.                      *)
(***************************************************************************)
EXTENDS Naturals

CONSTANTS Depth,      \* OITF_DEPTH
          Registers, NoRegister

ASSUME OitfAssumption == Depth \in Nat \ {0, 1} /\ NoRegister \notin Registers

Tags == 0..(Depth - 1)
Destinations == Registers \cup {NoRegister}   \* rdidx, and rdwen = 0

VARIABLES alc_ptr, alc_ptr_flg, ret_ptr, ret_ptr_flg,
          vld,   \* by tag
          rd     \* the payload: destination by tag
oitfVars == <<alc_ptr, alc_ptr_flg, ret_ptr, ret_ptr_flg, vld, rd>>

oitf_empty == ret_ptr = alc_ptr /\ ret_ptr_flg = alc_ptr_flg
oitf_full  == ret_ptr = alc_ptr /\ ret_ptr_flg # alc_ptr_flg

\* disp_ready leaves out a retirement in the same cycle
dis_ready == ~oitf_full

\* oitfrd_match_disp*: an outstanding instruction writes register r.
Match(r) == r # NoRegister /\ \E t \in Tags : vld[t] /\ rd[t] = r

OitfInit == /\ alc_ptr = 0 /\ ret_ptr = 0
            /\ alc_ptr_flg = FALSE /\ ret_ptr_flg = FALSE
            /\ vld = [t \in Tags |-> FALSE]
            /\ rd = [t \in Tags |-> NoRegister]   \* not reset; no entry is valid

Wraps(ptr) == ptr = Depth - 1
\* A slip: the pointer counts on past the last entry.
NextTagNoWrap(ptr) == ptr + 1

NextTag(ptr) == IF Wraps(ptr) THEN 0 ELSE ptr + 1

\* A slip: a retirement is lost where an instruction is dispatched.
VldSetOnly(dis_ena, ret_ena) ==
  [t \in Tags |-> \/ dis_ena /\ t = alc_ptr
                  \/ vld[t] /\ ~(ret_ena /\ ~dis_ena /\ t = ret_ptr)]

VldNext(dis_ena, ret_ena) ==
  [t \in Tags |-> \/ dis_ena /\ t = alc_ptr
                  \/ vld[t] /\ ~(ret_ena /\ t = ret_ptr)]

OitfClock(dis_ena, ret_ena, disp_rd) ==
  /\ alc_ptr' = IF dis_ena THEN NextTag(alc_ptr) ELSE alc_ptr
  /\ alc_ptr_flg' = (alc_ptr_flg # (dis_ena /\ Wraps(alc_ptr)))
  /\ ret_ptr' = IF ret_ena THEN NextTag(ret_ptr) ELSE ret_ptr
  /\ ret_ptr_flg' = (ret_ptr_flg # (ret_ena /\ Wraps(ret_ptr)))
  /\ vld' = VldNext(dis_ena, ret_ena)
  /\ rd' = [rd EXCEPT ![alc_ptr] = IF dis_ena THEN disp_rd ELSE @]

-----------------------------------------------------------------------------
(* On its own, between a dispatcher and a write-back that respect it: an   *)
(* instruction enters when there is room or an entry leaves in the same    *)
(* cycle, and leaves when there is one.                                    *)
OitfNext == \E dis_ena, ret_ena \in BOOLEAN, r \in Destinations :
              /\ ret_ena => ~oitf_empty
              /\ dis_ena => (dis_ready \/ ret_ena)
              /\ OitfClock(dis_ena, ret_ena, r)

OitfSpec == OitfInit /\ [][OitfNext]_oitfVars

OitfTypeOk == /\ alc_ptr \in Tags /\ ret_ptr \in Tags
              /\ alc_ptr_flg \in BOOLEAN /\ ret_ptr_flg \in BOOLEAN
              /\ vld \in [Tags -> BOOLEAN] /\ rd \in [Tags -> Destinations]

\* The entries between the two pointers, around the end of the table.
Outstanding == IF alc_ptr_flg = ret_ptr_flg
               THEN {t \in Tags : ret_ptr <= t /\ t < alc_ptr}
               ELSE {t \in Tags : ret_ptr <= t \/ t < alc_ptr}

\* The valid bits, which stall dependent instructions, and the pointers,
\* which order the write-back and bound the table, describe the same entries:
\* an entry with a lost bit would let an instruction read a register too
\* early, one with a stale bit would stall its register for ever.
OitfAgrees == /\ \A t \in Tags : vld[t] <=> t \in Outstanding
              /\ (alc_ptr_flg = ret_ptr_flg) => ret_ptr <= alc_ptr
              /\ (alc_ptr_flg # ret_ptr_flg) => alc_ptr <= ret_ptr
=============================================================================
