------------------------------- MODULE MCExu -------------------------------
(* The execution stage with one register besides x0, which stands for the   *)
(* others, and an OITF of two entries as in the code.  The data program has *)
(* the instructions that read or write a register, the control program all  *)
(* operations, each without a source; the live program those that wait for *)
(* each other.                                                             *)
EXTENDS Exu, TLC

CONSTANTS a, x0, u, w

Instr(op, rs, r) == [op |-> op, rs |-> rs, rd |-> r]
DataProgram == {Instr(op, x0, a) : op \in {"alu", "load", "nice", "amo"}}
               \cup {Instr(op, a, x0) : op \in {"bjp", "load", "store", "nicemem"}}
               \cup {Instr("alu", a, a)}
Control == {Instr(op, x0, x0) : op \in {"csr", "fencei", "bjp", "mret", "wfi", "excp", "unalgn", "store"}}
ControlProgram == {Instr(op, x0, a) : op \in {"alu", "load", "nice", "nicemem", "amo"}} \cup Control
LiveProgram == {Instr(op, x0, x0) : op \in {"load", "nicemem", "amo", "csr", "wfi"}}

\* Values are only copied.
ValueSymmetry == Permutations(Values)
=============================================================================
