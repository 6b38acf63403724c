------------------------------ MODULE InOrder ------------------------------
(***************************************************************************)
(* What a program may rely on in the registers, whatever the pipeline does *)
(* at the same time: the instructions take effect one after the other, and *)
(* each reads what the ones before it wrote.                               *)
(***************************************************************************)
CONSTANTS Registers, NoRegister, Values, NoValue

VARIABLES regs,    \* the register file
          operand  \* what the last instruction read
vars == <<regs, operand>>

Init == regs \in [Registers -> Values] /\ operand = NoValue

\* An instruction without a source reads nothing; one without a destination,
\* or whose access failed, writes nothing.
Execute(rs, rd, v) ==
  /\ operand' = IF rs = NoRegister THEN NoValue ELSE regs[rs]
  /\ regs' = IF rd = NoRegister THEN regs ELSE [regs EXCEPT ![rd] = v]

Next == \E rs, rd \in Registers \cup {NoRegister}, v \in Values : Execute(rs, rd, v)

Spec == Init /\ [][Next]_vars
=============================================================================
