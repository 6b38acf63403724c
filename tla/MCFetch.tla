------------------------------- MODULE MCFetch -------------------------------
EXTENDS FetchUnit

(* The fetch unit: two ITCM lanes, two of the memory; 32-bit instructions   *)
(* that cross a lane in the ITCM, from it to the memory and in the memory,  *)
(* and every kind of jump.                                                  *)
McProgram == <<"l32", "c16", "c16", "l32", "c16", "jal", "jalr", "l32",
               "c16", "l32", "c16", "ret">>
McPrograms == {[pc \in Address |-> McProgram[pc + 1]]}
\* The call before the jalr reads no register; the load before the return
\* writes x1.
McWritesX1(pc) == pc \in {5, 9}
McReadsRs1(pc) == pc # 5
McTarget(pc) == CASE pc = 6 -> 7 [] pc = 11 -> 2 [] OTHER -> 6
=============================================================================
