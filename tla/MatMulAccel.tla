---------------------------- MODULE MatMulAccel ----------------------------
(***************************************************************************)
(* What the accelerator promises to the software that enables it: a job    *)
(* delivers every result once, in row order and with its final value, and  *)
(* reports itself finished only afterwards.                                *)
(***************************************************************************)
EXTENDS Integers, Sequences

CONSTANT Expected     \* the sequence of results of the job

VARIABLES phase,      \* "idle", "busy" or "finished"
          delivered   \* the results the bus has taken in this job

Init == phase = "idle" /\ delivered = <<>>

Start == /\ phase = "idle"
         /\ phase' = "busy" /\ delivered' = <<>>

Deliver == /\ phase = "busy" /\ Len(delivered) < Len(Expected)
           /\ delivered' = Append(delivered, Expected[Len(delivered) + 1])
           /\ UNCHANGED phase

Finish == /\ phase = "busy" /\ delivered = Expected
          /\ phase' = "finished" /\ UNCHANGED delivered

Release == /\ phase = "finished"
           /\ phase' = "idle" /\ UNCHANGED delivered

Next == Start \/ Deliver \/ Finish \/ Release

Spec == Init /\ [][Next]_<<phase, delivered>>
=============================================================================
