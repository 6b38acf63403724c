---------------------------- MODULE MCCnnSystem ----------------------------
(* The 4 x 4 array of the SoC. *)
EXTENDS CnnSystem

\* CPU commands: reads of a RAM of the accelerator and of a slow slave.
Read(region) == [read |-> TRUE, addr |-> At(region, 0), wdata |-> <<>>]
CpuReads == {Read("weight"), Read("slow")}
CpuNone  == {}
SocRams  == {"weight", "image", "out"}
SocWords == {Zero, <<"slow", 0>>, <<>>} \cup (SocRams \X (0..(RamWords - 1)))
=============================================================================
