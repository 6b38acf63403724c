CONSTANTS
  ITCM_SIZE = 8
  PC_SIZE = 12
  Programs <- McPrograms
  Target <- McTarget
  WritesX1 <- McWritesX1
  ReadsRs1 <- McReadsRs1
  Redirects = {3}
  Handler = 9
  MaxFlush = 2
  MaxIrq = 1
  WfiMasked = TRUE
SPECIFICATION FetchSpec
INVARIANT IrInProgramOrder
