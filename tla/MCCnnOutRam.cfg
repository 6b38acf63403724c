CONSTANTS
  Side = 4
  Zero = Zero
  Word <- SocWords
  NoWord = none
  NoRsp = none
  NoCmd = NoCmd
  NoTarget = NoTarget
  Rams <- SocRams
  RamWords = 18
  ArbOuts = 8
  FifoDP = 2
  CpuCmds <- CpuNone
  MaxJobs = 1
SPECIFICATION Spec
INVARIANTS OutRamHoldsResults
