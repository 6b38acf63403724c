CONSTANTS
  Side = 4
  Zero = Zero
  Word <- SocWords
  NoWord = none
  NoRsp = none
  NoCmd = NoCmd
  NoTarget = NoTarget
  Rams <- SocRams
  RamWords = 18
  ArbOuts = 8
  FifoDP = 2
  CpuCmds <- CpuReads
  MaxJobs = 2
SPECIFICATION FairSpec
INVARIANTS OneOwnerPerCommand BuffersHoldMemory NoSurplusRead CpuGetsItsAnswer CoreTypeOk FeedsAligned WeightReadsInOrder StoreInOrder
PROPERTIES ImplementsAccel CpuServed FirstJobCompletes
