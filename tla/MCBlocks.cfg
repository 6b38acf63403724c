CONSTANTS
  dat1 = dat1
  dat2 = dat2
  DP = 4
  DAT = {dat1, dat2}
  CUT_READY = FALSE
  Rams <- McRams
  RamWords = 2
  ArbOuts = 8
  FifoDP = 2
  NoCmd = NoCmd
  NoTarget = NoTarget
  NoRsp = NoRsp
  Cmds <- McCmds
  Contents <- McContents
  W = 4
  Operands = {0, 1, 5, 8, 10, 15}
  SYNC_DP = 2
  Payloads = {dat1, dat2}
  MemWords = 4
  NiceMod = 8
  MemAtStart <- McMemAtStart
  Bases = {0, 1}
  MaxNice = 3
  SlowMem = FALSE
  ITCM_SIZE = 8
  PC_SIZE = 12
  Programs <- McPrograms
  Target <- McTarget
  WritesX1 <- McWritesX1
  ReadsRs1 <- McReadsRs1
  Redirects = {3}
  Handler = 9
  MaxFlush = 2
  MaxIrq = 1
  WfiMasked = FALSE
SPECIFICATION BlocksSpec
INVARIANTS BlocksTypeOk PointersAgree AnswersAtomic ResultIsGolden
           FourPhases NothingLost
           NiceInstructionsExact IrInProgramOrder PcInProgramOrder FetchAwaited
PROPERTIES ImplementsQueue Answered CrossingReadyAgain FetchArrives
