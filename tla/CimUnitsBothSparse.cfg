SPECIFICATION FairSpec
CONSTANTS
  cim = cim
  m1 = m1
  m2 = m2
  m3 = m3
  NoFunctor = NoFunctor
  Functors = {}
  DedicatedIds = {}
  Memories <- FourMemories
  Cim = cim
  ConfigGroupCnt = 2
  Macros <- OneMacro
  MacroSimulation = FALSE
  ValueSparse = TRUE
  BitSparse = TRUE
  OutputMacroGroupCnt = 2
  AccessTime <- AccessTimes
  IpuLatency = 1
  StageLatency <- ShortStages
  ShiftAdder = 4
  NetworkLatency = 1
  ResultAdderLatency = 1
  Programs <- BothSparsePrograms
INVARIANTS
  ReadDataFinished
CHECK_DEADLOCK FALSE
