SPECIFICATION FairSpec
CONSTANTS
  cim = cim
  m1 = m1
  m2 = m2
  m3 = m3
  NoFunctor = NoFunctor
  Functors = {}
  DedicatedIds = {}
  Memories <- FourMemories
  Cim = cim
  ConfigGroupCnt = 2
  Macros <- OneMacro
  MacroSimulation = FALSE
  ValueSparse = FALSE
  BitSparse = FALSE
  OutputMacroGroupCnt = 2
  AccessTime <- AccessTimes
  IpuLatency = 1
  StageLatency <- LongResultAdder
  ShiftAdder = 4
  NetworkLatency = 1
  ResultAdderLatency = 2
  Programs <- OutputPrograms
INVARIANTS
  OutputAfterCompute
CHECK_DEADLOCK FALSE
