SPECIFICATION FairSpec
CONSTANTS
  m1 = m1
  m2 = m2
  m3 = m3
  f1 = f1
  f2 = f2
  NoFunctor = NoFunctor
  Memories <- ThreeMemories
  Functors <- TwoFunctors
  DedicatedIds = {}
  StageCnt <- StageCnts
  FunctorCnt <- FunctorCnts
  SimdPrograms <- MCSimdPrograms
  ReducePrograms <- MCReducePrograms
  Pipeline = TRUE
INVARIANTS
  TypeOK
  FunctorOfIns
  FreedIsOver
  WritesInPlace
  NeverStuck
PROPERTIES
  Completes
CHECK_DEADLOCK FALSE
