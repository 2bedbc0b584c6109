SPECIFICATION FairSpec
CONSTANTS
  m1 = m1
  m2 = m2
  f1 = f1
  f2 = f2
  NoFunctor = NoFunctor
  Memories <- TwoMemories
  Functors <- TwoFunctors
  DedicatedIds <- TwoDedicated
  Unit = "transfer"
  Kinds <- TransferKinds
  MaxIns = 3
INVARIANTS
  TypeOK
  PathMapExact
  ConflictExact
  NoHazardInFlight
PROPERTIES
  AbstractSpec
  StallEnds
CHECK_DEADLOCK FALSE
