SPECIFICATION Spec
CONSTANTS
  m1 = m1
  m2 = m2
  f1 = f1
  f2 = f2
  NoFunctor = NoFunctor
  Memories <- TwoMemories
  Functors <- TwoFunctors
  DedicatedIds = {}
  Units <- TwoUnits
  Program <- RawProgram
  PeriodIsOne = TRUE
  MaxIns = 5
INVARIANTS
  NoHazard
