SPECIFICATION FairSpec
CONSTANTS
  m1 = m1
  m2 = m2
  f1 = f1
  f2 = f2
  NoFunctor = NoFunctor
  Memories <- TwoMemories
  Functors <- TwoFunctors
  DedicatedIds = {}
  Units <- TwoUnits
  Program <- LoopProgram
  PeriodIsOne = FALSE
  MaxIns = 5
INVARIANTS
  TypeOK
  TakenExactly
  EdgeAgrees
  EndsWhenDone
  NoReleaseLost
PROPERTIES
  BooksInOrder
  Ends
