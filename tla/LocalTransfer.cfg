SPECIFICATION FairSpec
CONSTANTS
  m1 = m1
  m2 = m2
  m3 = m3
  Memories <- ThreeMemories
  Functors = {}
  NoFunctor = NoFunctor
  DedicatedIds <- OnePath
  Cells <- FourCells
  Program <- Transfers
  DedicatedPairs <- JoinedPairs
  Pipeline = TRUE
INVARIANTS
  TypeOK
  DataInSequence
  FreedIsOver
PROPERTIES
  Completes
CHECK_DEADLOCK FALSE
