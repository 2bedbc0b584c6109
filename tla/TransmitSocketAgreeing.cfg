SPECIFICATION FairSpec
CONSTANTS
  A = A
  B = B
  C = C
  NoCore = NoCore
  Cores = {A, B, C}
  Program <- AgreeingProgram
INVARIANTS
  TypeOK
  HandshakeConfirmed
  DataHasReader
PROPERTIES
  Implements
  Completes
CHECK_DEADLOCK FALSE
