SPECIFICATION Spec
CONSTANTS
  A = A
  B = B
  C = C
  NoCore = NoCore
  Cores = {A, B, C}
  Program <- CrossedProgram
INVARIANT TagConfirmed
CHECK_DEADLOCK FALSE
