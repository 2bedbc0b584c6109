CONSTANTS
  m1 = m1
  m2 = m2
  GeneralRegs = {0, 1, 2, 3}
  SpecialRegs <- Specials
  Binding <- BoundSpecials
  Memories <- TwoMemories
  MemoryOf <- FourWords
  WordBits = 5
  Program <- LoopProgram
  MaxIns = 30
  MaxOthers = 3
SPECIFICATION FairSpec
INVARIANT DecodesSequentially
PROPERTY Ends
