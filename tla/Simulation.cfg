CONSTANTS
  Names <- MCNames
  SPECIAL_REG_NUM = 32
  GENERAL_REG_NUM = 32
  SIMD_MAX_OPCODE = 63
  REDUCE_MAX_FUNCT = 63
  BYTE_TO_BIT = 8
  PathIdBits = 5
  OpcodeBits = 8
  StaticPower <- MCStaticPower
  Tests <- MCTests
  NetworkLatency <- MCLatency
  NetworkEnergy <- MCEnergy
  MaxTime = 3
SPECIFICATION Spec
CHECK_DEADLOCK FALSE
INVARIANT AddressesExact
INVARIANT DecodesAsConfigured
INVARIANT ActivityIsUnion
INVARIANT ReportExact
