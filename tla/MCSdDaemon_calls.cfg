CONSTANTS
  Passed <- MCPassed
  Envs <- MCEnvs
  MaxCalls = 2
  IntMax = 7
SPECIFICATION Spec
INVARIANTS BarrierMeansConsumed KindsExclusive
PROPERTY ClaimIsUsable
CHECK_DEADLOCK FALSE
