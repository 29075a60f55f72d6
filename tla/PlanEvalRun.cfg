SPECIFICATION GrowSpec
CONSTANTS
  Eval <- MCEval
  Simplify <- MCSimplify
  Modulus = 8
  NumBits = 3
  Pow2 <- MCPow2
  BitAnd <- MCBitAnd
  BitOr <- MCBitOr
  BitXor <- MCBitXor
  Err = Err
  Panic = Panic
  NoVar = NoVar
  ToEnd = ToEnd
  Base = 2
  PlanLen = 3
  USize = 4
  LoopLimit = 2
  PlanEnvs <- MCPlanEnvs
  Literals <- MCLiterals
  Firsts <- MCFirsts
  Seconds <- MCSeconds
  MaxGrowth = 2
INVARIANTS TypeOK NormalizeFaithful SimplifyFaithful
CHECK_DEADLOCK FALSE
