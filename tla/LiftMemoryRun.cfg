SPECIFICATION Spec
CONSTANTS
  home = home
  away = away
  Worlds = {home, away}
  Home = home
  Envs <- EnvsDef
  Base = 2
  MemLen = 3
  KeyLen = 1
  HeightLen = 2
  Int32 = 1
  Int64 = 2
  PlanLen = 4
  ByteBits = 1
  Modulus = 16
  NumBits = 4
  Pow2 <- MCPow2
  BitAnd <- MCBitAnd
  BitOr <- MCBitOr
  BitXor <- MCBitXor
  Err = Err
  MaxSteps = 4
  Sizes = {2}
  NoTag = NoTag
  NoSym = NoSym
  NoKey = NoKey
CHECK_DEADLOCK FALSE
INVARIANTS TagsSound NumbersAgree LiftFaithful
