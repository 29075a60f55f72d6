SPECIFICATION Spec
CONSTANTS
  k1 = k1  k2 = k2  empty = empty  x = x  y = y
  c1 = c1  c2 = c2  h1 = h1  h2 = h2
  Keys = {k1, k2}
  Values = {empty, x, y}
  Empty = empty
  Size <- SizeDef
  Heights = {h1, h2}
  Contexts = {c1, c2}
  ContextSize = 2  HeightSize = 2
  Pointers <- PointersDef
  MemSize = 5  USize = 16
  Fuel = 4
  Foreign <- ForeignDef
  BadKey = BadKey  None = None
CHECK_DEADLOCK FALSE
SYMMETRY Symmetry
INVARIANTS KeysExplain KeysReported Verdict
