SPECIFICATION Spec
CONSTANTS
  a = a  b = b  c = c  A = A  B = B  C = C
  Types = {a, b, c}
  Names = {A, B, C}
  NoType = NoType
  Programs <- ProgramsDef
SYMMETRY Symmetry
CHECK_DEADLOCK FALSE
INVARIANTS NoDanglingRef DistinctCalls UniqueNamesSuffice
