\* RefutedNeverShips, against what the code does.
SPECIFICATION Spec
CONSTANTS
  w0 = w0
  w1 = w1
  w2 = w2
  a = a
  b = b
  Worlds <- MCWorlds
  Emptied <- MCEmptied
  DrawnBy <- MCDrawnBy
  Data <- MCData
  Trap = Trap
  Disqualified = Disqualified
  RunError = RunError
  EvalError = EvalError
  NoExpr = NoExpr
  NoPlan = NoPlan
  U32Max = 15
  N = 1
  Behaviours <- FewBehaviours
  Exprs <- FewExprs
  ProposedBy <- FewProposed
  Trials = 2
  Factor = 2
  Slack = 1
INVARIANT RefutedNeverShips
CHECK_DEADLOCK FALSE
