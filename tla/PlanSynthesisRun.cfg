\* A document of two methods: the order of treatment, prior plans, the trials, the end.
\* The counter has two bits, and Trials + Slack wraps to zero.
SPECIFICATION FairSpec
CONSTANTS
  w0 = w0
  w1 = w1
  w2 = w2
  a = a
  b = b
  Worlds <- MCWorlds
  Emptied <- MCEmptied
  DrawnBy <- MCDrawnBy
  Data <- MCData
  Trap = Trap
  Disqualified = Disqualified
  RunError = RunError
  EvalError = EvalError
  NoExpr = NoExpr
  NoPlan = NoPlan
  U32Max = 3
  N = 2
  Behaviours <- FewBehaviours
  Exprs <- FewExprs
  ProposedBy <- FewProposed
  Trials = 2
  Factor = 2
  Slack = 2
INVARIANTS TypeOK PlanBacked NoMismatchShipped DiscoveryGate GivenUpForSkips
PROPERTIES OnlyPendingViews Completes ImplementsContract
CHECK_DEADLOCK FALSE
