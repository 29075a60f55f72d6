SPECIFICATION Spec
CONSTANTS
  Functions <- WithOutward
  MaxSteps = 24
INVARIANTS TypeOK NestingMirrored HeightIsStatic OnlyHonestTraps OnlyOutwardBranchesPanic
PROPERTIES LeftAtTheEnd Ends
CHECK_DEADLOCK FALSE
