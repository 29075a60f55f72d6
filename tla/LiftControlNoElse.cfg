SPECIFICATION Spec
CONSTANTS
  Functions <- Fallen
  MaxSteps = 24
PROPERTY LeftAtTheEnd
CHECK_DEADLOCK FALSE
