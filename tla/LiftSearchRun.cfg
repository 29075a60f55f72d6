SPECIFICATION FairSpec
CONSTANTS
  k1 = k1  k2 = k2  k3 = k3
  Keys = {k1, k2, k3}
  Archetypes = 2
  MaxAttempts = 3
  Methods <- MCMethods
  RunOf <- MCRunOf
  NoLift = NoLift
CHECK_DEADLOCK FALSE
PROPERTY Ends
INVARIANTS NoRunTwice TrialsLikeLift NothingMissed
