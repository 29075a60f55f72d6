SPECIFICATION Recognize
CONSTANTS
  Byte = {0, 1}
  NoKey = NoKey
  Calldata <- ThreeBytes
  KeyLists <- UpToThree
  Baseline = 3
  Confirming = 1
  MaxKeys = 2
  Octet = {0, 1}
  Width = 2
  Heights <- MCHeights
  Default <- MCDefault
  Lists <- MCLists
  Templates <- MCTemplates
  ProbeN = 2
  Trials = 2
  MaxAttempts = 3
  StrayKeys <- MCStrayKeys
CHECK_DEADLOCK FALSE
INVARIANTS Reproduces Identifies PinnedBase
PROPERTY PlainListsKept
