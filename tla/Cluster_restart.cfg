CONSTANTS
  Policy = "require-switchover"
  MaxInitdb = 1
SPECIFICATION Spec
INVARIANT RestartNeverSplits
