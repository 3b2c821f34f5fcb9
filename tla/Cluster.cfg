CONSTANTS
  Policy = "best-effort"
  MaxInitdb = 2
SPECIFICATION Spec
INVARIANTS TypeOK SplitBrainIsUnseen DataSurvives
