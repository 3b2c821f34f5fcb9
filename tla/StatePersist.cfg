CONSTANTS
  Writers = {"main", "backup"}
  Main = "main"
  MaxCount = 3
SPECIFICATION Spec
INVARIANTS FileNeverTorn FileCatchesUp
PROPERTY ImplementsSavedCounters
CHECK_DEADLOCK FALSE
