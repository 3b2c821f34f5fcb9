CONSTANTS
  Triggers = {"scheduler", "request"}
  Scheduler = "scheduler"
  Retain = 3
  MaxTime = 4
  MaxKills = 1
SPECIFICATION Spec
INVARIANTS TypeOK RunningBackupKept PruneIsThorough AttemptHonest
PROPERTIES PrunedIsSuperseded ImplementsBackupShelf
