CONSTANTS
  Clients = {c1, c2}
  Configs <- AllConfigs
  MaxStarts = 2
SYMMETRY ClientSymmetry
SPECIFICATION Spec
INVARIANTS TypeOK AtMostOnePostgres RestartGuard NoPostgresLeftBehind FlagsNeverStick MaintenanceFlagFollows
PROPERTY ImplementsSupervision
