CONSTANTS
  Clients = {c1}
  Configs <- DefaultConfig
  MaxStarts = 2
SPECIFICATION FairSpec
PROPERTIES SignalTerminates HandlersReturn CrashRestarts
