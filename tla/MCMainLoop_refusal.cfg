CONSTANTS
  Clients = {c1, c2}
  Configs <- DefaultConfig
  MaxStarts = 2
SPECIFICATION Spec
PROPERTY RefusalStopsNothing
