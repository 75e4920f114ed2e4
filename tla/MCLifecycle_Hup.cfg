CONSTANTS
  d1 = d1
  d2 = d2
  none = none
  Daemons = {d1, d2}
  NoDaemon = none
  Signals <- MCAllSignals
  MaxKills = 2
SPECIFICATION Spec
PROPERTIES
  StopSignalStops
