CONSTANTS
  d1 = d1
  d2 = d2
  none = none
  Daemons = {d1, d2}
  NoDaemon = none
  Signals <- MCStopSignals
  MaxKills = 3
SPECIFICATION Spec
INVARIANTS
  TypeOK
PROPERTIES
  StopSignalStops
