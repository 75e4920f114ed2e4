CONSTANTS
  app1 = app1
  probe1 = probe1
  cli1 = cli1
  AppConns = {}
  ProbeConns = {}
  CliConns = {cli1}
  CliCmds <- MCAddCmds
  Paths <- MCPaths
  Existing <- MCExisting
  Events <- MCEvents
  MaxClientId = 2
  MaxWd = 3
  MaxListLen = 3
  MaxCalls = 3
  MaxEvents = 0
SPECIFICATION Spec
INVARIANTS
  AddedWatchPersists
