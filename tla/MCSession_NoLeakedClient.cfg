CONSTANTS
  app1 = app1
  probe1 = probe1
  cli1 = cli1
  AppConns = {app1}
  ProbeConns = {probe1}
  CliConns = {}
  CliCmds <- MCPingCmds
  Paths <- MCPaths
  Existing <- MCExisting
  Events <- MCEvents
  MaxClientId = 2
  MaxWd = 3
  MaxListLen = 3
  MaxCalls = 3
  MaxEvents = 1
SPECIFICATION Spec
INVARIANTS
  NoLeakedClient
