CONSTANTS
  app1 = app1
  probe1 = probe1
  cli1 = cli1
  AppConns = {app1}
  ProbeConns = {probe1}
  CliConns = {cli1}
  CliCmds <- MCPingCmds
  Paths <- MCPaths
  Existing <- MCExisting
  Events <- MCEvents
  MaxClientId = 3
  MaxWd = 3
  MaxListLen = 3
  MaxCalls = 2
  MaxEvents = 1
SPECIFICATION Spec
INVARIANTS
  TypeOK
  SubscribersAreLive
  CliGetsOwnAnswer
PROPERTIES
  ClosedConnectionReleasesWatches
