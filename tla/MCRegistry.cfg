CONSTANTS
  Paths <- MCPaths
  Events <- MCEvents
  MaxClientId = 3
  MaxWd = 3
  MaxListLen = 2
INIT RegInit
NEXT RegNextOrStop
INVARIANTS
  RegTypeOK
  SubscriptionSymmetry
  PathIndexExact
PROPERTIES
  RegistryRefinement
