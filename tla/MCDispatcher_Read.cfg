CONSTANTS
  CharCode <- MCCharCode
  Paths <- MCPaths
  Existing <- MCPaths
  ConfigWatches <- MCConfigWatches
  Events <- MCEvents
  Kinds <- MCKinds
  Readers <- MCAllClients
  MaxClientId = 2
  MaxWd = 2
  MaxListLen = 2
  SockCap = 1
  MaxChanges = 1
  CookieBits = 16
SPECIFICATION Spec
PROPERTIES
  ReadYieldsRecords
