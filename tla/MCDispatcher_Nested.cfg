CONSTANTS
  CharCode <- MCCharCode
  Paths <- MCPaths
  Existing <- MCPaths
  ConfigWatches <- MCConfigWatches
  Events <- MCCreateBit
  Kinds <- MCCreate
  Readers <- MCAllClients
  MaxClientId = 2
  MaxWd = 2
  MaxListLen = 1
  SockCap = 1
  MaxChanges = 1
  CookieBits = 16
SPECIFICATION Spec
PROPERTIES
  RecursiveWatchSeesSubtree
