CONSTANTS
  CharCode <- MCCharCode
  Paths <- MCUnpolledPaths
  Existing <- MCUnpolledPaths
  ConfigWatches <- MCConfigWatches
  Events <- MCCreateBit
  Kinds <- MCCreate
  Readers <- MCAllClients
  MaxClientId = 1
  MaxWd = 1
  MaxListLen = 1
  SockCap = 1
  MaxChanges = 1
  CookieBits = 16
SPECIFICATION Spec
PROPERTIES
  WatchedChangesObserved
