CONSTANTS
  CharCode <- MCCharCode
  Paths <- MCOnePath
  Existing <- MCOnePath
  ConfigWatches <- MCConfigWatches
  Events <- MCCreateBit
  Kinds <- MCCreate
  Readers <- MCSecondReads
  MaxClientId = 2
  MaxWd = 1
  MaxListLen = 1
  SockCap = 1
  MaxChanges = 2
  CookieBits = 16
SPECIFICATION Spec
PROPERTIES
  NoHeadOfLineBlocking
