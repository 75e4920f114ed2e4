CONSTANTS
  CharCode <- MCCharCode
  Paths <- MCRenamePaths
  Existing <- MCRenamePaths
  ConfigWatches <- MCConfigWatches
  Events <- MCRenameBits
  Kinds <- MCRenameKinds
  Readers <- MCAllClients
  MaxClientId = 1
  MaxWd = 1
  MaxListLen = 1
  SockCap = 1
  MaxChanges = 1
  CookieBits = 16
SPECIFICATION Spec
INVARIANTS
  RenameCookiesPair
