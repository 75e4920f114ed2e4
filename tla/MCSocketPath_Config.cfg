CONSTANTS
  unset = unset
  Unset = unset
  SockVals <- MCSockVals
  RuntimeDirs <- MCRuntimeDirs
SPECIFICATION Spec
INVARIANTS
  ConfigSocketHonoured
