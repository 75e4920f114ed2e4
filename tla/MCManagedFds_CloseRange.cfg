CONSTANTS
  t1 = t1
  t2 = t2
  Threads = {t1, t2}
  Fds <- MCFds
  MaxObjs = 4
SPECIFICATION SpecClosingRange
INVARIANTS
  ManagedAreOwnSockets
