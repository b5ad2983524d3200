CONSTANTS
  v = v
  c1 = c1
  c2 = c2
  t = t
  Server <- MCServer
  Client <- Two
  Port <- TwoPort
  Outgoing = {c2}
  Thread = {t}
  Reads <- RelayReads
  Writes <- RelayWrites
  FdSetSize = 2
  WatchDog = 0
  MaxData = 1
  HasTimeout = TRUE
  SelectMayFail = TRUE
  NIL = NIL
SPECIFICATION RelaySpec
INVARIANTS Consistent Watching FinishedIsClosed
PROPERTIES ServerKeepsPlace
