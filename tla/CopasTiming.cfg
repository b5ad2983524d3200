CONSTANTS
  v = v
  c1 = c1
  c2 = c2
  t = t
  Server <- MCServer
  Client <- One
  Port <- OnePort
  Outgoing = {}
  Thread = {t}
  Reads <- DuplexReads
  Writes <- DuplexWrites
  FdSetSize = 1
  WatchDog = 0
  MaxData = 1
  HasTimeout = TRUE
  SelectMayFail = FALSE
  NIL = NIL
SPECIFICATION MCSpec
PROPERTIES WatchdogInTime Served
