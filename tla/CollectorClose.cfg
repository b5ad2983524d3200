SPECIFICATION Spec
CONSTANTS
  main = main globals = globals table = table weak = weak udata = udata other = other
  s1 = s1 s2 = s2 s3 = s3 coro = coro clos = clos up = up
  Obj <- MCObj Kind <- MCKind Main = main Globals = globals Slots = {1} Mode <- MCMode
  HasGC = {udata, other} Hash <- MCHash MinSize = 1 StepsAtClose = TRUE Worlds <- CloseWorlds Keys <- MCKeys MaxEntries = 1 NIL = NIL INT = INT
INVARIANT NoDangling
CHECK_DEADLOCK FALSE
