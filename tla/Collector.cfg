SPECIFICATION Spec
CONSTANTS
  main = main globals = globals table = table weak = weak udata = udata other = other
  s1 = s1 s2 = s2 s3 = s3 coro = coro clos = clos up = up
  Obj <- MCObj Kind <- MCKind Main = main Globals = globals Slots = {1} Mode <- MCMode
  HasGC = {udata} Hash <- MCHash MinSize = 1 StepsAtClose = FALSE Worlds <- MCWorlds Keys <- MCKeys MaxEntries = 1 NIL = NIL INT = INT
INVARIANT HeapSound
PROPERTIES FinalizersSound GarbageIsCollected
CHECK_DEADLOCK FALSE
