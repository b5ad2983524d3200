SPECIFICATION MCSpec
CONSTANTS
  Char = {"a", "b"}
  UMax = 2
  MaxOff = 2
  MaxBack = 12
  Patterns = {}
  Subjects = {}
  Functions <- MCFunctions
  Falsy <- MCFalsy
  Order <- MCOrder
  Alpha = {"a", "b"}
  Digit = {"0", "1", "2"}
  MaxCaptures = 2
  Calls = {}
  Filterings = {}
  Handles = {}
  Streams = {}
  MaxIterators = 0
  PackNames <- MCPackNames
  Root <- MCRoot
  Worlds = {}
  MaxObjects = 3
  MaxFailures = 1
  LastYear = 2037
  TimesOfDay = {86399}
  Zones <- MCZones
INVARIANT DatesAlwaysInvert
CHECK_DEADLOCK FALSE
