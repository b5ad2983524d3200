SPECIFICATION MCSpec
CONSTANTS
  Char = {"a", "b"}
  UMax = 2
  MaxOff = 2
  MaxBack = 12
  Patterns <- MCPatterns
  Subjects <- MCSubjects
  Functions <- MCFunctions
  Falsy <- MCFalsy
  Order <- MCOrder
  Alpha = {"a", "b"}
  Digit = {"0", "1", "2"}
  MaxCaptures = 2
  Calls <- MCCalls
  Filterings <- MCFilterings
  Handles = {h1, h2}
  Streams = {f1, f2}
  MaxIterators = 1
  PackNames <- MCPackNames
  Root <- MCRoot
  Worlds <- MCWorlds
  MaxObjects = 3
  MaxFailures = 1
  LastYear = 2037
  TimesOfDay = {86399}
  Zones <- MCZones
INVARIANTS  StringsAsAsked FiltersKeepText ModulesLoadOnce DatesInvert
PROPERTIES MatchEnds StreamsOwned
CHECK_DEADLOCK FALSE
