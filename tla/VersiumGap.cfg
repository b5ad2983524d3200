SPECIFICATION MCSpec
CONSTANTS
  Value = {x1}
  Item = {y1}
  MaxQueue = 1
  Node <- MCSingle
  Store = {s1}
  Data = {d1}
  MaxVersion = 4
  MaxTime = 2
  Fault = {}
  ERROR = ERROR
  TORN = TORN
  root = root
  page1 = page1
  page2 = page2
  Instance = {r1}
  Page = {root}
  Field = {f}
  Raw = {a}
  Proto <- MCRoot
  Wrong = {}
  MaxEdits = 1
  NIL = NIL
INVARIANT FollowedByPrevious
CHECK_DEADLOCK FALSE
