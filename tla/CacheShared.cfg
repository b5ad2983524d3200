SPECIFICATION MCSpec
CONSTANTS
  Value = {x1}
  Item = {y1}
  MaxQueue = 1
  Node <- MCSingle
  Store = {s1}
  Data = {d1}
  MaxVersion = 1
  MaxTime = 2
  Fault = {}
  ERROR = ERROR
  TORN = TORN
  root = root
  page1 = page1
  page2 = page2
  Instance = {r1, r2}
  Page = {root}
  Field = {f}
  Raw = {a, b}
  Proto <- MCRoot
  Wrong = {}
  MaxEdits = 2
  NIL = NIL
INVARIANT ShownIsStored
CHECK_DEADLOCK FALSE
