SPECIFICATION MCSpec
CONSTANTS
  Value = {x1, x2, x3}
  Item = {y1, y2}
  MaxQueue = 2
  Node <- MCNode
  Store = {s1, s2}
  Data = {d1, d2}
  MaxVersion = 3
  MaxTime = 2
  Fault = {"open", "crash"}
  ERROR = ERROR
  TORN = TORN
  root = root
  page1 = page1
  page2 = page2
  Instance = {r1}
  Page = {root, page1, page2}
  Field = {f, g}
  Raw = {a, w}
  Proto <- MCProto
  Wrong = {w}
  MaxEdits = 2
  NIL = NIL
SYMMETRY Symmetry
INVARIANTS ReverseIsInverse  
PROPERTIES ImplementsFifoSet  
CHECK_DEADLOCK FALSE
