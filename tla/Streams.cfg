SPECIFICATION MCSpec
CONSTANTS
  Size = 4
  From <- MCFrom
  To <- MCTo
  StepSize = 2
  MaxRoom = 3
  NIL = NIL
  MaxText = 3
  BufSize = 2
  Count = {0, 2}
  Calls <- MCCalls
INVARIANTS SendSound WaitsOnlyForNetwork
PROPERTIES ImplementsByteReader BothReturn
