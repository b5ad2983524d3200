SPECIFICATION MCSpec
CONSTANTS
  MaxIndexRK = 2
  FieldsPerFlush = 2
  MaxArgC = 2
  StackSize = 60
  Programs <- MCPrograms
  Texts <- MCTexts
  Protos <- MCProtos
  Files <- MCFiles
  IntSize = 4
  NumberSize = 8
  InstructionSize = 4
  Thread = {main, co}
  Main = main
  MaxC = 4
  Slack = 1
  BasicCI = 3
  MaxCI = 4
  MaxOpen = 1
  MaxFrames = 2
  string = string
  object = object
  Ints = {1, 2, 3}
  Objs = {string, object}
  Strings = {string}
  Value = {v}
  NIL = NIL
  NONE = NONE
  Hashes <- MCHashes
  MaxArray = 2
  MaxInt = 3
  Element = {1, 2, 3}
  MaxLen = 6
  Orders <- MCOrders
  BufferSize = 3
  Limit = 3
  Sizes = {1, 2, 4, 5}
  MaxAdded = 14
  Values = {one, other}
  MaxRef = 3
INVARIANTS RunsAsWritten CodeAndFramesSound TokensAsWritten LoadsWhatWasDumped InStep TablesSound AuxSound
PROPERTIES UnwindsToInnermost 
CHECK_DEADLOCK FALSE
