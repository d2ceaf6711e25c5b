SPECIFICATION Spec
CONSTANTS
  Requests = {s1}
  MaxAdapters = 1
  Pieces = 0
  Plans <- MCSerial
PROPERTIES PassedOpened
CHECK_DEADLOCK FALSE
