\* squid is a batch tool: it stops when done or on an error.
CONSTANTS
  NoNumV = NoNumV
  NoNum = NoNumV
  Dirs <- MCDirs
  Header = 2
  Slot = 2
  Cap = 4
  BatchBytes = 6
  SortCheck = TRUE
  ShortReads = FALSE
  ReadErrors = TRUE
SPECIFICATION Spec
INVARIANTS TypeOK SlotsAligned SlotsInOrder
PROPERTIES Terminates
CHECK_DEADLOCK FALSE
