\* Lines within a read, longer than one, and one that overruns the buffer.
CONSTANTS
  Absent = Absent
  Lengths = {1, 3, 4}
  ReadSize = 2
  BufCap = 4
  MaxLines = 4
  MaxResets = 2
  SlowGame = TRUE
SPECIFICATION FairTail
INVARIANTS LinesWholeInOrder
PROPERTIES LinesArrive
CHECK_DEADLOCK FALSE
