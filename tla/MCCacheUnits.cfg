SPECIFICATION UnitSpec
CONSTANTS
  Entry = {1, 2}
  Lines = 3
  Beats = 4
INVARIANT WriteBacksRight
PROPERTY LinesFound
