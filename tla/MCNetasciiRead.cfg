SPECIFICATION ReaderSpec
CONSTANTS
  MaxLength = 5
  Size = 3
  MaxAgain = 2
INVARIANT Exact
