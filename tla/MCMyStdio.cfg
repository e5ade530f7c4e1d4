\* Line buffering and no buffering, up to four writes into four characters.
CONSTANTS
  SIZE = 4
  Flags = {1, 2}
  Chunks <- TheChunks
  Old <- OldContent
  MaxWrites = 4
SPECIFICATION StdioSpec
INVARIANTS Accounted Durable WholeLines
\* The program ends.
CHECK_DEADLOCK FALSE
