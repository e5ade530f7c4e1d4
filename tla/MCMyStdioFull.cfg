\* Full buffering.
CONSTANTS
  SIZE = 4
  Flags = {3}
  Chunks <- TheChunks
  Old <- OldContent
  MaxWrites = 4
SPECIFICATION StdioSpec
INVARIANT FullBuffering
\* The program ends.
CHECK_DEADLOCK FALSE
