\* All lines of up to four of eight characters; 6-bit integers, so that 9*9
\* and 32 leave the range.
CONSTANTS
  Alphabet = {"0", "2", "9", "-", "*", "/", "%", " "}
  MaxLine = 4
  MaxInt = 31
  NotSet = NotSet
SPECIFICATION LineSpec
INVARIANTS EndToEnd
PROPERTY LinesEnd
\* A line ends.
CHECK_DEADLOCK FALSE
