\* Four lines, texts of one to three bytes.
CONSTANTS
  BufSize = 10
  MaxText = 3
  MaxRequests = 4
SPECIFICATION SessionFairSpec
INVARIANTS Answers NothingLeftBehind RoomForZero
PROPERTY EveryLineAnswered
\* The connection ends.
CHECK_DEADLOCK FALSE
