\* Five tasks through two queues of one place each.
CONSTANTS
  producter = producter
  consumer = consumer
  saver = saver
  MaxCap = 1
  MaxTasks = 5
  Nobody = Nobody
SPECIFICATION PipelineFairSpec
INVARIANTS NothingLostInOrder
PROPERTY EverythingSaved
\* The process may exit.
CHECK_DEADLOCK FALSE
