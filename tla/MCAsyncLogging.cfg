\* Four buffers of one message; every second of four has its own offset to UTC.
SPECIFICATION FairSpec
CONSTANTS
  Own = 1
  Foreign <- Others
  Depth = 2
  Refusals = {1, 2, 3}
  DaySeconds = 2
  ZoneOffset <- Zone
  StartTime = 3
  MaxTime = 6
  rollSize = 2
  fileFlushInterval = 0
  checkEveryN = 2
  keepLogDate = 0
  MaxBack = 1
  MaxShort = 1
  BufferSize = 2
  MaxBuffers = 2
  MaxMsgs = 4
INVARIANTS
  AsyncAssertions
  LoggedOnce
PROPERTIES
  EveryMessageWritten
CHECK_DEADLOCK FALSE
