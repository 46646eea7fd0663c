\* Fair runs: no symmetry, one thread; the second message rolls over.
CONSTANTS
  Thread = {t1}
  Buffer = {b1, b2, b3, b4, b5}
  NULL = NULL
  Lens = {1}
  BufSize = 2
  MaxPending = 2
  MaxMsgs = 2
  MaxRuns = 1
SPECIFICATION FairSpec
PROPERTIES
  StopCompletes
  EveryMessageFlushed
