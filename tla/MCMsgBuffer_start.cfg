\* destory before the log thread has run its first instruction.
CONSTANTS
  Thread = {t1}
  Buffer = {b1, b2, b3, b4, b5, b6, b7}
  NULL = NULL
  Lens = {1}
  BufSize = 2
  MaxPending = 2
  MaxMsgs = 1
  MaxRuns = 1
SPECIFICATION Spec
SYMMETRY Symmetry
INVARIANT StartAssertion
