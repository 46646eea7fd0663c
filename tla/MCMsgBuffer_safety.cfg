\* Two threads, messages of two lengths and a restart with messages left in
\* the queue: appends that fit and appends that roll over interleave with the
\* swap of the log thread, and with three buffers queued the overrun rule applies.
CONSTANTS
  Thread = {t1, t2}
  Buffer = {b1, b2, b3, b4, b5, b6}
  NULL = NULL
  Lens = {1, 2}
  BufSize = 3
  MaxPending = 2
  MaxMsgs = 3
  MaxRuns = 2
SPECIFICATION Spec
SYMMETRY Symmetry
INVARIANTS
  OneOwner
  NoLeakNoDangling
  LoopAssertions
  Accounted
PROPERTIES
  DropsOldest
  ImplementsLossyLog
