\* Two connections, two ports and a restart: take-overs, stale events and
\* descriptor numbers that are given out again; fair runs, no symmetry.
CONSTANTS
  c1 = c1
  c2 = c2
  Clients = {c1, c2}
  None = None
  Epoll = Epoll
  MIN_TELSVR_PORT = 2500
  MAX_TELSVR_PORT = 2502
  wPort = 2500
  MaxFd = 6
  BACK_LOG_SIZE = 2
  MaxInput = 1
  MaxFails = 1
  MaxRuns = 2
SPECIFICATION FairSpec
INVARIANTS
  NoLeak
  Registered
  RecvNeverBlocks
PROPERTIES
  DropsOnlyFor
  QueuedIsAccepted
  GoneIsNoticed
