\* Two clients on two descriptors and messages of two pieces; then a second
\* message, a socket of the program's own or a command registered at any time.
CONSTANTS
  s1 = s1
  n1 = n1
  Clients = {1, 2}
  Strangers = {s1}
  None = None
  Names = {n1}
  MaxFd = 2
  Chunks = 2
  Room = 1
  MaxFails = 1
  MaxMsgs = 2
  MaxTyped = 1
  MaxRuns = 1
SPECIFICATION FairSpec
CONSTRAINT OneExtra
INVARIANTS
  RepliesGoHome
  MessagesWhole
  CalledStays
PROPERTIES
  QuietAfterStop
  StopReturns
