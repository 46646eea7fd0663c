\* A message of four bytes; the failures while the connection works reach the
\* bound of RowBounded before the connection dies.
CONSTANTS
  DwLen = 4
  Word <- MCWord
  MaxFails = 9
SPECIFICATION FairSendSpec
INVARIANTS InMessage NothingSkipped ExactUnlessGaveUp RowBounded
PROPERTY DeadPeerReturns
