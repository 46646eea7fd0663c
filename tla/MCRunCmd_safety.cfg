\* Every line of up to six characters; the longest does not let the index end,
\* and three words are one more than the array has cells.
CONSTANTS
  a = a
  Letter = {a}
  Digit = {one}
  Naught = naught
  Sign = {minus}
  Blanks = {blank}
  Apos = Apos
  Quot = Quot
  Nul = Nul
  Bye <- MCBye
  TelHelp <- MCTelHelp
  Table <- MCTable
  Wrap = 7
  MaxParas = 2
  MaxLine = 6
SPECIFICATION FairSpec
INVARIANTS ParamsMatch VerdictMatches
PROPERTY ScanEnds
