\* Lines that wrap once, take-overs in the middle of a line, every key.
CONSTANTS
  Alnum = {a}
  Mark = {m}
  Blank = Blank
  Nul = Nul
  Wrap = 3
  MaxTyped = 4
SPECIFICATION Spec
INVARIANTS
  RunsOwnKeys
  CleanLineRuns
