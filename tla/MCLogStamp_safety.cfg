SPECIFICATION Spec
CONSTANTS
  Hour = 2
  Day = 9
  Server = {t1}
  Logs = {l1}
  ZoneFiles <- Files
  SetOffsets <- EastAndWest
  StartTime = 1
  MaxTime = 14
  MaxBack = 2
  MaxSets = 1
INVARIANTS
  StampCorrect
  RoundTrip
CHECK_DEADLOCK FALSE
