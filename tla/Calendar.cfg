SPECIFICATION CalendarSpec
CONSTANTS
  kSecondsPerDay = 2
  FirstYear = 1900
  LastYear = 2500
INVARIANTS
  UtcRoundTrip
PROPERTIES
  CalendarTicks
CHECK_DEADLOCK FALSE
