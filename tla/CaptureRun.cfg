SPECIFICATION FairSpec
CONSTANTS
  Pairs = {"nvr:80"}
  Repeat = 3
  Interval = 2
  MaxAttempts = 2
  MaxClock = 4
  MaxFaults = 1
INVARIANTS
  LogTellsCapture
  ZeroIsComplete
PROPERTIES
  CaptureEnds
\* All attempts and ticks may be used up.
CHECK_DEADLOCK FALSE
