SPECIFICATION FairSpec
CONSTANTS
  Commands <- MCCommands
  MaxChanges = 2
  MaxFailures = 2
INVARIANTS
  StatusTellsTruth
  NothingLeftRunning
PROPERTIES
  Converges
\* The process ends after stop().
CHECK_DEADLOCK FALSE
