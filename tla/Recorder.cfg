SPECIFICATION FairSpec
CONSTANTS
  Cameras = {c1, c2}
  MaxChanges = 2
  MaxFaults = 2
INVARIANTS
  TableTellsTruth
  LeftoversAreLate
PROPERTIES
  Follows
\* The process ends after stop().
CHECK_DEADLOCK FALSE
