SPECIFICATION FairSpec
CONSTANTS
  Commands = {p1, p2}
  NumRuns = 2
  TestRuns <- MCTestRuns
  Options <- MCOptions
  SkipExisting = TRUE
  MaxUnlocked = 1
  MaxFaults = 2
INVARIANTS
  
  OneCollector
PROPERTIES
  CheckpointKeeps
  
