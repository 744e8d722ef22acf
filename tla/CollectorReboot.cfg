SPECIFICATION Spec
CONSTANTS
  Commands = {p1}
  NumRuns = 1
  TestRuns <- MCTestRuns
  Options <- MCUnit
  SkipExisting = TRUE
  MaxUnlocked = 0
  MaxFaults = 1
PROPERTY ResumeAfterReboot
