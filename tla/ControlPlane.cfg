SPECIFICATION Spec
CONSTANTS
  Cameras = {c1,c2}
  Commands <- MCCommands
  ResultCap = 2
  MaxTasks = 2
  MaxFaults = 1
  MaxRestarts = 1
SYMMETRY MCSymmetry
INVARIANTS
  ExecutedInFilingOrder
  ResultsTruthful
PROPERTIES
  DeliversTasks
