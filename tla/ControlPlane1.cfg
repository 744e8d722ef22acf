SPECIFICATION FairSpec
CONSTANTS
  Cameras = {c1}
  Commands <- MCOneCommand
  ResultCap = 2
  MaxTasks = 3
  MaxFaults = 2
  MaxRestarts = 1
INVARIANTS
  ControlInv
  LossBound
  JoinedStopIsClean
PROPERTIES
  EveryTaskReported
  NoTaskStranded
