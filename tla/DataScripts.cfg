SPECIFICATION ScriptsSpec
CONSTANTS
  FlowSet <- MCFlows
  Width = 2
  MaxFlows = 3
  EventSet <- MCEvents
  MaxEvents = 2
  DefaultLabel = "normal"
  Runs = {"base", "scan"}
  TestRuns = {"scan"}
  Addresses = {"camera"}
  Cases <- MCCases
  Gates <- MCGates
  Probabilities = {160, 197}
  Thresholds = {160, 196}
  MaxRows = 2
INVARIANTS
  RowsTellLog
  
  SequencesAsPlanned
  SplitIsClean
  
  
\* The scripts end.
CHECK_DEADLOCK FALSE
