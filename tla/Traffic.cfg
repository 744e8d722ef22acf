SPECIFICATION MCSpec
CONSTANTS
  Cameras = {"camera"}
  Registered = {"camera"}
  Interval = 3
  Timeout = 1
  Ttl = 9
  Limit = 2
  MaxUnwritten = 1
  Names = {"cam-2", "cam..2"}
  Unencodable = {"cam..2"}
  Outside = {"8.8.8.8"}
  TcpResults = {"open"}
  UdpResults = {"sent", "error"}
  ScanConfigs <- MCScanConfigs
  MaxTries = 3
  MaxLives = 2
  TrafficOptions <- MCTrafficOptions
  Scenarios <- MCScenarios
  Slow = {"low-and-slow"}
  BulkOptions <- MCBulkOptions
  MaxBulkFaults = 2
INVARIANTS
  
  ScanAccounted
  StopTellsTruth
  TrafficAccounted
  
PROPERTIES
  OverviewIsRight
  ScanProgresses
  
\* The scan and the scenario end.
CHECK_DEADLOCK FALSE
