SPECIFICATION FairSpec
CONSTANTS
  r1 = r1
  r2 = r2
  r3 = r3
  n1 = n1
  n2 = n2
  Requests = {r1, r2}
  Names = {n1, n2}
  MaxChanges = 1
  MaxKills = 1
INVARIANTS
  SettingsTellTruth
  TasksAccounted

  
