CONSTANTS
  None = None
  Absent = Absent
  q1 = q1
  q2 = q2
  Scans = {"sa", "sb"}
  Built <- MCBuilt
  Dirs = {"d1"}
  Envs <- MCEnvs
  Configs <- MCConfigs
  Size <- MCSize
  Threshold = 15
  StaleAfter = 1
  MaxTime = 2
  MaxCommits = 1
  MaxRuns = 2
  MaxEdits = 1
  MaxFaults = 1
  NSessions = 2
  NUses = 2
  Questions = {q1, q2}
  MaxClock = 2
  Slack = 1
  MinSearches = 1
  MaxStarts = 1
  MaxLost = 1
SPECIFICATION GraphSpec
SYMMETRY Alike
INVARIANTS FunnelRight OkIsEarned 
CHECK_DEADLOCK FALSE
