CONSTANTS
  None = None
  Nil = Nil
  Unsealed = Unsealed
  Unwritten = Unwritten
  Never = Never
  Torn = Torn
  Absent = Absent
  a = a
  x = x
  y = y
  c1 = c1
  c2 = c2
  c3 = c3
  p = p
  n = n
  q = q
  r1 = r1
  r2 = r2
  l1 = l1
  l2 = l2
  Registrars = {r1, r2}
  Launchers = {l1, l2}
  Nothing = Nothing
  MaxFaults = 2
  MaxMoves = 1
  Path = {a}
  Text = {x, y}
  Commits = {c1, c2, c3}
  TreeOf <- MCTreeOf
  Before <- MCBefore
  MaxDisturbs = 2
  MaxWrites = 1
  N = 2
  Sample = 1
  MaxSheets = 2
  MaxSaves = 2
  MaxAuditFaults = 1
  Passes = {1, 2}
  Streak = 2
  StaleAfter = 0
  MaxStarts = 2
  MaxRuns = 2
  Tasks <- MCTasks
  Scripts <- MCScripts
  Cap = 2
  Ceiling = 5
  MaxPipe = 1
  MaxPlanned = 4
  MaxAside = 1
  MaxRebuilds = 1
  MaxTwinFaults = 1
  MaxTime = 1
SPECIFICATION ReplaySpec
INVARIANTS Restorable AdmittedAttributed StartOnly CeilingKept SightIsEarned AdmittedOnLabels OkHidesNothing OnePredicate
CHECK_DEADLOCK FALSE
