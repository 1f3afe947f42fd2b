CONSTANTS
  PromptTexts = {"p"}
  Unmade = Unmade
  NPrompts = 2
  MaxEvents = 3
  MaxTime = 2
  MaxLost = 1
  Delay = 1
  Exact = 2
  Skew = 1
  Idle = 2
  None = None
  Unset = Unset
  b1 = b1
  b2 = b2
  Builds = {b1, b2}
  VersionOf <- MCVersionOf
  Modes = {"cli"}
  MaxInstalls = 2
  MaxEpisodes = 2
  JoinedTurns <- MCJoinedTurns
  Lines = {"line"}
  OwnerFiles <- MCOwnerFiles
  Sessions = {1, 2}
  RowTexts = {"x"}
  Odd = "odd"
  NoPlace = NoPlace
  Tolerance = 0
  MaxAsked = 2
  MaxEntries = 5
  MaxMoment = 1
  MaxRowFaults = 1
SPECIFICATION CaptureSpec
INVARIANTS JoinedToOwn LinkOfThisTurn TrustedIsTested VerdictStands TurnObserved
CHECK_DEADLOCK FALSE
