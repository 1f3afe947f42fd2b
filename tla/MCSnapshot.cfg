CONSTANTS
  f1 = f1
  f2 = f2
  x = x
  y = y
  Absent = Absent
  Missing = Missing
  Repo = Repo
  Files = {f1, f2}
  Blobs = {x, y}
  Commits <- MCCommits
  MaxChanges = 3
SPECIFICATION MCSpec
INVARIANTS IndexOfOneMoment CheckoutOfOneMoment NothingInferred
CHECK_DEADLOCK FALSE
