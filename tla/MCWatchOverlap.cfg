SPECIFICATION FairSpec
CONSTANTS
  d1 = d1
  d2 = d2
  root = root
  Dirs = {d1}
  InitDirs = {d1}
  ModDir = d1
  Outs <- OneOut
  GoAdapter = TRUE
  FirstRun = 0
  Fires <- TwoFires
  Absent = Absent
  MaxEdits = 2
  MaxRestarts = 1
  Env = {"modEdit", "badSource", "rename", "diskFail", "interrupt"}
INVARIANTS
  OnlyGoodSource
  AdaptersScoped
PROPERTIES
  Settles
CHECK_DEADLOCK FALSE
