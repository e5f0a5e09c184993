SPECIFICATION Spec
CONSTANTS
  d1 = d1
  d2 = d2
  root = root
  Dirs = {d1, d2}
  InitDirs = {d1}
  ModDir = root
  Outs <- OneOut
  GoAdapter = TRUE
  FirstRun = 0
  Fires <- OneFire
  Absent = Absent
  MaxEdits = 3
  MaxRestarts = 1
  Env = {"modEdit", "dirNew", "dirGone", "rename", "badSource", "interrupt", "overflow", "earlyEdit"}
INVARIANTS
  WatchesCurrent
  NoTornWhenQuiet
CHECK_DEADLOCK FALSE
