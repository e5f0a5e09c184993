SPECIFICATION FairSpec
CONSTANTS
  d1 = d1
  d2 = d2
  root = root
  Dirs = {d1, d2}
  InitDirs = {d1, d2}
  ModDir = d1
  Outs <- TwoOuts
  GoAdapter = TRUE
  FirstRun = 0
  Fires <- OneFire
  Absent = Absent
  MaxEdits = 3
  MaxRestarts = 0
  Env = {"modEdit", "testEdit", "badSource"}
INVARIANTS
  CoherentWhenQuiet
PROPERTIES
  Converges
CHECK_DEADLOCK FALSE
