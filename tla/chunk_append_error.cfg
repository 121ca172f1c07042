SPECIFICATION Spec
CONSTANTS
  Id = {c1, c2}
  Data = {x, y}
  Absent = Absent
  Corrupt = Corrupt
  Syncer = {s1}
  MaxFaults = 1
  MaxErrors = 1
  MaxReopens = 0
SYMMETRY SyncSymmetry
INVARIANT
  StoresAlwaysReopen
CHECK_DEADLOCK FALSE
