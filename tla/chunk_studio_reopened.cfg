SPECIFICATION Spec
CONSTANTS
  Id = {c1, c2}
  Data = {x, y}
  Absent = Absent
  Corrupt = Corrupt
  Syncer = {s1}
  MaxFaults = 0
  MaxErrors = 0
  MaxReopens = 1
SYMMETRY SyncSymmetry
INVARIANT
  IndexAlwaysCoversAcks
CHECK_DEADLOCK FALSE
