SPECIFICATION Spec
CONSTANTS
  Id = {c1, c2}
  Data = {x, y}
  Absent = Absent
  Corrupt = Corrupt
  Syncer = {s1, s2}
  MaxFaults = 2
  MaxErrors = 1
  MaxReopens = 1
SYMMETRY SyncSymmetry
INVARIANTS
  TypeOK
  AckedBytesDurable
  AckedIndexed
  JournalsReopen
  LocalFirst
  NoIdConflict
  ManifestHoldsBytes
CHECK_DEADLOCK FALSE
