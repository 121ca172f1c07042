SPECIFICATION FairSpec
CONSTANTS
  Id = {c1, c2}
  Data = {x}
  Absent = Absent
  Corrupt = Corrupt
  Syncer = {s1, s2}
  MaxFaults = 2
  MaxErrors = 0
  MaxReopens = 0
PROPERTIES
  ImplementsReplication
  EventuallyAcked
CHECK_DEADLOCK FALSE
