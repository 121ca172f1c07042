SPECIFICATION Spec
CONSTANTS
  Take = {t1, t2}
  NoTake = NoTake
  Corrupt = Corrupt
  Caller = {k1, k2}
  MaxCommands = 3
  MaxFaults = 2
  MaxErrors = 0
  MaxTools = 0
SYMMETRY ControlSymmetry
INVARIANTS
  TypeOK
  HistoryReopens
  DeliveredStays
  LifecycleFollowsStudio
  FramesBelongToTake
  AckedWereApplied
CHECK_DEADLOCK FALSE
