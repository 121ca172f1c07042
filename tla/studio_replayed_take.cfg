SPECIFICATION Spec
CONSTANTS
  Take = {t1, t2}
  NoTake = NoTake
  Corrupt = Corrupt
  Caller = {k1}
  MaxCommands = 3
  MaxFaults = 1
  MaxErrors = 0
  MaxTools = 0
INVARIANTS
  StoppedTakeStaysStopped
CHECK_DEADLOCK FALSE
