SPECIFICATION FairSpec
CONSTANTS
  Take = {t1}
  NoTake = NoTake
  Corrupt = Corrupt
  Caller = {k1}
  MaxCommands = 2
  MaxFaults = 2
  MaxErrors = 1
  MaxTools = 1
PROPERTIES
  EventuallyApplied
CHECK_DEADLOCK FALSE
