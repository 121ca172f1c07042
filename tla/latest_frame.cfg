SPECIFICATION FairSpec
CONSTANTS
  Threads = {t1, t2}
  Worker = w
  MaxFrames = 2
  DetectionInterval = 2
  MaximumMissed = 1
PROPERTIES
  PendingIsTaken
CHECK_DEADLOCK FALSE
