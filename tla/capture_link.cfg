SPECIFICATION FairSpec
CONSTANTS
  Frames <- MCFrames
  Senders <- MCSenders
  Syncing <- MCSyncing
  MaxSession = 2
  MaxSync = 2
  ControlCap = 1
  SyncCap = 1
  StreamCap = 1
INVARIANTS
  TypeOK
  NoOneWayPreview
  SyncInOrder
  ReliablePreviewsInOrder
PROPERTIES
  PreviewsNeverGoBack
  SyncArrives
  LatestPreviewArrives
CHECK_DEADLOCK FALSE
