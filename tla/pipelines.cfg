SPECIFICATION PinnedSpec
CONSTANTS
  t1 = t1
  t2 = t2
  w = w
  s1 = s1
  s2 = s2
  l1 = l1
  l2 = l2
  LFp <- LFvalue
  FSp <- FSvalue
  TRp <- TRvalue
  TNp <- TNvalue
  FCp <- FCvalue
  SAp <- SAvalue
  RCp <- RCvalue
  LBp <- LBvalue
  OCp <- OCvalue
  PKp <- PKvalue
  ISp <- ISvalue
  CSp <- CSvalue
  Calls <- CallsValue
  Follow <- FollowValue
  Restart <- RestartValue
INVARIANTS
  TypesOK
  NobodyOversleeps
  RoiIsConfirmed
  ResultConforms
  BodyIsCurrent
  ExtrapolatesLastObservation
  ResumeIsExact
  SummaryNamesBest
  FrozenCapturesAreSound
  ReviewedBeforeTraining
  ConvertedIsLabelled
  RollsBackWithinDrift
  ModelIsDescribedOrNewer
  AlgorithmsAreExact
  FramesAreSound
  CaptureIsSound
PROPERTIES
  CloseStopsWorker
CHECK_DEADLOCK FALSE
