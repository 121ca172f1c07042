SPECIFICATION Spec
CONSTANTS
  FaceStates = {"Observed", "Occluded"}
  Visibility = {"Observed", "SelfOccluded", "Predicted"}
  Streams = {s1, s2}
  MaxTime = 2
  MaxSequence = 3
  Interval = 2
  MaximumAge = 1
INVARIANTS
  ReusedIsFused
CHECK_DEADLOCK FALSE
