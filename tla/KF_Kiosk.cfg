SPECIFICATION MCSpec
CONSTANTS
  MaxFlows = 2
  MaxQueue = 3
  Opens = {1, 2, 3}
  Captures = {11}
  None = None
  MaxSessions = 2
  MaxFrames = 2
INVARIANTS SessionsDisposed OwnDataOnly CameraReleased AnswersExpected SessionsEndWhole
PROPERTIES EndsOnlyItsOwn NobodyWaits HeardInTime CallsEnd
CHECK_DEADLOCK FALSE
