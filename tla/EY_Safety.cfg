SPECIFICATION EyeServiceSpec
CONSTANTS
  Sessions = {a, b}
  Calibrations = {c1, c2}
  Enders = {e1}
  None = None
  MaxFrames = 2
  QueueSize = 1
  Points = 4
  Checks = 3
  Finals = 2
  MaxRepair = 2
  Settle = 2
  Still = 1
  Enough = 2
  Span = 2
  Hold = 3
  FrameGap = 1
  MaxSeen = 5
  CalibrationIds = {"x", "y"}
  Streams = {"s", "t"}
  CacheLimit = 2
  MaxOrder = 1
  MaxAnswers = 3
  Width = 2
  JumpDistance = 2
  JumpSpeed = 1
  NearBy = 1
  ConfirmWindow = 1
  ResetGap = 2
  MaxTime = 3
  MaxLooks = 4
  TrainingPoints = 2
  ValidationPoints = 2
  EnoughSamples = 1
  EnoughFrames = 1
  Alphas = {1, 10}
  Errors = {0, 2, 6}
  MedianGate = 1
  TailGate = 3
  MaxShown = 2
SYMMETRY Symmetry
INVARIANTS CancelsExact ModelIsOwn NothingStays CalibrationIsFair SamplesAreTrue
CHECK_DEADLOCK FALSE
