SPECIFICATION Spec
CONSTANTS
  Products = {p}
  Epochs = {0, 1}
  Times = {0, 1, 2}
  Numbers = {0, 1, 2}
  Positions = {0, 1}
  MaxGap = 1
  MaxFrames = 3
INVARIANT ReturnsAreWatched
CHECK_DEADLOCK FALSE
