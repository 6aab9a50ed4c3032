INIT Init
NEXT Next
CONSTANTS
  MaxFlows = 2
  MaxQueue = 2
  Opens = {1, 2}
  Captures = {11}
  None = None
INVARIANT CalibrationSeesCustomer
CHECK_DEADLOCK FALSE
