SPECIFICATION Spec
CONSTANTS
  Sessions = {s1}
  Jobs = {j1}
  Pool = {p1}
  Loop = Loop
  Keeper = Keeper
  NoJob = NoJob
  NoSession = NoSession
  MaxRuns = 1
  MaxFaults = 0
  MaxWorkers = 1
  Durable = TRUE
  DemoFallback = FALSE
INVARIANTS InFlightRowHasOwner
