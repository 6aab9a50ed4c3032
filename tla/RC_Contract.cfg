SPECIFICATION HistorySpec
CONSTANTS
  Sessions = {s1}
  Jobs = {j1}
  Pool = {p1}
  Loop = Loop
  Keeper = Keeper
  NoJob = NoJob
  NoSession = NoSession
  MaxRuns = 2
  MaxFaults = 1
  MaxWorkers = 1
  Durable = TRUE
  DemoFallback = TRUE
CONSTRAINT UntilNextSession
INVARIANT EarlierRunsAreClosed
PROPERTY ContractSpec
