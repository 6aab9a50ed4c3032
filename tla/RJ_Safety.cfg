SPECIFICATION Spec
CONSTANTS
  Sessions = {s1}
  Jobs = {j1, j2}
  Pool = {p1}
  Loop = Loop
  Keeper = Keeper
  NoJob = NoJob
  NoSession = NoSession
  MaxRuns = 2
  MaxFaults = 1
  MaxWorkers = 1
  Durable = TRUE
  DemoFallback = TRUE
SYMMETRY Symmetry
CONSTRAINT UntilCrash
INVARIANTS TypeOK PendingHasRunnableJob EvidenceIsHeld
PROPERTIES RevokedJobNeverPublishes
