SPECIFICATION ServerSpec
CONSTANTS
  MaxFrames = 2
  Catalog = {1, 2, 4}
  MaxContiguousGap = 3
  Batches <- Reactions
  Outcomes = {o1}
  Requests = {q1, q2}
  MaxSessions = 2
  Sessions = {s1, s2}
  Products = {p, q}
  None = None
  MaxDecisions = 2
  MaxHandlers = 2
  MaxPageFaults = 2
  MaxReleases = 3
  MaxFaults = 3
  Required = 5
  Closing = 3
  MaxJobs = 2
  MaxRuns = 4
INVARIANTS FrameInUse FeaturesExact LogsOfResults EventsExact 
PROPERTIES ClientIsAnswered AllGivenBack ResultsStay EventsReachTheScreen DatabaseIsSound
CHECK_DEADLOCK FALSE
