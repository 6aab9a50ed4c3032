SPECIFICATION ObservationsSpec
CONSTANTS
  Products = {p, q}
  Epochs = {0, 1}
  Times = {0, 1, 3}
  Numbers = {0, 1, 2, 3}
  Positions = {0, 1}
  MaxGap = 1
  MaxFrames = 4
  MaxBuffered = 3
  Length = 2
  Gap = 1
  Chunk = 1
  MaxLayouts = 2
  MaxKept = 2
  MaxClock = 3
  MaxCalls = 3
  MaxSeeks = 1
  MaxLooks = 3
  Memory = 2
  FrameGap = 2
  MaxTime = 3
  MaxAdmitted = 3
  MaxImages = 3
  MaxFaults = 2
  MaxCorners = 4
  FileSizes = {4, 28, 32}
  BoxSizes = {0, 1, 8, 16, 36}
  Movies = {0, 2, 3}
  MaxTracks = 2
  Duration = 3
  MaxExposures = 3
  MaxDefinitions = 2
  Values <- MCValues
  MissingReasons <- MCMissingReasons
  Batches <- MCBatches
  Envelopes <- MCEnvelopes
  Catalog <- MCCatalog
  Points <- MCPoints
  ProductOf <- MCProductOf
  SourceOf <- MCSourceOf
  Traits <- MCTraits
  Weight <- MCWeight
  Hellos <- MCHellos
  Messages <- MCMessages
  Corners <- MCCorners
  Spots <- MCSpots
  Tracks <- MCTracks
  Identity <- MCIdentity
  Exposures <- MCExposures
  ProductTags <- MCProductTags
  Definitions <- MCDefinitions
  Names <- MCNames
  Environments <- MCEnvironments
  MappedFrames <- MCMappedFrames
SYMMETRY Symmetry
CONSTRAINT TimelineBound
INVARIANTS WindowsExact WindowsGoForward KeptExactly RunsAreTrue SubmissionExact DecisionsGrounded
PROPERTIES LogSpec
CHECK_DEADLOCK FALSE
