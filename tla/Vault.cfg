CONSTANTS
  p1 = p1  p2 = p2  f1 = f1  f2 = f2
  Pages <- TwoPages
  Paths <- TwoPaths
  Operations <- AllOperations
  MaxFiles = 2
  MaxQueueEntries = 3
  MaxCommitAttempts = 2
  TrashBatch = 1
  Reclaims = TRUE
  MaxRevisions = 2
  MaxFaults = 2
SPECIFICATION VaultSpec
SYMMETRY Symmetry
PROPERTY CommitsReplaceWhatTheySaw
INVARIANT ReferencedFilesAreStored
PROPERTY ReadyIsProbed
PROPERTY AdoptionLosesNothing
CHECK_DEADLOCK FALSE
