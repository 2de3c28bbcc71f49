\* Two pages, one without incarnation tokens, over a store with fresh reads.
SPECIFICATION Spec
CONSTANTS
  c1 = c1
  c2 = c2
  e1 = e1
  e2 = e2
  Clients <- Pages
  Tokenless <- Old
  Events <- TwoEvents
  MaxSegments = 2
  TrashBatch = 1
  CreateAttempts = 2
  AbsentReclaimed = TRUE
  IndexCache = FALSE
  LegacyCleanup = FALSE
  MaxIds = 4
  MaxFaults = 1
SYMMETRY EventSymmetry
INVARIANTS CommittedReadable ShownHeadIsPrefix NoStrandedCiphertext
PROPERTIES MutationsLandWhereRead ImplementsJournalBackend
