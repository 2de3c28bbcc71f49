\* Google Drive answers get from an index cached by the same page.
SPECIFICATION Spec
CONSTANTS
  c1 = c1
  c2 = c2
  e1 = e1
  e2 = e2
  Clients <- Pages
  Tokenless = {}
  Events <- OneEvent
  MaxSegments = 2
  TrashBatch = 1
  CreateAttempts = 2
  AbsentReclaimed = TRUE
  IndexCache = TRUE
  LegacyCleanup = FALSE
  MaxIds = 3
  MaxFaults = 1
INVARIANTS CommittedReadable
