\* A store that answers get from an index cached by the page and reports an absent
\* key as not reclaimed, beside a release that removes completed markers.
SPECIFICATION Spec
CONSTANTS
  c1 = c1
  c2 = c2
  e1 = e1
  e2 = e2
  Clients <- Pages
  Tokenless = {}
  Events <- OneEvent
  MaxSegments = 2
  TrashBatch = 1
  CreateAttempts = 2
  AbsentReclaimed = FALSE
  IndexCache = TRUE
  LegacyCleanup = TRUE
  MaxIds = 3
  MaxFaults = 1
PROPERTY StaleReadsMisleadNoWrite
