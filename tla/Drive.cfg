CONSTANTS p1 = p1  p2 = p2  k1 = k1  k2 = k2  c1 = c1  c2 = c2  None = None
          Pages = {p1, p2}  Keys = {k1, k2}  Contents = {c1, c2}
          MaxCasAttempts = 3  MaxObjects = 2  Connected = TRUE  SlowCommits = FALSE
          MaxCalls = 3  MaxGets = 0  MaxFaults = 1
          Operations <- OnOneKey
SPECIFICATION DriveSpec
SYMMETRY Symmetry
PROPERTY KeepsContract
INVARIANT IndexedBodiesAreKept
INVARIANT ReadsOwnWrites
CHECK_DEADLOCK FALSE
