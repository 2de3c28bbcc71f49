CONSTANTS p1 = p1  p2 = p2  v1 = v1  v2 = v2  None = None  Torn = Torn
          Pages = {p1, p2}  Keys = {1, 2, 3}  Contents = {v1, v2}
          Ops = {"put", "cas", "trash", "get", "list"}
          Faults = {"conflict", "status", "lost", "credentials", "etag", "abort"}
          PageSize = 1  MaxCalls = 4  MaxFaults = 3
SPECIFICATION StoresSpec
SYMMETRY Symmetry
PROPERTY KeepsContract
INVARIANT ListingsAreSound
PROPERTY OneVault
PROPERTY CacheIsAccounted
CHECK_DEADLOCK FALSE
