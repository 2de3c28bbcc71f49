CONSTANTS a1 = a1  a2 = a2  a3 = a3  None = None  n1 = n1  n2 = n2
          Jobs = {a1, a2, a3}  MaxQueuedJobs = 1  MaxBridgeCalls = 1
          Reentrant = FALSE  Interface = {"terminate", "restart"}  MaxCalls = 1  MaxFaults = 1
SPECIFICATION PrimeSpec
SYMMETRY Symmetry
PROPERTY ChildrenSettleOnce
INVARIANT JobsAreContained
PROPERTY RefinementsBuildOnWhatIsStored
PROPERTY RollbacksAreExact
CHECK_DEADLOCK FALSE
