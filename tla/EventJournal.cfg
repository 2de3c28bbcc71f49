\* Three calls of one page against a move of other clients; the backend answers.
SPECIFICATION FairSpec
CONSTANTS
  MaxCalls = 3
  MaxRemote = 1
  MaxFaults = 1
CHECK_DEADLOCK FALSE
INVARIANTS ConflictsComeFromOutside CommittedInCallOrder AbortedCommitsNothing
PROPERTIES EveryCallReturns
