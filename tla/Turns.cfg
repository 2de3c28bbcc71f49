CONSTANTS ManifestModel = "m1"  ManifestMode = "ask-first"  TurnContext = "disabled"
          Turns = {1, 2}  Effect <- Effects  KeyOf <- KeysOf  Decisions = {"allow"}
          Replies <- OneWrite  Models = {"m1", "m2"}  Modes = {"ask-first"}
          MaxSteps = 1  StopAt = 2  Preserve = 1  Compresses = FALSE  Prompts <- PlainPrompts
          MaxFaults = 1  MaxCrashes = 1  PrimeMayClaim = TRUE
SPECIFICATION TurnsSpec
INVARIANT AuditAccepts
INVARIANT HistoriesAreWellFormed
PROPERTY StoppedRequestsStayStopped
INVARIANT OneTurnOneEngine
CHECK_DEADLOCK FALSE
