\* Two calls of any kind in one conversation, under every mode, arguments that may change.
SPECIFICATION Spec
CONSTANTS
  s1 = s1
  o1 = o1
  o2 = o2
  a1 = a1
  a2 = a2
  NoSession = NoSession
  Sessions <- OneSession
  Ops <- TwoOps
  SessionOf <- BothInOne
  Calls <- Kinds
  ModesInUse <- Modes
  Args <- TwoArgs
  MaxPending = 1
  MaxOutcomes = 2
SYMMETRY ArgSymmetry
CHECK_DEADLOCK FALSE
INVARIANTS EffectsAuthorized RunsOnceAsReviewed RecordsNameWhoAnswered NothingSurvivesAbort
