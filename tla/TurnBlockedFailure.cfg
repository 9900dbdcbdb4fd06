SPECIFICATION Spec
CONSTANTS
  Calls = {c1, c2}
  Cancellers = {k1}
  NoCall = NoCall
  MaxTurns = 1
  MaxTools = 1
  MaxStages = 1
  MaxQuestions = 0
  MaxCrashes = 0
  SetupMayFail = {"resume"}
  Overlap = {}
INVARIANT PendingBelongsToLiveTurn
CHECK_DEADLOCK FALSE
