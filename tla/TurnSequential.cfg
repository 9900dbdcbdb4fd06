SPECIFICATION Spec
CONSTANTS
  Calls = {c1, c2}
  Cancellers = {k1}
  NoCall = NoCall
  MaxTurns = 2
  MaxTools = 2
  MaxStages = 2
  MaxQuestions = 1
  MaxCrashes = 0
  SetupMayFail = {"start"}
  Overlap = {}
SYMMETRY SlotSymmetry
INVARIANTS TypeOK NoOrphanedTurn PendingBelongsToLiveTurn
CHECK_DEADLOCK FALSE
