SPECIFICATION FairSpec
CONSTANTS
  Calls = {c1, c2}
  Cancellers = {k1}
  NoCall = NoCall
  MaxTurns = 1
  MaxTools = 1
  MaxStages = 1
  MaxQuestions = 1
  MaxCrashes = 1
  SetupMayFail = {"start", "resume"}
  Overlap = {"resolve", "second", "cancel"}
INVARIANTS OneRunnerPerTurn RunnerIsRegistered ToolRunsAtMostOnce
PROPERTY CancelHonoured
CHECK_DEADLOCK FALSE
