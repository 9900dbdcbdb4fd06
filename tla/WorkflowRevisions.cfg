SPECIFICATION WfSpec
CONSTANTS
  WfTypes <- MCReviewed
  WfOutputs = {}
  WfAuto = {1, 2, 3}
  WfRevision <- MCTwoLoops
  WfRetry <- MCNothing
  WfSkipTo <- MCNothing
  WfFailures = {"turn_failed"}
  WfCalls = {1}
  WfMaxTurns = 8
  WfMaxFailed = 2
  WfMaxQuestions = 1
  WfMaxCrashes = 0
INVARIANTS WfRevisionsAreCapped
\* The workflow ends.
CHECK_DEADLOCK FALSE
