SPECIFICATION PartSpec
CONSTANTS
  \* TuiSession
  p1 = p1
  c1 = c1
  c2 = c2
  Procs = {p1}
  Clients = {c1}
  DurableKinds = {"event"}
  Nobody = Nobody
  NoView = NoView
  SnapshotInterval = 2
  MaxEvents = 5
  MaxLive = 1
  MaxCrashes = 1
  MaxRefreshes = 2
  \* ProviderRequest
  ReqKinds = {"query", "read", "write", "question"}
  ReqMaxCalls = 3
  ReqMaxDeltas = 1
  ReqRetries = 1
  ReqContinuations = 1
  \* Authorization
  AuthTurns = {1, 2}
  AuthUsers = {u1, u2}
  AuthJobs <- MCJobs
  AuthPolicies <- MCPolicies
  AuthModes = {"auto"}
  AuthMaxCalls = 1
  AuthMaxAnswers = 2
  \* Budget
  BgtSessions = {"s1", "s2", "s3"}
  BgtTurns = {"t1", "t2"}
  BgtHome <- MCHome
  BgtMaxCost = 3
  BgtLimit = 3
  BgtTotalLimit = 5
  \* Workflow
  WfTypes <- MCTypes
  WfOutputs = {1}
  WfAuto = {2, 3, 4}
  WfRevision <- MCRevision
  WfRetry <- MCRetry
  WfSkipTo <- MCSkipTo
  WfFailures = {"turn_failed", "budget_exceeded"}
  WfCalls = {1, 2}
  WfMaxTurns = 4
  WfMaxFailed = 2
  WfMaxQuestions = 1
  WfMaxCrashes = 1
  \* FileMutation
  FmPaths = {1, 2}
  FmTurns = {1, 2}
  FmOutside = {1}
  FmStart = {{1}}
  FmLines = 2
  FmWindows <- MCWindows
  FmPatches <- MCPatches
  FmMaxCalls = 3
  FmMaxExternal = 1
  FmMaxRestores = 1
  \* SessionHistory
  HistMaxTurns = 3
  HistMaxEntries = 2
  HistMaxEvents = 8
  HistMaxNotes = 1
  HistMaxFaults = 1
  HistFrontier = 1
INVARIANTS PartsTypeOK OpeningLeavesNoGap StreamNeverFails ReqConversationIsLog ReqBrokenStreamOnlyReads AuthRunIsCovered AuthAskedOnce BgtQuietTotalIsExact WfRunsAreEarned FmNobodyDeadlocks FmPatchesStayWhole FmRestoreIsExact FmWritesAreInformed HistIsComplete HistNotesReachModel
\* A session's parts may come to rest.
CHECK_DEADLOCK FALSE
