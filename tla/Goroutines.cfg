SPECIFICATION GoSpec
CONSTANTS
  \* SessionWatcher
  e1 = e1
  e2 = e2
  Items = {e1, e2}
  MaxPushes = 4
  None = None
  Replayed <- MCReplayed
  \* BackgroundExecution
  BgPumps = {p1, p2}
  BgResumers = {r1, r2}
  BgMaxChunks = 1
  BgMaxCrashes = 1
  BgMaxResumes = 2
  \* LanguageServer
  LspCallers = {1, 2}
  LspVersioned = {TRUE}
  LspMaxCalls = 2
  LspMaxTexts = 3
  LspMaxStarts = 2
INVARIANTS GoTypeOK NoLostWakeup BgOneSupervisor BgExitIsReal BgOutputCountedOnce LspOneServer LspDocumentIsCurrent LspDiagnosticsAreCurrent
PROPERTIES CanceledStops ImplementsStream BgExitIsRecorded
\* A watcher whose reader has gone, a process that was recorded as ended and a server
\* that nobody asks are at rest.
CHECK_DEADLOCK FALSE
