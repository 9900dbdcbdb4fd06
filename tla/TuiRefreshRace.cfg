SPECIFICATION TuiSpec
CONSTANTS
  p1 = p1
  c1 = c1
  c2 = c2
  Procs = {p1}
  Clients = {c1}
  DurableKinds = {"event"}
  Nobody = Nobody
  NoView = NoView
  SnapshotInterval = 2
  MaxEvents = 5
  MaxLive = 1
  MaxCrashes = 1
  MaxRefreshes = 1
INVARIANT QuiescentViewIsCurrent
CHECK_DEADLOCK FALSE
